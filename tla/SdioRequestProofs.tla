------------------------- MODULE SdioRequestProofs --------------------------
(***************************************************************************)
(* Proofs about SdioRequest, for any number of blocks, retries and         *)
(* requests: a command starts with no event left over from the one before  *)
(* (NoStaleEvent), and a request without an error has been served          *)
(* (RequestOkMeansDone).                                                   *)
(*                                                                         *)
(* Both rest on a count. Outstanding says how many completions the thread  *)
(* may still be woken by; it never exceeds the waits the thread has left   *)
(* for them. A read waits twice for its command and its first block, in    *)
(* whatever order they end, every other step once.                         *)
(***************************************************************************)
EXTENDS SdioRequest, TLAPS

Data  == (0 .. MaxReqs) \X (0 .. MaxBlks)
Waits == {"recv", "wait", "got", "timeout"}
Sent  == SUBSET {"flag", "nrps"}
Dmas  == [on : BOOLEAN, req : 0 .. MaxReqs, dir : {"read", "write"},
          buf : {"user", "cache"}, blk : Blk]
Cards == [st : {"tran", "read", "write", "stalled"}, req : 0 .. MaxReqs,
          multi : BOOLEAN, next : 0 .. MaxBlks]
Count(b) == IF b THEN 1 ELSE 0

-----------------------------------------------------------------------------
(* The inductive invariant.                                                *)

CallTypes ==
    /\ req \in 0 .. MaxReqs /\ dir \in {"read", "write"} /\ blks \in 1 .. MaxBlks

Booleans ==
    /\ aligned \in BOOLEAN /\ busy \in BOOLEAN /\ late \in BOOLEAN /\ ready \in BOOLEAN
    /\ cflag \in BOOLEAN /\ dflag \in BOOLEAN /\ nrps \in BOOLEAN /\ arg3 \in BOOLEAN

BlockTypes ==
    user \in [Blk -> Data] /\ cache_buf \in [Blk -> Data] /\ disk \in [Blk -> Data]

ThreadTypes ==
    /\ pc \in {"idle", "send", "recv", "wait", "got", "timeout", "arm", "end",
               "complete", "return"}
    /\ phase \in {"cmd", "stop", "status"} /\ step \in {"cmd", "data"}
    /\ xfer_blks \in 0 .. MaxBlks /\ retries \in 0 .. StatusTries
    /\ cmd_err \in Error /\ stop_err \in Error

HardwareTypes ==
    /\ event \in Sent /\ status \in Sent
    /\ wire \in {"none", "cmd", "stop", "status"}
    /\ dma \in Dmas /\ card \in Cards
    /\ crcs \in {"none", "good", "bad"}

FieldTypes == CallTypes /\ Booleans /\ BlockTypes /\ ThreadTypes /\ HardwareTypes

\* the data loop: where xfer_blks is, and which request set the DMA up
DataPhase == pc = "arm" \/ (pc \in Waits /\ step = "data")

Loop ==
    /\ pc \in {"idle", "send"} \/ (pc \in Waits /\ step = "cmd") => xfer_blks = 0
    /\ DataPhase => phase = "cmd" /\ xfer_blks < blks
    /\ pc \in {"idle", "end"} => phase = "cmd"
    /\ phase = "cmd" /\ (pc = "send" \/ (pc \in Waits /\ step = "cmd")) => cmd_err = "ok"
    /\ dma.req <= req

\* the completions that may yet wake the thread
Flowing == Flows \/ (dma.on /\ wire = "cmd" /\ dma.dir = "read" /\ dir = "read")

Notified == Count(wire # "none") + Count(cflag \/ dflag) + Count(event # {})
              + Count(pc = "got")

Outstanding == Notified + Count(Flowing)

\* the waits the thread has left for them
WaitsLeft ==
    IF pc \in {"recv", "wait", "got"}
    THEN IF step = "cmd" /\ phase = "cmd" /\ dir = "read" THEN 2 ELSE 1
    ELSE IF pc = "arm" /\ dir = "read" /\ xfer_blks = 0 THEN 1 ELSE 0

\* the DMA of a write is set up once its command is answered
WriteWaits ==
    dir = "write" /\ phase = "cmd" /\ (pc \in {"send", "arm"} \/ (pc \in Waits /\ step = "cmd")) =>
        /\ ~Flows
        /\ xfer_blks = 0 => dma.req < req

Events == ~late => /\ Outstanding <= WaitsLeft
                   /\ pc = "wait" => event = {}
                   /\ WriteWaits
                   /\ wire = "cmd" => phase = "cmd" /\ pc \in Waits \cup {"arm"}
                   /\ wire = "cmd" /\ dir = "write" => step = "cmd"

\* no error so far, in the command with data or its STOP_TRANSMISSION
Healthy == ~late /\ ~busy /\ cmd_err = "ok" /\ pc \notin {"idle", "return"}
             /\ phase # "status"

\* the thread is in the command with data, and no wait of it has timed out
Serving == Healthy /\ phase = "cmd" /\ pc # "timeout"

\* this request's DMA still runs, whether the card goes on or not
Own == dma.on /\ dma.req = req

\* where the blocks come from and where they go
Source == IF aligned THEN user ELSE cache_buf
Target == IF dir = "write" THEN disk ELSE IF aligned THEN user ELSE cache_buf
InPlace(n) == \A k \in 0 .. n - 1 : Target[k] = <<req, k>>

\* the card answered, and has sent or taken n blocks
CardAt(n) ==
    \/ card.st = "stalled"
    \/ card = [st |-> dir, req |-> req, multi |-> blks > 1, next |-> n]
    \/ blks = 1 /\ n = 1 /\ card.st = "tran"

\* the block in hand, set up for DMA; its CRC status says whether it is there
BlockSetUp(k) ==
    /\ dma.req = req /\ dma.dir = dir /\ dma.blk = k
    /\ dma.buf = IF aligned THEN "user" ELSE "cache"
    /\ InPlace(k)
    /\ ~dma.on /\ (dir = "read" \/ crcs = "good") => InPlace(k + 1)
    /\ CardAt(IF dma.on THEN k ELSE k + 1)

\* the blocks below xfer_blks are there, the next one is not set up yet
BlockNext == InPlace(xfer_blks) /\ ~Own /\ CardAt(xfer_blks)

\* the command was not answered, and the thread is about to be told
Refused == \/ (cflag \/ dflag) /\ nrps
           \/ "nrps" \in event
           \/ pc = "got" /\ "nrps" \in status

\* before the answer to the command with data, after one that failed, and
\* after one that did not
Command ==
    \/ /\ wire = "cmd" \/ (wire = "none" /\ Refused)
       /\ dir = "read" => card.st # "read" /\ dma = Dma(0)
    \/ /\ wire = "none"
       /\ IF dir = "read" THEN BlockSetUp(0) ELSE BlockNext

Tally == Notified + Count(Own) <= WaitsLeft

SourceHeld == dir = "write" => \A k \in 0 .. blks - 1 : Source[k] = <<req, k>>

Progress ==
    /\ pc = "send" /\ dir = "read" => card.st # "read"
    /\ pc \in Waits /\ step = "cmd" => Command
    /\ pc = "arm" => /\ wire = "none"
                     /\ IF dir = "read" /\ xfer_blks = 0 THEN BlockSetUp(0) ELSE BlockNext
    /\ pc \in Waits /\ step = "data" => wire = "none" /\ BlockSetUp(xfer_blks)
    /\ pc = "end" => InPlace(blks) /\ ~dma.on

\* the data of the command is through, STOP_TRANSMISSION may follow
Through == Healthy /\ (phase = "stop" \/ pc = "complete")

Blocks == /\ Serving => Tally /\ SourceHeld /\ Progress
          /\ Through => Served /\ ~dma.on

IInv == FieldTypes /\ Loop /\ Events /\ Blocks

-----------------------------------------------------------------------------
(* Types and the data loop.                                                *)

LEMMA BlkRange == MaxBlks \in Nat \ {0} /\ Blk = 0 .. MaxBlks - 1 /\ 0 \in Blk
BY SdioRequestAssumption DEF Blk

LEMMA DataType ==
    /\ <<0, 0>> \in Data
    /\ \A r \in 0 .. MaxReqs, k \in 0 .. MaxBlks : <<r, k>> \in Data
BY SdioRequestAssumption DEF Data

LEMMA CardType ==
    ASSUME NEW c \in Cards
    PROVE  /\ Idle \in Cards
           /\ [c EXCEPT !.next = IF @ < MaxBlks THEN @ + 1 ELSE @] \in Cards
BY SdioRequestAssumption DEF Cards, Idle

LEMMA DmaType ==
    ASSUME FieldTypes, NEW k \in Blk
    PROVE  Dma(k) \in Dmas
BY DEF FieldTypes, CallTypes, Booleans, Dma, Dmas

\* what the interrupt sends, and what the thread is left with
LEMMA NoneSent == {} \in Sent
BY DEF Sent

LEMMA SentType ==
    ASSUME NEW s \in Sent, NEW b \in BOOLEAN
    PROVE  s \cup {"flag"} \cup (IF b THEN {"nrps"} ELSE {}) \in Sent
BY DEF Sent

LEMMA InitTypes == Init => FieldTypes /\ Loop
<1> SUFFICES ASSUME Init PROVE FieldTypes /\ Loop
  OBVIOUS
<1> USE SdioRequestAssumption, BlkRange
<1>1. Nothing \in [Blk -> Data]
  BY DEF Nothing, Data
<1>2. NoDma \in Dmas /\ NoDma.req = 0
  BY DEF NoDma, Dmas
<1>3. Idle \in Cards
  BY DEF Idle, Cards
<1>4. FieldTypes
  <2>1. CallTypes
    BY DEF Init, CallTypes
  <2>2. BlockTypes
    BY <1>1 DEF Init, BlockTypes
  <2>3. ThreadTypes
    BY DEF Init, ThreadTypes, Error
  <2>4. HardwareTypes
    BY <1>2, <1>3, NoneSent DEF Init, HardwareTypes
  <2>5. Booleans
    BY DEF Init, Booleans
  <2> QED BY <2>1, <2>2, <2>3, <2>4, <2>5 DEF FieldTypes
<1>5. Loop
  BY <1>2 DEF Init, Loop, DataPhase, Waits
<1> QED BY <1>4, <1>5

LEMMA NextTypes ==
    ASSUME FieldTypes, Loop, [Next]_vars
    PROVE  FieldTypes' /\ Loop'
<1> USE SdioRequestAssumption, BlkRange
        DEF Waits, DataPhase, FieldTypes, CallTypes, Booleans, BlockTypes, ThreadTypes,
            HardwareTypes
<1>1. ASSUME NEW d \in {"read", "write"}, NEW n \in 1 .. MaxBlks, NEW a \in BOOLEAN,
             Start(d, n, a)
      PROVE  FieldTypes' /\ Loop'
  <2> DEFINE data == [k \in Blk |-> IF d = "write" /\ k < n THEN <<req + 1, k>> ELSE <<0, 0>>]
  <2>1. req + 1 \in 0 .. MaxReqs
    BY <1>1 DEF Start
  <2>2. data \in [Blk -> Data]
    <3>1. \A k \in Blk : <<req + 1, k>> \in Data /\ <<0, 0>> \in Data
      BY <2>1, DataType
    <3> QED BY <3>1
  <2>3. cache_buf' \in [Blk -> Data]
    BY <1>1, <2>2 DEF Start
  <2>4. user' \in [Blk -> Data]
    BY <1>1, <2>2 DEF Start, Call
  <2>5. FieldTypes'
    <3>1. CallTypes'
      BY <1>1, <2>1 DEF Start, Call
    <3>2. BlockTypes'
      BY <1>1, <2>3, <2>4 DEF Start
    <3>3. ThreadTypes'
      BY <1>1 DEF Start, Fresh, Error
    <3>4. HardwareTypes'
      BY <1>1 DEF Start, flagVars
    <3>5. Booleans'
      BY <1>1 DEF Start, Call, Fresh, flagVars
    <3> QED BY <3>1, <3>2, <3>3, <3>4, <3>5
  <2>6. Loop'
    BY <1>1, <2>1 DEF Start, Call, Fresh, flagVars, Loop, Dmas
  <2> QED BY <2>5, <2>6
<1>2. CASE Send
  <2>1. dma' \in Dmas /\ dma'.req <= req
    <3>1. CASE phase = "cmd" /\ dir = "read"
      BY <1>2, <3>1, DmaType DEF Send, Loop, Dma
    <3>2. CASE ~(phase = "cmd" /\ dir = "read")
      BY <1>2, <3>2 DEF Send, Loop
    <3> QED BY <3>1, <3>2
  <2> QED BY <1>2, <2>1 DEF Send, Loop, callVars, flagVars
<1>3. CASE Recv
  <2>1. CallTypes' /\ Booleans' /\ BlockTypes'
    BY <1>3 DEF Recv, callVars, flagVars
  <2>2. ThreadTypes' /\ HardwareTypes'
    BY <1>3, NoneSent DEF Recv, flagVars
  <2>3. Loop'
    BY <1>3 DEF Recv, Loop, callVars
  <2> QED BY <2>1, <2>2, <2>3
<1>4. CASE CmdDone
  <2>1. FieldTypes'
    BY <1>4, NoneSent DEF CmdDone, callVars, flagVars, Error
  <2>2. Loop'
    BY <1>4 DEF CmdDone, Loop, callVars, flagVars
  <2> QED BY <2>1, <2>2
<1>5. CASE Arm
  <2>1. dma' \in Dmas /\ dma'.req <= req
    <3>1. CASE dir = "write" \/ xfer_blks # 0
      <4>1. xfer_blks \in Blk
        BY <1>5 DEF Arm, Loop
      <4> QED BY <1>5, <3>1, <4>1, DmaType DEF Arm, Dma
    <3>2. CASE ~(dir = "write" \/ xfer_blks # 0)
      BY <1>5, <3>2 DEF Arm, Loop
    <3> QED BY <3>1, <3>2
  <2> QED BY <1>5, <2>1 DEF Arm, Loop, callVars, flagVars
<1>6. CASE DataDone
  <2>1. FieldTypes'
    <3>1. CallTypes' /\ BlockTypes'
      BY <1>6 DEF DataDone, callVars
    <3>2. Booleans'
      BY <1>6 DEF DataDone, callVars
    <3>3. ThreadTypes'
      BY <1>6 DEF DataDone, Loop, Error
    <3>4. HardwareTypes'
      BY <1>6, NoneSent DEF DataDone
    <3> QED BY <3>1, <3>2, <3>3, <3>4
  <2>2. Loop'
    BY <1>6 DEF DataDone, Loop, callVars
  <2> QED BY <2>1, <2>2
<1>7. CASE End
  <2>1. user' \in [Blk -> Data]
    BY <1>7 DEF End
  <2> QED BY <1>7, <2>1 DEF End, Loop, callVars, flagVars
<1>8. CASE Complete
  <2>1. /\ phase' \in {"cmd", "stop", "status"} /\ retries' \in 0 .. StatusTries
        /\ cmd_err' \in Error /\ pc' \in {"send", "return"}
        /\ pc' = "send" => xfer_blks' = 0 /\ phase' = "status"
        /\ xfer_blks' \in 0 .. MaxBlks
    BY <1>8 DEF Complete, SendStatus, Error
  <2> QED BY <1>8, <2>1 DEF Complete, Loop, callVars, flagVars
<1>9. CASE Return
  <2>1. Nothing \in [Blk -> Data]
    BY DataType DEF Nothing
  <2>2. FieldTypes'
    <3>1. CallTypes'
      BY <1>9 DEF Return, Call
    <3>2. BlockTypes'
      BY <1>9, <2>1 DEF Return, Call
    <3>3. ThreadTypes'
      BY <1>9 DEF Return, Fresh, Error
    <3>4. HardwareTypes'
      BY <1>9 DEF Return, flagVars
    <3>5. Booleans'
      BY <1>9 DEF Return, Call, Fresh, flagVars
    <3> QED BY <3>1, <3>2, <3>3, <3>4, <3>5
  <2>3. Loop'
    BY <1>9 DEF Return, Call, Fresh, Loop, flagVars
  <2> QED BY <2>2, <2>3
<1>10. CASE Timeout
  BY <1>10 DEF Timeout, Loop, callVars, flagVars, Flows, Quiet, Late
<1>11. CASE Isr
  <2>1. event' \in Sent /\ status' \in Sent
    BY <1>11, SentType, NoneSent DEF Isr
  <2>2. CallTypes' /\ BlockTypes' /\ Loop'
    BY <1>11 DEF Isr, Loop, callVars
  <2>3. Booleans'
    BY <1>11 DEF Isr, callVars
  <2>4. ThreadTypes'
    BY <1>11 DEF Isr
  <2>5. HardwareTypes'
    BY <1>11, <2>1 DEF Isr
  <2> QED BY <2>2, <2>3, <2>4, <2>5
<1>12. ASSUME NEW ok \in BOOLEAN, Answer(ok)
       PROVE  FieldTypes' /\ Loop'
  <2>1. card' \in Cards
    BY <1>12 DEF Answer, Cards, Idle
  <2> QED BY <1>12, <2>1 DEF Answer, Loop, callVars, threadVars
<1>13. ASSUME NEW good \in BOOLEAN, Block(good)
       PROVE  FieldTypes' /\ Loop'
  <2>1. dma' \in Dmas /\ dma'.req = dma.req
    BY <1>13 DEF Block, Dmas
  <2>2. card' \in Cards
    BY <1>13, CardType DEF Block
  <2>3. dma.blk \in Blk /\ <<card.req, card.next>> \in Data
    BY DEF Dmas, Cards, Data
  <2> DEFINE From == IF dma.buf = "cache" THEN cache_buf ELSE user
  <2>6. From[dma.blk] \in Data
    BY <2>3
  <2>4. user' \in [Blk -> Data] /\ cache_buf' \in [Blk -> Data] /\ disk' \in [Blk -> Data]
    <3>1. \A f \in [Blk -> Data], y \in Data : \A x : [f EXCEPT ![x] = y] \in [Blk -> Data]
      OBVIOUS
    <3>2. CASE dma.dir = "read"
      BY <1>13, <2>3, <3>1, <3>2 DEF Block
    <3>3. CASE dma.dir # "read"
      BY <1>13, <2>6, <3>1, <3>3 DEF Block
    <3> QED BY <3>2, <3>3
  <2>5. crcs' \in {"none", "good", "bad"}
    BY <1>13 DEF Block
  <2> QED BY <1>13, <2>1, <2>2, <2>4, <2>5 DEF Block, Loop, callVars, threadVars
<1>14. CASE Stall
  <2>1. card' \in Cards
    BY <1>14 DEF Stall, Cards
  <2> QED BY <1>14, <2>1 DEF Stall, Loop, callVars, threadVars, flagVars
<1>15. CASE UNCHANGED vars
  BY <1>15 DEF vars, Loop, callVars, threadVars, flagVars
<1> QED BY <1>1, <1>2, <1>3, <1>4, <1>5, <1>6, <1>7, <1>8, <1>9, <1>10, <1>11, <1>12,
           <1>13, <1>14, <1>15 DEF Next, Driver, Card

-----------------------------------------------------------------------------
(* The completions outstanding.                                            *)

LEMMA InitEvents == Init => Events
BY DEF Init, Events, Outstanding, Notified, Count, Flowing, Flows, NoDma, Idle, WaitsLeft,
       WriteWaits, Waits

LEMMA NextEvents ==
    ASSUME FieldTypes, Loop, Events, [Next]_vars
    PROVE  Events'
<1> SUFFICES ASSUME ~late'
             PROVE  /\ Outstanding' <= WaitsLeft'
                    /\ pc' = "wait" => event' = {}
                    /\ WriteWaits'
                    /\ wire' = "cmd" => phase' = "cmd" /\ pc' \in Waits \cup {"arm"}
                    /\ wire' = "cmd" /\ dir' = "write" => step' = "cmd"
  BY DEF Events
<1> USE SdioRequestAssumption, BlkRange
        DEF Outstanding, Notified, Count, Flowing, Flows, WaitsLeft, WriteWaits, Waits, Loop,
            DataPhase, CallTypes, ThreadTypes
<1>t. CallTypes /\ ThreadTypes /\ Booleans /\ HardwareTypes
  BY DEF FieldTypes
<1>e. ASSUME ~late
      PROVE  /\ Outstanding <= WaitsLeft
             /\ pc = "wait" => event = {}
             /\ WriteWaits
             /\ wire = "cmd" => phase = "cmd" /\ pc \in Waits \cup {"arm"}
             /\ wire = "cmd" /\ dir = "write" => step = "cmd"
  BY <1>e DEF Events
<1>1. ASSUME NEW d \in {"read", "write"}, NEW n \in 1 .. MaxBlks, NEW a \in BOOLEAN,
             Start(d, n, a)
      PROVE  Events'
  BY <1>1, <1>t, <1>e DEF Start, Call, Fresh, flagVars, Events, Dmas, HardwareTypes
<1>2. CASE Send
  BY <1>2, <1>t, <1>e DEF Send, callVars, flagVars, Dma
<1>3. CASE Recv
  BY <1>3, <1>t, <1>e DEF Recv, callVars, flagVars
<1>4. CASE CmdDone
  BY <1>4, <1>t, <1>e DEF CmdDone, callVars, flagVars
<1>5. CASE Arm
  BY <1>5, <1>t, <1>e DEF Arm, callVars, flagVars, Dma
<1>6. CASE DataDone
  BY <1>6, <1>t, <1>e DEF DataDone, callVars
<1>7. CASE End
  BY <1>7, <1>t, <1>e DEF End, callVars, flagVars
<1>8. CASE Complete
  BY <1>8, <1>t, <1>e DEF Complete, SendStatus, callVars, flagVars
<1>9. CASE Return
  BY <1>9, <1>t, <1>e DEF Return, Call, Fresh, flagVars
<1>10. CASE Timeout
  <2>1. ~late /\ Quiet
    BY <1>10 DEF Timeout
  <2>2. event = {}
    BY <1>10, <1>e, <2>1 DEF Timeout
  <2>3. pc' = "timeout" /\ Outstanding' = 0
    BY <1>10, <2>1, <2>2 DEF Timeout, Quiet, callVars, flagVars
  <2> QED BY <1>10, <1>t, <1>e, <2>1, <2>3 DEF Timeout, callVars
<1>11. CASE Isr
  BY <1>11, <1>t, <1>e DEF Isr, callVars
<1>12. ASSUME NEW ok \in BOOLEAN, Answer(ok)
       PROVE  Events'
  <2>1. /\ ~late /\ wire # "none" /\ wire' = "none" /\ cflag' /\ dflag' = dflag
        /\ event' = event /\ dma' = dma
        /\ UNCHANGED <<callVars, threadVars>>
    BY <1>12 DEF Answer
  <2>2. Flows' => Flowing
    <3>1. CASE wire = "cmd" /\ ok
      <4>1. card' = [st |-> dir, req |-> req, multi |-> blks > 1, next |-> 0]
        BY <1>12, <3>1 DEF Answer
      <4>2. dir = "write" => pc \in Waits /\ step = "cmd" /\ phase = "cmd" /\ xfer_blks = 0
        BY <1>e, <1>t, <2>1, <3>1
      <4>3. dir = "write" => dma.req < req
        BY <1>e, <2>1, <4>2
      <4> QED BY <1>t, <2>1, <3>1, <4>1, <4>3 DEF Dmas, HardwareTypes
    <3>2. CASE wire = "stop" /\ ok
      BY <1>12, <2>1, <3>2, <1>t DEF Answer, Idle, Dmas, HardwareTypes
    <3>3. CASE ~(wire \in {"cmd", "stop"} /\ ok)
      BY <1>12, <2>1, <3>3 DEF Answer
    <3> QED BY <3>1, <3>2, <3>3
  <2>3. Outstanding' <= Outstanding
    BY <2>1, <2>2 DEF threadVars
  <2>4. WriteWaits'
    <3>1. CASE dir = "write" /\ phase = "cmd" /\ (pc \in {"send", "arm"} \/ step = "cmd")
      <4>1. \/ ~Flows /\ (xfer_blks = 0 => dma.req < req)
            \/ pc \notin Waits \cup {"send", "arm"}
        BY <1>e, <2>1, <3>1
      <4> QED BY <1>t, <2>1, <2>2, <3>1, <4>1 DEF callVars, threadVars
    <3>2. CASE ~(dir = "write" /\ phase = "cmd" /\ (pc \in {"send", "arm"} \/ step = "cmd"))
      BY <2>1, <3>2 DEF callVars, threadVars
    <3> QED BY <3>1, <3>2
  <2>5. Outstanding' <= WaitsLeft'
    BY <1>e, <1>t, <2>1, <2>3 DEF callVars, threadVars
  <2> QED BY <1>e, <2>1, <2>4, <2>5 DEF Events, callVars, threadVars
<1>13. ASSUME NEW good \in BOOLEAN, Block(good)
       PROVE  Events'
  BY <1>13, <1>t, <1>e DEF Block, callVars, threadVars, Idle, Events, Dmas, Cards, HardwareTypes
<1>14. CASE Stall
  <2>1. ~late /\ card'.st = "stalled" /\ dma.dir # "stalled"
    BY <1>14, <1>t DEF Stall, Cards, Dmas, HardwareTypes
  <2>2. ~Flows'
    BY <1>14, <2>1 DEF Stall
  <2> QED BY <1>14, <1>t, <1>e, <2>1, <2>2 DEF Stall, callVars, threadVars, flagVars
<1>15. CASE UNCHANGED vars
  BY <1>15, <1>e DEF vars, callVars, threadVars, flagVars
<1> QED
  BY <1>1, <1>2, <1>3, <1>4, <1>5, <1>6, <1>7, <1>8, <1>9, <1>10, <1>11, <1>12, <1>13,
     <1>14, <1>15 DEF Next, Driver, Card, Events

-----------------------------------------------------------------------------
(* The blocks and where they are.                                          *)

LEMMA InitBlocks == Init => Blocks
BY DEF Init, Blocks, Serving, Healthy, Through

LEMMA NextBlocksQuiet ==
    ASSUME FieldTypes, Loop, Events, Blocks,
           Recv \/ Timeout \/ Isr \/ Stall \/ UNCHANGED vars
    PROVE  Blocks'
<1> USE DEF Waits
<1>1. UNCHANGED <<req, dir, blks, aligned, user, cache_buf, disk, dma, phase, step, xfer_blks,
                  cmd_err, wire, crcs, busy, nrps>>
  BY DEF Recv, Timeout, Isr, Stall, vars, callVars, threadVars, flagVars
<1>2. Serving' => Serving
  BY <1>1 DEF Serving, Healthy, Recv, Timeout, Isr, Stall, vars, threadVars
<1>3. Through' => Through
  BY <1>1 DEF Through, Healthy, Recv, Timeout, Isr, Stall, vars, threadVars
<1>4. ASSUME NEW n PROVE InPlace(n)' <=> InPlace(n)
  BY <1>1 DEF InPlace, Target
<1>5. card' = card \/ (card.st \in {"read", "write"} /\ card' = [card EXCEPT !.st = "stalled"])
  BY DEF Recv, Timeout, Isr, Stall, vars
<1>6. card'.st = card.st \/ card'.st = "stalled"
  BY <1>5 DEF FieldTypes, HardwareTypes, Cards
<1>7. ASSUME NEW n, CardAt(n) PROVE CardAt(n)'
  BY <1>1, <1>5, <1>6, <1>7 DEF CardAt
<1>8. ASSUME NEW k, BlockSetUp(k) PROVE BlockSetUp(k)'
  BY <1>1, <1>4, <1>7, <1>8 DEF BlockSetUp
<1>9. BlockNext => BlockNext'
  BY <1>1, <1>4, <1>7 DEF BlockNext, Own
<1>10. SourceHeld => SourceHeld'
  BY <1>1 DEF SourceHeld, Source
<1>11. ASSUME Serving' PROVE Tally'
  <2>1. /\ Notified + Count(Own) <= WaitsLeft /\ pc' # "timeout"
        /\ pc = "wait" => event = {}
    BY <1>2, <1>11 DEF Blocks, Tally, Serving, Healthy, Events
  <2>2. Own' <=> Own
    BY <1>1 DEF Own
  <2> USE DEF Notified, WaitsLeft, Count, Tally
  <2>3. CASE Recv
    BY <1>1, <2>1, <2>2, <2>3 DEF Recv, flagVars
  <2>4. CASE Timeout
    BY <2>1, <2>4 DEF Timeout
  <2>5. CASE Isr
    BY <1>1, <2>1, <2>2, <2>5 DEF Isr
  <2>6. CASE Stall
    BY <1>1, <2>1, <2>2, <2>6 DEF Stall, threadVars, flagVars
  <2>7. CASE UNCHANGED vars
    BY <1>1, <2>1, <2>2, <2>7 DEF vars, threadVars, flagVars
  <2> QED BY <2>3, <2>4, <2>5, <2>6, <2>7
<1>12. ASSUME Serving, Serving', Refused PROVE Refused'
  <2>1. pc' # "timeout" /\ (pc = "wait" => event = {})
    BY <1>12 DEF Serving, Healthy, Events
  <2> USE DEF Refused
  <2>2. CASE Recv
    BY <1>1, <1>12, <2>1, <2>2 DEF Recv, flagVars
  <2>3. CASE Timeout
    BY <2>1, <2>3 DEF Timeout
  <2>4. CASE Isr
    BY <1>1, <1>12, <2>1, <2>4 DEF Isr
  <2>5. CASE Stall
    BY <1>12, <2>5 DEF Stall, threadVars, flagVars
  <2>6. CASE UNCHANGED vars
    BY <1>12, <2>6 DEF vars, threadVars, flagVars
  <2> QED BY <2>2, <2>3, <2>4, <2>5, <2>6
<1>13. ASSUME Serving' PROVE Progress'
  <2>1. Progress /\ Serving
    BY <1>2, <1>13 DEF Blocks
  <2>2. pc' \in Waits => pc \in Waits
    BY DEF Recv, Timeout, Isr, Stall, vars, threadVars
  <2>3. pc' \notin Waits => pc' = pc
    BY DEF Recv, Timeout, Isr, Stall, vars, threadVars
  <2>4. Command => Command'
    BY <1>1, <1>6, <1>8, <1>9, <1>12, <1>13, <2>1 DEF Command, Dma
  <2> QED BY <1>1, <1>4, <1>6, <1>8, <1>9, <2>1, <2>2, <2>3, <2>4 DEF Progress
<1>14. Served => Served'
  BY <1>1 DEF Served
<1> QED BY <1>1, <1>2, <1>3, <1>10, <1>11, <1>13, <1>14 DEF Blocks

LEMMA StartBlocks ==
    ASSUME FieldTypes, Loop, Events, Blocks,
           NEW d \in {"read", "write"}, NEW n \in 1 .. MaxBlks, NEW a \in BOOLEAN,
           Start(d, n, a)
    PROVE  Blocks'
<1> DEFINE data == [k \in Blk |-> IF d = "write" /\ k < n THEN <<req + 1, k>> ELSE <<0, 0>>]
<1> USE SdioRequestAssumption, BlkRange
<1>1. /\ pc = "idle" /\ req' = req + 1 /\ pc' = "send" /\ busy' = (card.st = "read")
      /\ dir' = d /\ blks' = n /\ aligned' = a /\ user' = data
      /\ phase' = "cmd" /\ xfer_blks' = 0 /\ cmd_err' = "ok"
      /\ cache_buf' = IF d = "write" /\ ~a
                      THEN [k \in Blk |-> IF k < n THEN data[k] ELSE cache_buf[k]]
                      ELSE cache_buf
      /\ UNCHANGED <<event, status, wire, dma, cflag, dflag, card, late>>
  BY DEF Start, Call, Fresh, flagVars
<1>2. ~Through'
  BY <1>1 DEF Through
<1>3. ASSUME Serving' PROVE Tally'
  <2>1. Outstanding <= 0
    BY <1>1, <1>3 DEF Events, Serving, Healthy, WaitsLeft
  <2>2. Notified' = Notified /\ Notified <= 0
    BY <1>1, <2>1 DEF Notified, Outstanding, Count
  <2>3. ~Own'
    BY <1>1 DEF Own, Loop, FieldTypes, CallTypes, HardwareTypes, Dmas
  <2> QED BY <1>1, <2>2, <2>3 DEF Tally, Count, WaitsLeft, Notified
<1>4. SourceHeld'
  <2>1. ASSUME d = "write", NEW k \in 0 .. n - 1 PROVE Source'[k] = <<req + 1, k>>
    <3>1. k \in Blk /\ k < n /\ data[k] = <<req + 1, k>>
      BY <2>1
    <3>2. CASE a
      BY <1>1, <3>1, <3>2 DEF Source
    <3>3. CASE ~a
      BY <1>1, <2>1, <3>1, <3>3 DEF Source
    <3> QED BY <3>2, <3>3
  <2> QED BY <1>1, <2>1 DEF SourceHeld
<1>5. Serving' => Progress'
  BY <1>1 DEF Serving, Healthy, Progress, Waits
<1> QED BY <1>2, <1>3, <1>4, <1>5 DEF Blocks

LEMMA SendBlocks ==
    ASSUME FieldTypes, Loop, Events, Blocks, Send
    PROVE  Blocks'
<1>1. /\ pc = "send" /\ pc' = "recv" /\ step' = "cmd" /\ wire' = phase
      /\ dma' = IF phase = "cmd" /\ dir = "read" THEN Dma(xfer_blks) ELSE dma
      /\ UNCHANGED <<callVars, user, phase, xfer_blks, cmd_err, cache_buf, event, status,
                     flagVars, card, disk, late>>
  BY DEF Send
<1>2. xfer_blks = 0
  BY <1>1 DEF Loop
<1>3. Serving' => Serving
  BY <1>1 DEF Serving, Healthy, callVars
<1>4. ASSUME Serving' PROVE Tally'
  <2>1. Outstanding <= 0 /\ WriteWaits /\ phase = "cmd"
    BY <1>1, <1>4 DEF Events, Serving, Healthy, WaitsLeft, callVars
  <2>2. Notified' = 1
    BY <1>1, <2>1 DEF Notified, Outstanding, Count, flagVars, Flowing
  <2>3. CASE dir = "read"
    BY <1>1, <2>1, <2>2, <2>3 DEF Tally, Count, WaitsLeft, Notified, callVars
  <2>4. CASE dir = "write"
    <3>1. ~Own'
      BY <1>1, <1>2, <2>1, <2>4 DEF WriteWaits, Own, callVars, Loop, FieldTypes, CallTypes,
                                   HardwareTypes, Dmas
    <3> QED BY <1>1, <2>1, <2>2, <2>4, <3>1 DEF Tally, Count, WaitsLeft, Notified, callVars
  <2> QED BY <2>3, <2>4 DEF FieldTypes, CallTypes
<1>5. SourceHeld => SourceHeld'
  BY <1>1 DEF SourceHeld, Source, callVars
<1>6. ASSUME Serving' PROVE Progress'
  <2>1. phase = "cmd" /\ (dir = "read" => card.st # "read")
    BY <1>1, <1>3, <1>6 DEF Serving, Blocks, Progress
  <2>2. Command'
    BY <1>1, <1>2, <2>1 DEF Command, Dma, callVars
  <2> QED BY <1>1, <2>2 DEF Progress, Waits
<1>7. Through' => Through /\ phase = "stop"
  BY <1>1 DEF Through, Healthy, callVars
<1>8. Served => Served'
  BY <1>1 DEF Served, callVars
<1> QED BY <1>1, <1>3, <1>4, <1>5, <1>6, <1>7, <1>8 DEF Blocks

LEMMA CmdDoneBlocks ==
    ASSUME FieldTypes, Loop, Events, Blocks, CmdDone
    PROVE  Blocks'
<1> USE DEF Waits
<1>1. /\ pc \in {"got", "timeout"} /\ step = "cmd"
      /\ pc' = IF phase = "cmd" THEN "arm" ELSE "complete"
      /\ phase = "cmd" /\ cmd_err' = "ok" => pc = "got" /\ "nrps" \notin status
      /\ phase = "stop" => cmd_err' = cmd_err
      /\ UNCHANGED <<callVars, user, phase, step, xfer_blks, cache_buf, event, wire, dma,
                     flagVars, card, disk, late>>
  BY DEF CmdDone
<1>2. ASSUME Serving' PROVE Blocks'
  <2>1. phase = "cmd" /\ pc = "got" /\ "nrps" \notin status /\ pc' = "arm" /\ xfer_blks = 0
    BY <1>1, <1>2 DEF Serving, Healthy, Loop
  <2>2. Tally /\ SourceHeld /\ Command
    <3>1. Serving
      BY <1>1, <1>2, <2>1 DEF Serving, Healthy, callVars, Loop
    <3> QED BY <1>1, <2>1, <3>1 DEF Blocks, Progress
  <2>3. WriteWaits
    BY <1>1, <1>2 DEF Events, Serving, Healthy
  <2>4. wire = "none" /\ (IF dir = "read" THEN BlockSetUp(0) ELSE BlockNext)
    <3>1. CASE dir = "read"
      <4>1. Own => Notified <= 1
        BY <2>1, <2>2, <1>1, <3>1 DEF Tally, Count, Notified, WaitsLeft
      <4>2. dma = Dma(0) => Own
        BY DEF Own, Dma
      <4>3. Own => ~(wire = "cmd") /\ ~(cflag \/ dflag) /\ event = {}
        BY <2>1, <4>1 DEF Count, Notified
      <4>4. ~(dma = Dma(0) /\ (wire = "cmd" \/ Refused))
        BY <2>1, <4>2, <4>3 DEF Refused
      <4> QED BY <2>2, <3>1, <4>4 DEF Command
    <3>2. CASE dir = "write"
      <4>1. Notified <= 1
        BY <2>1, <2>2, <1>1, <3>2 DEF Tally, Count, Notified, WaitsLeft, Own
      <4>2. ~(wire = "cmd") /\ ~(cflag \/ dflag) /\ event = {}
        BY <2>1, <4>1 DEF Count, Notified
      <4>3. ~Refused
        BY <2>1, <4>2 DEF Refused
      <4> QED BY <2>2, <3>2, <4>2, <4>3 DEF Command
    <3> QED BY <3>1, <3>2 DEF FieldTypes, CallTypes
  <2>5. Tally'
    BY <1>1, <2>1, <2>2 DEF Tally, Notified, WaitsLeft, Count, Own, callVars, flagVars
  <2>6. SourceHeld'
    BY <1>1, <2>2 DEF SourceHeld, Source, callVars
  <2>7. Progress'
    BY <1>1, <2>1, <2>4 DEF Progress, BlockSetUp, BlockNext, InPlace, Target, CardAt, Own,
                           callVars, flagVars
  <2>8. ~Through'
    BY <1>1, <2>1 DEF Through
  <2> QED BY <2>5, <2>6, <2>7, <2>8 DEF Blocks
<1>3. ASSUME ~Serving' PROVE Blocks'
  <2>1. Through' => phase = "stop"
    BY <1>1 DEF Through, Healthy, FieldTypes, ThreadTypes
  <2>2. Through' => Through
    BY <1>1, <2>1 DEF Through, Healthy, callVars
  <2> QED BY <1>1, <1>3, <2>2 DEF Blocks, Served, callVars
<1> QED BY <1>2, <1>3

LEMMA ArmBlocks ==
    ASSUME FieldTypes, Loop, Events, Blocks, Arm
    PROVE  Blocks'
<1> USE DEF Waits
<1>1. /\ pc = "arm" /\ pc' = "recv" /\ step' = "data"
      /\ dma' = IF dir = "write" \/ xfer_blks # 0 THEN Dma(xfer_blks) ELSE dma
      /\ UNCHANGED <<callVars, user, phase, xfer_blks, cmd_err, cache_buf, event, wire,
                     flagVars, card, disk, late>>
  BY DEF Arm
<1>2. ~Through'
  BY <1>1 DEF Through, DataPhase, Loop
<1>3. SUFFICES ASSUME Serving' PROVE Tally' /\ SourceHeld' /\ Progress'
  BY <1>2 DEF Blocks
<1>4. Serving
  BY <1>1, <1>3 DEF Serving, Healthy, callVars
<1>5. Tally /\ SourceHeld /\ wire = "none"
      /\ IF dir = "read" /\ xfer_blks = 0 THEN BlockSetUp(0) ELSE BlockNext
  BY <1>1, <1>4 DEF Blocks, Progress
<1>6. Tally'
  BY <1>1, <1>5 DEF Tally, Notified, WaitsLeft, Count, Own, callVars, flagVars, FieldTypes,
                    CallTypes
<1>7. SourceHeld'
  BY <1>1, <1>5 DEF SourceHeld, Source, callVars
<1>8. BlockSetUp(xfer_blks)'
  <2>1. CASE dir = "read" /\ xfer_blks = 0
    BY <1>1, <1>5, <2>1 DEF BlockSetUp, InPlace, Target, CardAt, callVars, flagVars
  <2>2. CASE ~(dir = "read" /\ xfer_blks = 0)
    <3>1. dma' = Dma(xfer_blks)
      BY <1>1, <2>2 DEF FieldTypes, CallTypes
    <3> QED BY <1>1, <1>5, <2>2, <3>1 DEF BlockSetUp, BlockNext, InPlace, Target, CardAt, Dma,
                                         callVars, flagVars
  <2> QED BY <2>1, <2>2
<1>9. Progress'
  BY <1>1, <1>5, <1>8 DEF Progress
<1> QED BY <1>6, <1>7, <1>9

LEMMA DataDoneBlocks ==
    ASSUME FieldTypes, Loop, Events, Blocks, DataDone
    PROVE  Blocks'
<1> USE DEF Waits
<1>1. /\ pc \in {"got", "timeout"} /\ step = "data" /\ phase = "cmd" /\ xfer_blks < blks
      /\ xfer_blks' = xfer_blks + 1
      /\ pc' = IF xfer_blks + 1 = blks THEN "end" ELSE "arm"
      /\ UNCHANGED <<callVars, user, phase, step, cache_buf, event, wire, dma, crcs, card,
                     cflag, disk, late>>
      /\ dflag' => dflag
  BY DEF DataDone, Loop, DataPhase, FieldTypes, Booleans
<1>2. cmd_err' = "ok" => pc = "got" /\ (dir = "write" => crcs = "good") /\ cmd_err = "ok"
  BY <1>1 DEF DataDone
<1>3. ~Through'
  BY <1>1 DEF Through
<1>4. SUFFICES ASSUME Serving' PROVE Tally' /\ SourceHeld' /\ Progress'
  BY <1>3 DEF Blocks
<1>5. Serving /\ pc = "got" /\ (dir = "write" => crcs = "good")
  BY <1>1, <1>2, <1>4 DEF Serving, Healthy, callVars
<1>6. Tally /\ SourceHeld /\ wire = "none" /\ BlockSetUp(xfer_blks)
  BY <1>1, <1>5 DEF Blocks, Progress
<1>7. ~Own /\ Notified <= 1 /\ ~dma.on
  BY <1>1, <1>5, <1>6 DEF Tally, Notified, WaitsLeft, Count, Own, BlockSetUp
<1>8. Tally'
  BY <1>1, <1>5, <1>7 DEF Tally, Notified, WaitsLeft, Count, Own, callVars
<1>9. SourceHeld'
  BY <1>1, <1>6 DEF SourceHeld, Source, callVars
<1>10. InPlace(xfer_blks + 1) /\ CardAt(xfer_blks + 1)
  BY <1>5, <1>6, <1>7 DEF BlockSetUp, FieldTypes, CallTypes
<1>11. Progress'
  <2>1. CASE pc' = "end"
    <3>1. xfer_blks + 1 = blks
      BY <1>1, <2>1
    <3>2. InPlace(blks)'
      BY <1>1, <1>10, <3>1 DEF InPlace, Target, callVars
    <3> QED BY <1>1, <1>7, <2>1, <3>2 DEF Progress
  <2>2. CASE pc' = "arm"
    <3>1. xfer_blks' # 0 /\ BlockNext'
      BY <1>1, <1>7, <1>10 DEF BlockNext, Own, InPlace, Target, CardAt, callVars, FieldTypes,
                              ThreadTypes
    <3> QED BY <1>1, <1>6, <2>2, <3>1 DEF Progress
  <2> QED BY <1>1, <2>1, <2>2
<1> QED BY <1>8, <1>9, <1>11

LEMMA EndBlocks ==
    ASSUME FieldTypes, Loop, Events, Blocks, End
    PROVE  Blocks'
<1> USE DEF Waits
<1>1. /\ pc = "end" /\ phase = "cmd" /\ pc' \in {"send", "complete"}
      /\ user' = IF dir = "read" /\ ~aligned
                 THEN [k \in Blk |-> IF k < blks THEN cache_buf[k] ELSE user[k]]
                 ELSE user
      /\ pc' = "send" => phase' = "stop"
      /\ UNCHANGED <<callVars, cmd_err, cache_buf, event, wire, dma, flagVars, disk, late>>
      /\ phase' \in {"stop", phase}
  BY DEF End, Loop
<1>2. Serving' \/ Through' => Serving
  BY <1>1 DEF Serving, Through, Healthy, callVars
<1>3. SUFFICES ASSUME Serving
               PROVE  /\ Serving' => Tally' /\ SourceHeld' /\ Progress'
                      /\ Served' /\ ~dma'.on
  BY <1>2 DEF Blocks
<1>4. InPlace(blks) /\ ~dma.on /\ Tally /\ SourceHeld
  BY <1>1, <1>3 DEF Blocks, Progress
<1>5. Serving' => Tally'
  BY <1>1, <1>4 DEF Serving, Tally, Notified, WaitsLeft, Count, Own, callVars, flagVars
<1>6. SourceHeld'
  BY <1>1, <1>4 DEF SourceHeld, Source, callVars
<1>7. Serving' => Progress'
  BY <1>1 DEF Serving, Progress
<1>8. Served'
  <2>1. ASSUME NEW k \in 0 .. blks - 1
        PROVE  (IF dir = "read" THEN user' ELSE disk)[k] = <<req, k>>
    <3>1. Target[k] = <<req, k>> /\ k \in Blk /\ k < blks
      BY <1>4, BlkRange DEF InPlace, FieldTypes, CallTypes
    <3> QED BY <1>1, <3>1 DEF Target, FieldTypes, CallTypes
  <2> QED BY <1>1, <2>1 DEF Served, callVars
<1> QED BY <1>1, <1>4, <1>5, <1>6, <1>7, <1>8

LEMMA LeaveBlocks ==
    ASSUME FieldTypes, Loop, Events, Blocks, Complete \/ Return
    PROVE  Blocks'
<1>1. phase' = "status" \/ pc' \in {"return", "idle"}
  BY DEF Complete, SendStatus, Return
<1> QED BY <1>1 DEF Blocks, Serving, Through, Healthy

LEMMA AnswerBlocks ==
    ASSUME FieldTypes, Loop, Events, Blocks, NEW ok \in BOOLEAN, Answer(ok)
    PROVE  Blocks'
<1> USE DEF Waits
<1>1. /\ wire # "none" /\ wire' = "none" /\ cflag' = TRUE /\ nrps' = ~ok
      /\ ok /\ wire = "cmd" =>
            card' = [st |-> dir, req |-> req, multi |-> blks > 1, next |-> 0]
      /\ ~ok => card' = card
      /\ UNCHANGED <<callVars, user, pc, phase, step, xfer_blks, cmd_err, cache_buf, event,
                     status, dma, dflag, crcs, disk, late>>
  BY DEF Answer, threadVars
<1>2. (Serving' => Serving) /\ (Through' => Through) /\ (Served => Served')
  BY <1>1 DEF Serving, Through, Healthy, Served, callVars
<1>3. SUFFICES ASSUME Serving, Serving' PROVE Tally' /\ SourceHeld' /\ Progress'
  BY <1>1, <1>2 DEF Blocks
<1>4. Tally /\ SourceHeld /\ Progress /\ WriteWaits
  BY <1>3 DEF Blocks, Events, Serving, Healthy
<1>5. Tally'
  BY <1>1, <1>4 DEF Tally, Notified, WaitsLeft, Count, Own, callVars
<1>6. SourceHeld'
  BY <1>1, <1>4 DEF SourceHeld, Source, callVars
<1>7. ASSUME pc \in Waits, step = "cmd" PROVE Command'
  <2>1. phase = "cmd" /\ xfer_blks = 0
    BY <1>3, <1>7 DEF Serving, Loop
  <2>3. Command /\ wire = "cmd" /\ (dir = "read" => card.st # "read" /\ dma = Dma(0))
    BY <1>1, <1>4, <1>7 DEF Progress, Command
  <2>4. CASE ~ok
    BY <1>1, <2>3, <2>4 DEF Command, Refused, Dma, callVars
  <2>5. CASE ok /\ dir = "read"
    <3>1. dma' = Dma(0)
      BY <1>1, <2>3, <2>5
    <3>2. CardAt(0)'
      BY <1>1, <2>3, <2>5 DEF CardAt, callVars
    <3>3. BlockSetUp(0)'
      BY <1>1, <2>5, <3>1, <3>2 DEF BlockSetUp, Dma, InPlace, callVars
    <3> QED BY <1>1, <2>5, <3>3 DEF Command, callVars
  <2>6. CASE ok /\ dir = "write"
    <3>1. CardAt(xfer_blks)'
      BY <1>1, <2>1, <2>3, <2>6 DEF CardAt, callVars
    <3>2. ~Own
      BY <1>4, <1>7, <2>1, <2>6 DEF WriteWaits, Own, FieldTypes, CallTypes, HardwareTypes, Dmas
    <3>3. BlockNext'
      BY <1>1, <2>1, <3>1, <3>2 DEF BlockNext, InPlace, Own, callVars
    <3> QED BY <1>1, <2>6, <3>3 DEF Command, callVars
  <2> QED BY <2>4, <2>5, <2>6 DEF FieldTypes, CallTypes
<1>8. Progress'
  <2>1. pc = "send" => card'.st = card.st
    <3>1. pc = "send" => Outstanding <= 0
      BY <1>3 DEF Events, Serving, Healthy, WaitsLeft
    <3> QED BY <1>1, <3>1 DEF Outstanding, Notified, Count
  <2> QED BY <1>1, <1>4, <1>7, <2>1 DEF Progress, InPlace, Target, callVars
<1> QED BY <1>5, <1>6, <1>8

LEMMA BlockBlocks ==
    ASSUME FieldTypes, Loop, Events, Blocks, NEW good \in BOOLEAN, Block(good)
    PROVE  Blocks'
<1> USE DEF Waits
<1>1. /\ Flows /\ dma.on /\ card.st = dma.dir /\ dma' = [dma EXCEPT !.on = FALSE]
      /\ card' = IF card.multi
                 THEN [card EXCEPT !.next = IF @ < MaxBlks THEN @ + 1 ELSE @]
                 ELSE Idle
      /\ dflag' = TRUE
      /\ UNCHANGED <<callVars, pc, phase, step, xfer_blks, cmd_err, event, status, wire, cflag,
                     nrps, late>>
  BY DEF Block, Flows, threadVars
<1>2. ~Through' /\ (Serving' => Serving)
  <2>1. Through' => Through
    BY <1>1 DEF Through, Healthy, callVars
  <2>2. ~Through
    BY <1>1 DEF Blocks
  <2>3. Serving' => Serving
    BY <1>1 DEF Serving, Healthy, callVars
  <2> QED BY <2>1, <2>2, <2>3
<1>3. SUFFICES ASSUME Serving PROVE Tally' /\ SourceHeld' /\ Progress'
  BY <1>2 DEF Blocks
<1>4. Tally /\ SourceHeld /\ Progress /\ WriteWaits /\ Outstanding <= WaitsLeft
  BY <1>3 DEF Blocks, Events, Serving, Healthy
<1>5. WaitsLeft >= 1
  <2>1. Outstanding \in Nat /\ Outstanding >= 1 /\ WaitsLeft \in Nat
    BY <1>1 DEF Outstanding, Notified, Count, Flowing, WaitsLeft
  <2> QED BY <1>4, <2>1
<1>6. wire = "none" /\ BlockSetUp(xfer_blks) /\ xfer_blks < blks
      /\ \/ pc \in Waits /\ step = "data"
         \/ dir = "read" /\ xfer_blks = 0
  <2>1. pc \in {"recv", "wait", "got"} \/ (pc = "arm" /\ dir = "read" /\ xfer_blks = 0)
    BY <1>4, <1>5 DEF WaitsLeft, FieldTypes, CallTypes
  <2>2. CASE pc \in Waits /\ step = "cmd"
    <3>1. phase = "cmd" /\ xfer_blks = 0
      BY <1>3, <2>2 DEF Serving, Loop
    <3>2. dir = "read"
      BY <1>1, <1>4, <2>2, <3>1 DEF WriteWaits, FieldTypes, CallTypes
    <3>3. ~(card.st # "read" /\ dma = Dma(0))
      BY <1>1, <3>2 DEF Dma
    <3> QED BY <1>4, <2>2, <3>1, <3>2, <3>3 DEF Progress, Command, FieldTypes, CallTypes
  <2>3. CASE pc = "arm"
    BY <1>4, <2>1, <2>3 DEF Progress, FieldTypes, CallTypes
  <2>4. CASE pc \in Waits /\ step = "data"
    BY <1>4, <2>4 DEF Progress, Loop, DataPhase
  <2> QED BY <2>1, <2>2, <2>3, <2>4 DEF FieldTypes, ThreadTypes
<1> DEFINE k == xfer_blks
           place(f) == [f EXCEPT ![k] = <<req, k>>]
<1>7. /\ dma.req = req /\ dma.dir = dir /\ dma.blk = k
      /\ dma.buf = IF aligned THEN "user" ELSE "cache"
      /\ InPlace(k) /\ k \in Blk /\ k \in Nat
  BY <1>6, BlkRange DEF BlockSetUp, FieldTypes, CallTypes, ThreadTypes
<1>8. card = [st |-> dir, req |-> req, multi |-> blks > 1, next |-> k]
  BY <1>1, <1>6, <1>7 DEF BlockSetUp, CardAt, FieldTypes, CallTypes
<1>9. CardAt(k + 1)'
  <2>1. CASE blks > 1
    <3>1. k < MaxBlks
      BY <1>7, BlkRange
    <3>2. card' = [st |-> dir, req |-> req, multi |-> blks > 1, next |-> k + 1]
      BY <1>1, <1>8, <2>1, <3>1
    <3> QED BY <1>1, <3>2 DEF CardAt, callVars
  <2>2. CASE ~(blks > 1)
    <3>1. blks = 1 /\ k = 0
      BY <1>6, <1>7, <2>2 DEF FieldTypes, CallTypes
    <3>2. card' = Idle
      BY <1>1, <1>8, <2>2
    <3> QED BY <1>1, <3>1, <3>2 DEF CardAt, Idle, callVars
  <2> QED BY <2>1, <2>2
<1>10. \/ dir = "read" /\ Target' = place(Target)
       \/ dir = "write" /\ crcs' = "good" /\ Target' = place(Target)
       \/ dir = "write" /\ crcs' = "bad" /\ Target' = Target
  <2>1. CASE dir = "read"
    <3>1. dma.dir = "read" /\ <<card.req, card.next>> = <<req, k>>
      BY <1>7, <1>8, <2>1
    <3>2. CASE aligned
      <4>1. user' = [user EXCEPT ![k] = <<req, k>>]
        BY <1>7, <3>1, <3>2 DEF Block
      <4> QED BY <1>1, <2>1, <3>2, <4>1 DEF Target, callVars
    <3>3. CASE ~aligned
      <4>1. cache_buf' = [cache_buf EXCEPT ![k] = <<req, k>>]
        BY <1>7, <3>1, <3>3 DEF Block
      <4> QED BY <1>1, <2>1, <3>3, <4>1 DEF Target, callVars
    <3> QED BY <3>2, <3>3
  <2>2. CASE dir = "write"
    <3>1. dma.dir # "read" /\ card.next = k
      BY <1>7, <1>8, <2>2
    <3>2. (IF dma.buf = "cache" THEN cache_buf ELSE user) = Source
      BY <1>7 DEF Source
    <3>3. Source[k] = <<req, k>>
      BY <1>4, <1>6, <1>7, <2>2 DEF SourceHeld, FieldTypes, CallTypes
    <3>4. /\ crcs' = IF good THEN "good" ELSE "bad"
          /\ disk' = IF good THEN [disk EXCEPT ![card.next] = Source[dma.blk]] ELSE disk
      BY <3>1, <3>2 DEF Block
    <3> QED BY <1>1, <1>7, <2>2, <3>1, <3>3, <3>4 DEF Target, callVars
  <2> QED BY <2>1, <2>2 DEF FieldTypes, CallTypes
<1>11. InPlace(k)' /\ (dir = "read" \/ crcs' = "good" => InPlace(k + 1)')
  <2>1. DOMAIN Target = Blk
    BY DEF Target, FieldTypes, BlockTypes
  <2>2. CASE Target' = place(Target)
    <3>1. \A j \in 0 .. k : Target'[j] = <<req, j>>
      <4>1. ASSUME NEW j \in 0 .. k PROVE Target'[j] = <<req, j>>
        <5>1. j \in Blk
          BY <1>7, BlkRange
        <5>2. CASE j = k
          BY <2>1, <2>2, <5>1, <5>2
        <5>3. CASE j # k
          BY <1>7, <2>1, <2>2, <5>1, <5>3 DEF InPlace
        <5> QED BY <5>2, <5>3
      <4> QED BY <4>1
    <3> QED BY <1>1, <1>7, <3>1 DEF InPlace, callVars
  <2>3. CASE dir = "write" /\ crcs' = "bad" /\ Target' = Target
    BY <1>1, <1>7, <2>3 DEF InPlace, callVars
  <2> QED BY <1>10, <2>2, <2>3
<1>12. BlockSetUp(xfer_blks)'
  <2>1. dma'.on = FALSE /\ dma'.req = req /\ dma'.dir = dir /\ dma'.blk = k /\ dma'.buf = dma.buf
    BY <1>1, <1>7 DEF FieldTypes, HardwareTypes, Dmas
  <2> QED BY <1>1, <1>7, <1>9, <1>11, <2>1 DEF BlockSetUp, callVars
<1>13. Tally'
  <2>1. Own /\ ~Own'
    BY <1>1, <1>7 DEF Own, FieldTypes, HardwareTypes, Dmas
  <2> QED BY <1>1, <1>4, <2>1 DEF Tally, Notified, Count, WaitsLeft, callVars
<1>14. SourceHeld'
  <2>1. CASE dir = "write"
    BY <1>1, <1>4, <1>7, <2>1 DEF Block, SourceHeld, Source, callVars
  <2>2. CASE dir # "write"
    BY <1>1, <2>2 DEF SourceHeld, callVars
  <2> QED BY <2>1, <2>2
<1>15. Progress'
  <2>1. pc \notin {"send", "end"}
    BY <1>4, <1>5 DEF WaitsLeft
  <2> QED BY <1>1, <1>6, <1>12, <2>1 DEF Progress, Command, callVars, FieldTypes, CallTypes
<1> QED BY <1>13, <1>14, <1>15

LEMMA NextBlocks ==
    ASSUME FieldTypes, Loop, Events, Blocks, [Next]_vars
    PROVE  Blocks'
BY NextBlocksQuiet, StartBlocks, SendBlocks, CmdDoneBlocks, ArmBlocks, DataDoneBlocks, EndBlocks,
   LeaveBlocks, AnswerBlocks, BlockBlocks DEF Next, Driver, Card

-----------------------------------------------------------------------------
(* The theorems.                                                           *)

\* The inductive invariant holds in every state: the fields keep their types,
\* completions outstanding never exceed the waits left, and the blocks below
\* xfer_blks are where they belong.
THEOREM Invariance == Spec => []IInv
<1>1. Init => IInv
  BY InitTypes, InitEvents, InitBlocks DEF IInv
<1>2. IInv /\ [Next]_vars => IInv'
  BY NextTypes, NextEvents, NextBlocks DEF IInv
<1> QED BY <1>1, <1>2, PTL DEF Spec

\* No event is left over when a command starts, unless a wait ended before the
\* card was done, for any number of blocks, retries and requests.
THEOREM CommandsStartClean == Spec => []NoStaleEvent
<1> USE SdioRequestAssumption, BlkRange
<1>1. ASSUME FieldTypes PROVE TypeOK
  <2>1. {user[k] : k \in Blk} \cup {cache_buf[k] : k \in Blk} \cup {disk[k] : k \in Blk}
          \subseteq (0 .. MaxReqs) \X (0 .. MaxBlks)
    <3>1. \A k \in Blk : user[k] \in Data /\ cache_buf[k] \in Data /\ disk[k] \in Data
      BY <1>1 DEF FieldTypes, BlockTypes
    <3> QED BY <3>1 DEF Data
  <2>2. CallTypes /\ Booleans /\ ThreadTypes
    BY <1>1 DEF FieldTypes
  <2>3. /\ event \subseteq {"flag", "nrps"} /\ status \subseteq {"flag", "nrps"}
        /\ wire \in {"none", "cmd", "stop", "status"} /\ crcs \in {"none", "good", "bad"}
    BY <1>1 DEF FieldTypes, HardwareTypes, Sent
  <2>4. /\ dma \in [on : BOOLEAN, req : 0 .. MaxReqs, dir : {"read", "write"},
                    buf : {"user", "cache"}, blk : Blk]
        /\ card \in [st : {"tran", "read", "write", "stalled"}, req : 0 .. MaxReqs,
                     multi : BOOLEAN, next : 0 .. MaxBlks]
    BY <1>1 DEF FieldTypes, HardwareTypes, Dmas, Cards
  <2> QED BY <2>1, <2>2, <2>3, <2>4 DEF TypeOK, CallTypes, Booleans, ThreadTypes
<1>2. IInv => NoStaleEvent
  <2>1. ASSUME ~late, pc \in {"idle", "send"}, Events
        PROVE  event = {} /\ ~cflag /\ ~dflag
    BY <2>1 DEF Events, Outstanding, Notified, Count, WaitsLeft
  <2> QED BY <1>1, <2>1 DEF IInv, NoStaleEvent
<1> QED BY <1>2, Invariance, PTL

\* A request without an error has been served: every block it read is in the
\* caller's buffer at its place, every block it wrote is on the card; unless a
\* wait had ended before the card was done (late), or the card still sent the
\* blocks of an earlier read when the request began (busy).
THEOREM OkMeansServed == Spec => []RequestOkMeansDone
<1>1. IInv => RequestOkMeansDone
  BY DEF IInv, RequestOkMeansDone, Blocks, Through, Healthy
<1> QED BY <1>1, Invariance, PTL
=============================================================================
