---------------------------- MODULE SdioRequest ----------------------------
(***************************************************************************)
(* Block reads and writes of the SD card: rt_mmcsd_req_blk (block_dev.c)   *)
(* and mmcsd_send_request (mmcsd_core.c) on top of the host driver         *)
(* drv_sdio.c, its interrupt, the event object they share, the controller  *)
(* and the card. mmcsd_host_lock serialises the callers: there is one      *)
(* request at a time.                                                      *)
(*                                                                         *)
(* A block of data is <<n, k>>, block k of the n-th request; <<0, 0>> is   *)
(* anything else. The driver tells the bits of its event set apart only by *)
(* NRPS: any interrupt sends "flag", one that saw NRPS also "nrps".        *)
(*                                                                         *)
(* A wait may end before the card is done, and a request may leave the     *)
(* card in the middle of a transfer, when STOP_TRANSMISSION fails: the     *)
(* history variables late and busy say so.                                 *)
(***************************************************************************)
EXTENDS Integers, FiniteSets

CONSTANTS
    MaxBlks,      \* blocks per request: max_req_size of block_dev.c
    StatusTries,  \* retries of SEND_STATUS in rt_mmcsd_req_blk
    MaxReqs,      \* bound: requests
    MaxLateReqs   \* bound: requests, once a wait has ended too early

ASSUME SdioRequestAssumption ==
    /\ MaxBlks \in Nat \ {0} /\ StatusTries \in Nat \ {0} /\ MaxReqs \in Nat
    /\ MaxLateReqs \in Nat

VARIABLES
    \* the caller: request number, direction, blocks, alignment of its buffer
    req, dir, blks, aligned, user,
    \* the calling thread: where it is, the command in hand, the wait in hand
    pc, phase, step, xfer_blks, retries, cmd_err, stop_err, ready,
    \* cache_buf, sdio->event, the events handed to the thread
    cache_buf, event, status,
    \* the controller: the command and the DMA under way, SDxCON, SDxARG3
    wire, dma, cflag, dflag, nrps, crcs, arg3,
    \* the card: what it is doing, and what it stored
    card, disk,
    \* history: a wait timed out before the card was done; when this request
    \* began, the card was still sending an earlier one's blocks
    late, busy

callVars   == <<req, dir, blks, aligned, busy>>
threadVars == <<pc, phase, step, xfer_blks, retries, cmd_err, stop_err, ready>>
flagVars   == <<cflag, dflag, nrps, crcs, arg3>>
vars       == <<callVars, user, threadVars, cache_buf, event, status,
                wire, dma, flagVars, card, disk, late>>

Blk    == 0 .. MaxBlks - 1
Nothing == [k \in Blk |-> <<0, 0>>]
NoDma  == [on |-> FALSE, req |-> 0, dir |-> "read", buf |-> "user", blk |-> 0]
Idle   == [st |-> "tran", req |-> 0, multi |-> FALSE, next |-> 0]

\* sdio_host_create, and a card that has been brought up
Init ==
    /\ req = 0 /\ dir = "read" /\ blks = 1 /\ aligned = TRUE /\ user = Nothing
    /\ pc = "idle" /\ phase = "cmd" /\ step = "cmd" /\ xfer_blks = 0
    /\ retries = 0 /\ cmd_err = "ok" /\ stop_err = "ok" /\ ready = FALSE
    /\ cache_buf = Nothing /\ event = {} /\ status = {}
    /\ wire = "none" /\ dma = NoDma
    /\ cflag = FALSE /\ dflag = FALSE /\ nrps = FALSE /\ crcs = "none" /\ arg3 = FALSE
    /\ card = Idle /\ disk = Nothing /\ late = FALSE /\ busy = FALSE

-----------------------------------------------------------------------------
(* The calling thread.                                                     *)

\* the caller's buffer and everything on its stack
Call(d, n, a, data) == dir' = d /\ blks' = n /\ aligned' = a /\ user' = data
Fresh == /\ phase' = "cmd" /\ step' = "cmd" /\ xfer_blks' = 0 /\ retries' = 0
         /\ cmd_err' = "ok" /\ stop_err' = "ok" /\ ready' = FALSE

\* rt_mmcsd_req_blk up to mmcsd_send_request, and rthw_sdio_request up to
\* rthw_sdio_send_command: an unaligned buffer goes through cache_buf
Start(d, n, a) ==
    LET data == [k \in Blk |-> IF d = "write" /\ k < n THEN <<req + 1, k>> ELSE <<0, 0>>] IN
    /\ pc = "idle" /\ req < MaxReqs /\ (late => req < MaxLateReqs)
    /\ req' = req + 1 /\ pc' = "send" /\ busy' = (card.st = "read")
    /\ Call(d, n, a, data) /\ Fresh
    /\ cache_buf' = IF d = "write" /\ ~a
                    THEN [k \in Blk |-> IF k < n THEN data[k] ELSE cache_buf[k]]
                    ELSE cache_buf
    /\ UNCHANGED <<event, status, wire, dma, flagVars, card, disk, late>>

\* rthw_sdio_transfer_by_dma for block k
Dma(k) == [on |-> TRUE, req |-> req, dir |-> dir,
           buf |-> IF aligned THEN "user" ELSE "cache", blk |-> k]

\* rthw_sdio_send_command up to rthw_sdio_wait_completed
Send ==
    /\ pc = "send"
    /\ dma' = IF phase = "cmd" /\ dir = "read" THEN Dma(xfer_blks) ELSE dma
    /\ wire' = phase
    /\ step' = "cmd"
    /\ pc' = "recv"
    /\ UNCHANGED <<callVars, user, phase, xfer_blks, retries, cmd_err, stop_err,
                   ready, cache_buf, event, status, flagVars, card, disk, late>>

\* rt_event_recv(OR | CLEAR): takes what is there, or suspends the thread
Recv ==
    /\ pc = "recv"
    /\ IF event # {} THEN status' = event /\ event' = {} /\ pc' = "got"
                     ELSE pc' = "wait" /\ UNCHANGED <<status, event>>
    /\ UNCHANGED <<callVars, user, phase, step, xfer_blks, retries, cmd_err,
                   stop_err, ready, cache_buf, wire, dma, flagVars, card, disk, late>>

\* DMA and the card go together. DMA to the card starts when it is set up
\* and finds the card in its request's transfer or not at all; DMA from the
\* card waits for whatever the card sends.
Flows == dma.on /\ card.st = dma.dir /\ (dma.dir = "write" => card.req = dma.req)

\* the card is done with everything it was asked for, or will never be
Quiet == wire = "none" /\ ~cflag /\ ~dflag /\ ~Flows

\* it may yet be, but not in time
Late == wire \in {"none", "stop"} /\ ~cflag /\ ~dflag

\* the thread timer of rt_event_recv, 5000 ms
Timeout ==
    /\ pc = "wait"
    /\ Quiet \/ Late
    /\ pc' = "timeout"
    /\ late' = (late \/ ~Quiet)
    /\ UNCHANGED <<callVars, user, phase, step, xfer_blks, retries, cmd_err,
                   stop_err, ready, cache_buf, event, status, wire, dma, flagVars,
                   card, disk>>

\* rthw_sdio_wait_completed after rt_event_recv. The data phase follows
\* whatever the outcome.
CmdDone ==
    LET err == IF pc = "timeout" THEN "timeout" ELSE
               IF "nrps" \in status THEN "error" ELSE "ok" IN
    /\ pc \in {"got", "timeout"} /\ step = "cmd"
    /\ IF phase = "stop" THEN stop_err' = err /\ UNCHANGED cmd_err
                         ELSE cmd_err' = err /\ UNCHANGED stop_err
    /\ ready' = IF pc = "got" THEN arg3 ELSE ready
    /\ pc' = IF phase = "cmd" THEN "arm" ELSE "complete"
    /\ status' = {}
    /\ UNCHANGED <<callVars, user, phase, step, xfer_blks, retries, cache_buf,
                   event, wire, dma, flagVars, card, disk, late>>

\* Mutant: the DMA of a read is set up again for the first block.
ArmAlways ==
    /\ pc = "arm"
    /\ dma' = Dma(xfer_blks)
    /\ step' = "data"
    /\ pc' = "recv"
    /\ UNCHANGED <<callVars, user, phase, xfer_blks, retries, cmd_err, stop_err,
                   ready, cache_buf, event, status, wire, flagVars, card, disk, late>>

\* the top of the data loop
Arm ==
    /\ pc = "arm"
    /\ dma' = IF dir = "write" \/ xfer_blks # 0 THEN Dma(xfer_blks) ELSE dma
    /\ step' = "data"
    /\ pc' = "recv"
    /\ UNCHANGED <<callVars, user, phase, xfer_blks, retries, cmd_err, stop_err,
                   ready, cache_buf, event, status, wire, flagVars, card, disk, late>>

\* Mutant: a block that timed out is waited for again.
DataDoneAgain ==
    /\ pc \in {"got", "timeout"} /\ step = "data"
    /\ cmd_err' = IF pc = "timeout" THEN "timeout" ELSE cmd_err
    /\ xfer_blks' = IF pc = "timeout" THEN xfer_blks ELSE xfer_blks + 1
    /\ pc' = IF xfer_blks' = blks THEN "end" ELSE "arm"
    /\ status' = {}
    /\ UNCHANGED <<callVars, user, phase, step, retries, stop_err, ready, cache_buf,
                   event, wire, dma, flagVars, card, disk, late>>

\* the rest of the data loop: a timeout and a write's CRC status are noted,
\* and the loop goes on
DataDone ==
    LET crcError == dir = "write" /\ crcs # "good" IN
    /\ pc \in {"got", "timeout"} /\ step = "data"
    /\ cmd_err' = IF crcError THEN "error" ELSE
                  IF pc = "timeout" THEN "timeout" ELSE cmd_err
    /\ dflag' = IF crcError THEN FALSE ELSE dflag
    /\ xfer_blks' = xfer_blks + 1
    /\ pc' = IF xfer_blks' = blks THEN "end" ELSE "arm"
    /\ status' = {}
    /\ UNCHANGED <<callVars, user, phase, step, retries, stop_err, ready, cache_buf,
                   event, wire, dma, cflag, nrps, crcs, arg3, card, disk, late>>

\* rthw_sdio_request after the command with data: copy out of cache_buf,
\* then req->stop (STOP_TRANSMISSION, set for more than one block)
End ==
    /\ pc = "end"
    /\ user' = IF dir = "read" /\ ~aligned
               THEN [k \in Blk |-> IF k < blks THEN cache_buf[k] ELSE user[k]]
               ELSE user
    /\ IF blks > 1 THEN pc' = "send" /\ phase' = "stop" /\ xfer_blks' = 0
                   ELSE pc' = "complete" /\ UNCHANGED <<phase, xfer_blks>>
    /\ UNCHANGED <<callVars, step, retries, cmd_err, stop_err, ready, cache_buf,
                   event, status, wire, dma, flagVars, card, disk, late>>

\* mmcsd_send_cmd(SEND_STATUS), with the same struct rt_mmcsd_cmd:
\* mmcsd_send_request sets its err to 0
SendStatus(tries) ==
    /\ phase' = "status" /\ cmd_err' = "ok" /\ retries' = tries - 1
    /\ xfer_blks' = 0 /\ pc' = "send"

\* mmcsd_req_complete, and what mmcsd_send_request and rt_mmcsd_req_blk do
\* then: a read returns; a write polls the card's status until it is ready
\* or the status cannot be read
Complete ==
    /\ pc = "complete"
    /\ \/ /\ phase # "status" /\ dir = "read"
          /\ pc' = "return" /\ UNCHANGED <<phase, cmd_err, retries, xfer_blks>>
       \/ /\ phase # "status" /\ dir = "write"
          /\ SendStatus(StatusTries)
       \/ /\ phase = "status" /\ cmd_err # "ok" /\ retries > 0
          /\ SendStatus(retries)
       \/ /\ phase = "status" /\ cmd_err = "ok" /\ ~ready
          /\ SendStatus(StatusTries)
       \/ /\ phase = "status" /\ (IF cmd_err = "ok" THEN ready ELSE retries = 0)
          /\ pc' = "return" /\ UNCHANGED <<phase, cmd_err, retries, xfer_blks>>
    /\ UNCHANGED <<callVars, user, step, stop_err, ready, cache_buf, event, status,
                   wire, dma, flagVars, card, disk, late>>

\* rt_mmcsd_req_blk returns, RT_EOK iff cmd.err and stop.err are 0 (the
\* driver never sets data.err)
Return ==
    /\ pc = "return"
    /\ pc' = "idle"
    /\ Call("read", 1, TRUE, Nothing) /\ Fresh /\ busy' = FALSE
    /\ UNCHANGED <<req, cache_buf, event, status, wire, dma, flagVars, card, disk, late>>

Driver == Send \/ Recv \/ CmdDone \/ Arm \/ DataDone \/ End \/ Complete \/ Return

-----------------------------------------------------------------------------
(* The interrupt, the controller and the card.                             *)

\* Mutant: the command flag is not cleared.
IsrKeepsFlag ==
    LET sent == event \cup {"flag"} IN
    /\ cflag \/ dflag
    /\ dflag' = FALSE
    /\ IF pc = "wait" THEN status' = sent /\ event' = {} /\ pc' = "got"
                      ELSE event' = sent /\ UNCHANGED <<status, pc>>
    /\ UNCHANGED <<callVars, user, phase, step, xfer_blks, retries, cmd_err,
                   stop_err, ready, cache_buf, wire, dma, cflag, nrps, crcs, arg3,
                   card, disk, late>>

\* rthw_sdio_irq_process, and rt_event_send: the events go to the waiting
\* thread, or are kept
Isr ==
    LET sent == event \cup {"flag"} \cup (IF nrps THEN {"nrps"} ELSE {}) IN
    /\ cflag \/ dflag
    /\ cflag' = FALSE /\ dflag' = FALSE
    /\ IF pc = "wait" THEN status' = sent /\ event' = {} /\ pc' = "got"
                      ELSE event' = sent /\ UNCHANGED <<status, pc>>
    /\ UNCHANGED <<callVars, user, phase, step, xfer_blks, retries, cmd_err,
                   stop_err, ready, cache_buf, wire, dma, nrps, crcs, arg3, card, disk, late>>

\* the command on the wire is finished, answered (ok) or not; a card in the
\* middle of a transfer answers STOP_TRANSMISSION and SEND_STATUS only
Answer(ok) ==
    /\ wire # "none"
    /\ ok /\ wire = "cmd" => card.st \notin {"read", "write"}
    /\ wire' = "none"
    /\ cflag' = TRUE /\ nrps' = ~ok
    /\ arg3' \in (IF ok THEN BOOLEAN ELSE {arg3})
    /\ card' = CASE wire = "cmd" /\ ok -> [st |-> dir, req |-> req, multi |-> blks > 1, next |-> 0]
                 [] wire = "stop" /\ ok -> Idle
                 [] OTHER -> card
    /\ UNCHANGED <<callVars, user, threadVars, cache_buf, event, status, dma, dflag,
                   crcs, disk, late>>

\* a block is finished; the card takes a written one if its CRC is good. A
\* single block command ends with its block, another one with STOP_TRANSMISSION.
Block(good) ==
    LET from == IF dma.buf = "cache" THEN cache_buf ELSE user IN
    /\ Flows
    /\ dma' = [dma EXCEPT !.on = FALSE]
    /\ card' = IF card.multi THEN [card EXCEPT !.next = IF @ < MaxBlks THEN @ + 1 ELSE @]
               ELSE Idle
    /\ dflag' = TRUE
    /\ IF dma.dir = "read"
       THEN /\ good
            /\ IF dma.buf = "cache"
               THEN cache_buf' = [cache_buf EXCEPT ![dma.blk] = <<card.req, card.next>>]
                    /\ UNCHANGED user
               ELSE user' = (IF dma.req = req
                             THEN [user EXCEPT ![dma.blk] = <<card.req, card.next>>]
                             ELSE user)
                    /\ UNCHANGED cache_buf
            /\ UNCHANGED <<crcs, disk, late>>
       ELSE /\ crcs' = IF good THEN "good" ELSE "bad"
            /\ disk' = IF good THEN [disk EXCEPT ![card.next] = from[dma.blk]] ELSE disk
            /\ UNCHANGED <<user, cache_buf>>
    /\ UNCHANGED <<callVars, threadVars, event, status, wire, cflag, nrps, arg3, late>>

\* the card stops in the middle of a transfer
Stall ==
    /\ card.st \in {"read", "write"}
    /\ card' = [card EXCEPT !.st = "stalled"]
    /\ UNCHANGED <<callVars, user, threadVars, cache_buf, event, status, wire, dma,
                   flagVars, disk, late>>

Card == (\E ok \in BOOLEAN : Answer(ok)) \/ (\E good \in BOOLEAN : Block(good)) \/ Stall

Next == \/ \E d \in {"read", "write"}, n \in 1 .. MaxBlks, a \in BOOLEAN : Start(d, n, a)
        \/ Driver \/ Timeout \/ Isr \/ Card

Spec == Init /\ [][Next]_vars

(* Fairness: the thread is scheduled, its timer expires, interrupts are    *)
(* served, and what the controller and the card are doing ends.            *)
FairSpec == Spec /\ WF_vars(Driver) /\ WF_vars(Timeout) /\ WF_vars(Isr) /\ WF_vars(Card)

-----------------------------------------------------------------------------
(* Properties.                                                             *)

Error == {"ok", "timeout", "error"}

\* Every variable keeps its type; DMA never goes past the caller's blocks.
TypeOK ==
    /\ req \in 0 .. MaxReqs /\ dir \in {"read", "write"} /\ blks \in 1 .. MaxBlks
    /\ aligned \in BOOLEAN
    /\ {user[k] : k \in Blk} \cup {cache_buf[k] : k \in Blk} \cup {disk[k] : k \in Blk}
         \subseteq (0 .. MaxReqs) \X (0 .. MaxBlks)
    /\ pc \in {"idle", "send", "recv", "wait", "got", "timeout", "arm", "end",
               "complete", "return"}
    /\ phase \in {"cmd", "stop", "status"} /\ step \in {"cmd", "data"}
    /\ xfer_blks \in 0 .. MaxBlks /\ retries \in 0 .. StatusTries
    /\ cmd_err \in Error /\ stop_err \in Error /\ ready \in BOOLEAN
    /\ event \subseteq {"flag", "nrps"} /\ status \subseteq {"flag", "nrps"}
    /\ wire \in {"none", "cmd", "stop", "status"}
    /\ dma \in [on : BOOLEAN, req : 0 .. MaxReqs, dir : {"read", "write"},
                buf : {"user", "cache"}, blk : Blk]
    /\ cflag \in BOOLEAN /\ dflag \in BOOLEAN /\ nrps \in BOOLEAN
    /\ crcs \in {"none", "good", "bad"} /\ arg3 \in BOOLEAN
    /\ card \in [st : {"tran", "read", "write", "stalled"}, req : 0 .. MaxReqs, multi : BOOLEAN,
                 next : 0 .. MaxBlks]
    /\ late \in BOOLEAN /\ busy \in BOOLEAN

\* The request in hand has been served: the caller's buffer holds the
\* blocks read, the card the blocks written.
Served == \A k \in 0 .. blks - 1 :
              (IF dir = "read" THEN user[k] ELSE disk[k]) = <<req, k>>

\* rthw_sdio_request reports no error only for a request that was served:
\* no answer, timeout or CRC error of one of its blocks is lost in the loop,
\* and no block lands at the wrong place. Not so once a wait has timed out
\* before the card was done (late): the completion that comes after it is
\* taken for the next command's or the next block's. Nor when the card still
\* sends the blocks of an earlier read, whose STOP_TRANSMISSION failed
\* (busy): one of them completes the wait for the new command.
RequestOkMeansDone ==
    ~late /\ ~busy /\ pc = "complete" /\ phase # "status" /\ cmd_err = "ok" => Served

\* rt_mmcsd_req_blk returns RT_EOK only for a request that was served.
BlkOkMeansDone ==
    pc = "return" /\ cmd_err = "ok" /\ stop_err = "ok" => Served

\* A command starts with no event left over from the one before: else every
\* wait from then on returns one completion too early. A completion later
\* than its five-second wait (late) is the exception the driver allows.
\* Blocks, retries and the DMA's place stay in their ranges (TypeOK).
NoStaleEvent ==
    /\ TypeOK
    /\ ~late /\ pc \in {"idle", "send"} => event = {} /\ ~cflag /\ ~dflag

InRequest == pc \notin {"idle", "complete", "return"}

\* rthw_sdio_request returns, and releases its mutex, whatever the card does.
RequestReturns == InRequest ~> ~InRequest
=============================================================================
