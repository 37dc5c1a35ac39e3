SPECIFICATION Spec
CONSTANT OtherMhz = 208
INVARIANTS ClockAlive ModulesNotOverclocked FlashWithinLimit RecordIsTrue SdWithinLimit
