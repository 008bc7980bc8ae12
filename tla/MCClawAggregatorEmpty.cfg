SPECIFICATION Spec
CONSTANTS
  MsgIds = {m1}
  Seqs <- ThreeSeqs
  MaxBuffer = 2
  Timers = {t1, t2}
  NoTimer = NoTimer
PROPERTY EmitsAnyway
