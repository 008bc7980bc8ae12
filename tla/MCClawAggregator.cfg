SPECIFICATION Spec
CONSTANTS
  MsgIds = {m1}
  Seqs <- ThreeSeqs
  MaxBuffer = 3
  Timers = {t1, t2, t3}
  NoTimer = NoTimer
PROPERTIES RefinesWindows EmitsBest WindowCloses
