CONSTANTS
  main = main
  worker = worker
  other = other
  n1 = n1
  n2 = n2
  q1 = q1
  q2 = q2
  t = t
  None = None
  Threads <- MCThreads
  Main = main
  Rings = {n1, n2}
  Moduli = {q1, q2, t}
  Chain <- MCChain
  PlainModulus <- MCPlain
  KeySwitching = {"HYBRID"}
SPECIFICATION Spec
INVARIANTS TypeOK TablesAgree NoRace SomeoneGoesOn
PROPERTIES ImplementsService LoopsEnd
