CONSTANTS
  m1 = m1
  m2 = m2
  m3 = m3
  nA = nA
  nB = nB
  Nil = Nil
  Mods <- MCMods
  NameOf <- MCNameOf
  Empty = Empty
  NullMod = Nil
  MaxRegistered = 3
  MaxTasks = 2
SPECIFICATION Spec
INVARIANTS
  StateFollowsLastCall
