\* Redeliveries may overlap; statements fail and the process crashes.
SPECIFICATION FairSpec
CONSTANTS
  t1 = t1  t2 = t2  t3 = t3  m1 = m1  m2 = m2  m3 = m3
  r1 = r1  r2 = r2  w1 = w1  w2 = w2  l1 = l1  l2 = l2
  Tasks = {t1, t2}
  Messages = {m1, m2, m3}
  Resources = {r1, r2}
  Works = {w1, w2}
  Links = {l1}
  Items <- CrossItems
  WorkOf <- CrossWorks
  Content <- CrossContent
  MaxDeliveries = 3
  MaxFaults = 1
INVARIANTS
  FinalIsBacked
  AllOrNothing
  SuccessIsDurable
  EventsAfterCommit
  CreatedOnce
  NoReplayedEvents
  CountIsBacked
  StoredOnce
PROPERTIES
  ImplementsSettlement
  HandlersReturn
