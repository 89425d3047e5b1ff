\* A message is delivered again while a first delivery is still handled.
SPECIFICATION Spec
CONSTANTS
  t1 = t1  t2 = t2  t3 = t3  m1 = m1  m2 = m2  m3 = m3
  r1 = r1  r2 = r2  w1 = w1  w2 = w2  l1 = l1  l2 = l2
  Tasks = {t1, t2}
  Messages = {m1, m2, m3}
  Resources = {r1}
  Works = {w1}
  Links = {l1, l2}
  Items <- SharedItems
  WorkOf <- SharedWorks
  Content <- SharedContent
  MaxDeliveries = 3
  MaxFaults = 0
PROPERTY FinalIsStable
