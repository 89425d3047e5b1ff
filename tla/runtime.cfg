\* Two handler slots; two events, so a second registration or a third call overloads
\* them; two losses, so a reconnect is lost again; one fault of the client or the heartbeat sink, one cancellation
\* at any await.
SPECIFICATION FairSpec
CONSTANTS
  MaxInflight = 2
  MaxAttempts = 1
  Unlimited = Unlimited
  FloatExponents = 1024
  MaxEvents = 2
  MaxDrops = 2
  MaxFaults = 1
  MaxCancels = 1
INVARIANTS CountersAddUp SummaryIsComplete ListeningHears CleanStop
PROPERTIES StopHonoured ImplementsLifecycle
