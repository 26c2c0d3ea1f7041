\* Two tabs of one browser; a queue of three files on a page of two subjects; a
\* page with two calls under way whose session goes idle.
SPECIFICATION MCSpec
CONSTANTS
  Tabs = {t1, t2}
  Sessions = {s1, s2}
  NoSession = NoSession
  MaxCalls = 2
  MaxEvents = 1
  MaxTurns = 2
  Files = {f1, f2, f3}
  Subjects = {a, b}
  NoSubject = NoSubject
  MaxRequests = 2
  MaxRemembered = 1
  Owners = {o1, o2}
  NoOwner = NoOwner
  MaxActs = 1
  MaxShifts = 2
INVARIANT DeliveredToItsSubject
INVARIANT OneBeatPerAttempt
PROPERTY CurrentStaysShown
PROPERTY TabsSettle
PROPERTY BodyIsForTheBatch
PROPERTY OutcomesAreFinal
PROPERTY StoppedSendsNothing
PROPERTY RepeatsSafely
PROPERTY KeepsWhatItWasTold
PROPERTY EveryRequestEnds
CHECK_DEADLOCK FALSE
