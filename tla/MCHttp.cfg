\* Two requests, use cases of two statements; the last variant's status has more than
\* 16 bits.
SPECIFICATION FairSpec
CONSTANTS
  Requests = {r1, r2}
  Apis <- MCApis
  Enums = {"user", "post"}
  Base <- MCBase
  Variants <- MCVariants
  Default <- MCDefault
  MaxWrites = 2
  NoStatus = NoStatus
  NoCode = NoCode
INVARIANTS
   CodeTells RunsWholeRequests RefusedForReason
PROPERTIES
  EventuallyAnswered
CHECK_DEADLOCK FALSE
