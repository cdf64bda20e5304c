\* A program that keeps to the protocol, one result per job and asked for before
\* anything has told it that the process is over, and a program that does not.
CONSTANTS
  j1 = j1  j2 = j2
  Jobs = {j1, j2}
  Pids = {1, 2}
  Codes = {0, 1}
  MaxFd = 5
  InArgs <- MCIn
  OutArgs <- MCOut
  ErrArgs <- MCErr
SPECIFICATION FairSpec
INVARIANTS PidsMatch OwnResult RedirectionsHold FilesKept
PROPERTIES WaitReturns
\* The program may have no more jobs to run.
CHECK_DEADLOCK FALSE
