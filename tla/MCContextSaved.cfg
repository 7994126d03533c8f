SPECIFICATION Spec
CONSTANTS
  t1 = t1
  t2 = t2
  Thread <- MCThread
  Main = t1
  Version <- MCVersion
  Zero = Zero
  One = One
  Initial = Initial
  Junk = Junk
  SignalResumesSaved = TRUE
INVARIANT ResumesIntact
