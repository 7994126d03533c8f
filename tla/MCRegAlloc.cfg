SPECIFICATION Spec
CONSTANTS
  rax = rax
  rcx = rcx
  rdi = rdi
  rsi = rsi
  r12 = r12
  r10 = r10
  r11 = r11
  rbx = rbx
  None = None
  Imm = Imm
  PReg <- mcPReg
  Allocatable <- mcAllocatable
  Scratch <- mcScratch
  ArgRegs <- mcArgRegs
  RetReg = rax
  CountReg = rcx
  SyscallRegs <- mcSyscallRegs
  SyscallClobbers <- mcSyscallClobbers
  CallerSaved <- mcCallerSaved
  Functions <- mcFunctions
  Modes = {TRUE, FALSE}
INVARIANTS
  TypeOK
  Parallel
  OneTempPerCycle
  SegmentsInHull
  SharersNeverInterfere
  ReadsIntact
