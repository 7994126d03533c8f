------------------------------ MODULE MCRegAlloc ------------------------------
(* Small functions for RegAlloc: a loop whose body is one operation with a  *)
(* fixed-register sequence or tied operands, over every kind of back edge.  *)
EXTENDS RegAlloc

CONSTANTS rax, rcx, rdi, rsi, r12, r10, r11, rbx

mcPReg == {rax, rcx, rdi, rsi, r12, r10, r11, rbx}
mcAllocatable == <<rax, rcx, rdi, r12>>
mcScratch == <<r10, r11, rbx>>
mcArgRegs == <<rdi, rsi>>
mcSyscallRegs == <<rax, r10, rdi>>
mcSyscallClobbers == <<rcx, r11>>
mcCallerSaved == <<rax, rcx, rdi, rsi>>

Op(o, d, args) == [op |-> o, d |-> d, args |-> args]
To(b, args) == [to |-> b, args |-> args]
Block(params, body, uses, outs) == [params |-> params, body |-> body, uses |-> uses, edges |-> outs]

\* The body of the loop computes 7 from the parameters 4, 5, 6.
Bodies == {<<Op("bin", 7, <<4, 5>>)>>, <<Op("select", 7, <<4, 5, 6>>)>>,
           <<Op("select", 7, <<5, 4, 4>>)>>, <<Op("shift", 7, <<5, 4>>)>>,
           <<Op("cmpxchg", 7, <<4, 5, 6>>)>>, <<Op("call", 7, <<5, 4>>)>>,
           <<Op("syscall", 7, <<4, 5, 6>>)>>, <<Op("xadd", 7, <<6, 4>>)>>,
           <<Op("bin", 7, <<4, 5>>), Op("bin", 10, <<6, 2>>)>>}
\* What the back edge passes for 4, 5, 6.
BackEdges == {<<5, 6, 4>>, <<5, 4, 7>>, <<6, 6, 4>>, <<7, 4, Imm>>, <<4, 7, 7>>, <<7, 6, 4>>}
\* What the code behind the loop still needs.
Tails == {<<5, 2>>, <<7, 6>>}

Loop(body, back, tail) ==
  [vregs |-> 10,
   blocks |-> <<Block(<<1, 2>>, <<Op("const", 3, <<>>)>>, <<>>, <<To(2, <<1, 2, 3>>)>>),
                Block(<<4, 5, 6>>, body, <<4>>, <<To(2, back), To(3, <<tail[1]>>)>>),
                Block(<<8>>, <<Op("bin", 9, <<8, tail[2]>>)>>, <<9>>, <<>>)>>]

\* An operation with four registers of its own, all needed again behind a
\* stretch of shorter-lived values that fill the machine.
Wide == [vregs |-> 14,
         blocks |-> <<Block(<<1, 2>>,
           <<Op("const", 3, <<>>), Op("wide", 4, <<1, 2, 3>>),
             Op("const", 5, <<>>), Op("const", 6, <<>>), Op("const", 7, <<>>), Op("const", 8, <<>>),
             Op("bin", 9, <<5, 6>>), Op("bin", 10, <<7, 8>>), Op("bin", 11, <<9, 10>>),
             Op("bin", 12, <<1, 2>>), Op("bin", 13, <<3, 4>>), Op("bin", 14, <<12, 13>>)>>,
           <<14>>, <<>>)>>]

\* Across the call only r12 survives.  Register 3 is dead there, yet lives on
\* in a later block, and is needed just long enough to overlap 4, which has to
\* take r12 from the equally long-lived 2.
Hole == [vregs |-> 9,
         blocks |-> <<Block(<<1, 2>>, <<Op("const", 3, <<>>)>>, <<1>>, <<To(3, <<>>), To(2, <<>>)>>),
                      Block(<<>>, <<Op("const", 4, <<>>), Op("bin", 5, <<3, 3>>), Op("call", 6, <<5>>),
                                    Op("bin", 7, <<4, 6>>), Op("bin", 8, <<7, 2>>)>>, <<8>>, <<>>),
                      Block(<<>>, <<Op("bin", 9, <<2, 3>>)>>, <<9>>, <<>>)>>]

mcFunctions == {Loop(b, e, t) : b \in Bodies, e \in BackEdges, t \in Tails} \union {Wide, Hole}
                 \union {Loop(<<Op("bin", 7, <<4, 5>>), Op("bin", 10, <<7, 2>>)>>, e, t) :
                           e \in {<<7, 10, 6>>, <<10, 6, 7>>, <<10, 10, 7>>}, t \in Tails \union {<<10, 1>>}}
mcWide == {Wide}
=============================================================================
