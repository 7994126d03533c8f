----------------------------- MODULE ContextSwitch ----------------------------
(***************************************************************************)
(* The green-thread runtime of src/src/target/x86_64/runtime.rs: contexts  *)
(* saved cooperatively or in full, resumed by a switch or through a        *)
(* signal's frame.                                                         *)
(*                                                                         *)
(* Registers are grouped by how the routines treat them.  The threads, the *)
(* handler and the kernel are modelled from how the runtime uses them: a   *)
(* thread overwrites its registers between calls, the handler preempts the *)
(* current thread unless the signal hit a routine or a section in which    *)
(* preemption is off, and the kernel may leave out of a frame the floating *)
(* point state that is still initial.                                      *)
(***************************************************************************)
EXTENDS Naturals

CONSTANTS
  Thread, Main,           \* the threads; the one that runs first
  Version,                \* the values a thread may leave in its registers
  Zero, One,              \* the numbers 0 and 1
  Initial,                \* the initial x87 and SSE state
  Junk,                   \* memory that was never written
  SignalResumesSaved      \* a signal may resume a thread parked by lf_ctx_save

ASSUME MainAssumption == Main \in Thread

VARIABLES
  cpu,                    \* the registers
  ctx,                    \* the context of every thread
  current,                \* the thread the scheduler runs
  mode,                   \* user, saved (lf_ctx_save has returned) or handler
  frame,                  \* the signal frame, while the handler runs
  parked,                 \* the threads whose context is to be resumed
  owed,                   \* what the current or a parked thread will find
  bySave                  \* the threads parked by lf_ctx_save

vars == <<cpu, ctx, current, mode, frame, parked, owed, bySave>>

(* "callee" is rbx, rbp, rsp and r12 to r15; "x87" is all of the x87 state  *)
(* but its control word "fcw".                                              *)
Gpr == {"rax", "callee", "caller", "rflags", "rip"}
Fp  == {"fcw", "x87", "mxcsr", "xmm"}
Reg == Gpr \union Fp

(* What the ABI lets the caller of a routine rely on after it returns.      *)
CalleeSaved == {"callee", "rip", "fcw", "mxcsr"}

Own(t, v) == <<t, v>>

(* The rip of a switch that is about to restore the context of t: an        *)
(* address in the runtime's text, together with rdi.                        *)
Restoring(t) == <<"restoring", t>>
RuntimeText == {Restoring(t) : t \in Thread}

Val == (Thread \X Version) \union RuntimeText \union {Zero, One, Initial, Junk}

(* A thread's code is neither the runtime's nor memory never written.       *)
ASSUME RipAssumption == (Thread \X Version) \intersect (RuntimeText \union {Junk}) = {}

KindCoop == "coop"
KindFull == "full"
Context == [regs : [Reg -> Val], kind : {KindCoop, KindFull}]

(* A frame's registers, the floating point components its XSTATE_BV claims, *)
(* and the mode the signal interrupted.                                     *)
Component == {"x87", "sse"}
InComponent(c) == IF c = "x87" THEN {"fcw", "x87"} ELSE {"xmm"}
Frame == [regs : [Reg -> Val], bv : SUBSET Component, from : {"user", "saved"}]

Blank == [r \in Reg |-> Junk]
NoFrame == [regs |-> Blank, bv |-> {}, from |-> "user"]

(* `from` in the registers of S, `base` in the others.                      *)
Overlay(S, from, base) == [r \in Reg |-> IF r \in S THEN from[r] ELSE base[r]]

-----------------------------------------------------------------------------
(* The routines, as functions of the registers and the memory they access.  *)

(* Fault: the resume point is not stored.                                   *)
SaveCoopInPlace(c, regs) ==
  [regs |-> Overlay(CalleeSaved \ {"rip"}, regs, c.regs), kind |-> KindCoop]

(* emit_save_coop.                                                          *)
SaveCoop(c, regs) == [regs |-> Overlay(CalleeSaved, regs, c.regs), kind |-> KindCoop]

(* emit_save_full: rax as it was, or as it is to be on resume.              *)
SaveFull(regs, rax) == [regs |-> [regs EXCEPT !["rax"] = rax], kind |-> KindFull]

(* emit_restore dispatches on the kind.                                     *)
Restore(c, regs) ==
  IF c.kind = KindCoop
    THEN [Overlay(CalleeSaved, c.regs, regs) EXCEPT !["rax"] = One]
    ELSE c.regs

(* lf_ctx_init: a zeroed context that starts the trampoline on its stack.   *)
InitContext(t, v, regs) ==
  [regs |-> [r \in Reg |-> CASE r \in {"callee", "rip", "rflags"} -> Own(t, v)
                             [] r \in {"fcw", "mxcsr"} -> regs[r]
                             [] r \in {"rax", "caller", "x87", "xmm"} -> Zero],
   kind |-> KindCoop]

(* Fault: the frame is copied as it is.                                     *)
FromUcontextVerbatim(f) == [regs |-> f.regs, kind |-> KindFull]

(* lf_ctx_from_ucontext: a component XSTATE_BV leaves out is initial.       *)
FromUcontext(f) ==
  LET unused == UNION {InComponent(c) : c \in Component \ f.bv}
  IN  [regs |-> [r \in Reg |-> IF r \in unused THEN Initial ELSE f.regs[r]],
       kind |-> KindFull]

(* lf_ctx_to_ucontext: a cooperative context never saved the x87 state.     *)
ToUcontext(f, c) ==
  [regs |-> [r \in Reg |-> IF r = "x87" /\ c.kind = KindCoop THEN Initial ELSE c.regs[r]],
   bv |-> f.bv \union Component,
   from |-> "user"]

(* Fault: the handler is never told.                                        *)
UcNeverInRuntime(f) == f = NoFrame

(* lf_ctx_uc_in_runtime.                                                    *)
UcInRuntime(f) == f.regs["rip"] \in RuntimeText

-----------------------------------------------------------------------------
(* What a thread is owed when it is resumed: what it had, in the registers  *)
(* that outlive the routine that parked it.                                 *)

Nothing == [r \in {} |-> Zero]

OwedCoop(regs) ==
  [r \in CalleeSaved \union {"x87"} |-> IF r = "x87" THEN Initial ELSE regs[r]]

OwedSave(regs) ==
  [r \in CalleeSaved \union {"x87", "rax"} |->
     CASE r = "x87" -> Initial [] r = "rax" -> One [] r \in CalleeSaved -> regs[r]]

OwedFull(regs, rax) == [regs EXCEPT !["rax"] = rax]

Init ==
  /\ cpu \in {[r \in Reg |-> IF r \in {"fcw", "x87", "xmm"} THEN Initial ELSE Own(Main, v)] :
                v \in Version}
  /\ ctx = [t \in Thread |-> [regs |-> Blank, kind |-> KindCoop]]
  /\ current = Main
  /\ mode = "user"
  /\ frame = NoFrame
  /\ parked = {}
  /\ owed = [t \in Thread |-> Nothing]
  /\ bySave = {}

(* The thread's own code runs, or the runtime's on its behalf.              *)
InOwnCode == cpu["rip"] \notin RuntimeText
Running == mode = "user" /\ InOwnCode

(* The current thread computes: it uses the floating point registers, has   *)
(* no more in them than a control word and SSE values, or does not use them. *)
Work ==
  /\ Running
  /\ \E v \in Version : \E initial \in {{}, {"x87"}, {"fcw", "x87", "xmm"}} :
       cpu' = [r \in Reg |-> IF r \in initial THEN Initial ELSE Own(current, v)]
  /\ owed' = [owed EXCEPT ![current] = Nothing]
  /\ UNCHANGED <<ctx, current, mode, frame, parked, bySave>>

(* A thread that was never started is one whose context is blank.           *)
Create(t) ==
  /\ Running
  /\ t # Main /\ ctx[t].regs = Blank
  /\ \E v \in Version :
       /\ ctx' = [ctx EXCEPT ![t] = InitContext(t, v, cpu)]
       /\ owed' = [owed EXCEPT ![t] = OwedCoop(InitContext(t, v, cpu).regs)]
  /\ parked' = parked \union {t}
  /\ UNCHANGED <<cpu, current, mode, frame, bySave>>

(* The ABI has the x87 stack empty at a call.                               *)
AtCall == Running /\ cpu["x87"] = Initial

Park(c, due) ==
  /\ ctx' = [ctx EXCEPT ![current] = c]
  /\ owed' = [owed EXCEPT ![current] = due]
  /\ parked' = parked \union {current}

(* lf_ctx_switch and lf_ctx_switch_full, up to the jump into lf_ctx_restore. *)
Switch(t) ==
  /\ AtCall
  /\ t \in parked
  /\ \/ Park(SaveCoop(ctx[current], cpu), OwedCoop(cpu))
     \/ Park(SaveFull(cpu, cpu["rax"]), OwedFull(cpu, cpu["rax"]))
  /\ cpu' = [cpu EXCEPT !["rip"] = Restoring(t)]
  /\ UNCHANGED <<current, mode, frame, bySave>>

(* lf_ctx_save and lf_ctx_save_full: the scheduler goes on, preemption off. *)
Save ==
  /\ AtCall
  /\ \/ Park(SaveCoop(ctx[current], cpu), OwedSave(cpu)) /\ bySave' = bySave \union {current}
     \/ Park(SaveFull(cpu, One), OwedFull(cpu, One)) /\ bySave' = bySave
  /\ cpu' = [cpu EXCEPT !["rax"] = Zero]
  /\ mode' = "saved"
  /\ UNCHANGED <<current, frame>>

(* What the scheduler does next: it computes, with anything left in the     *)
(* registers, then calls lf_ctx_restore, be it with the context just saved. *)
Schedule(t) ==
  /\ mode = "saved"
  /\ t \in parked
  /\ cpu' = [r \in Reg |-> CASE r = "x87" -> Initial [] r = "rip" -> Restoring(t)
                             [] OTHER -> Junk]
  /\ mode' = "user"
  /\ UNCHANGED <<ctx, current, frame, parked, owed, bySave>>

(* lf_ctx_restore.                                                          *)
Land(t) ==
  /\ mode = "user"
  /\ cpu["rip"] = Restoring(t)
  /\ cpu' = Restore(ctx[t], cpu)
  /\ current' = t
  /\ parked' = parked \ {t}
  /\ bySave' = bySave \ {t}
  /\ UNCHANGED <<ctx, mode, frame, owed>>

(* The kernel delivers a signal, with a frame that may leave out initial    *)
(* components, whose bytes are then old.                                    *)
Signal ==
  /\ mode # "handler"
  /\ \E bv \in SUBSET Component :
       LET unused == UNION {InComponent(c) : c \in Component \ bv}
       IN  /\ \A r \in unused : cpu[r] = Initial
           /\ frame' = [regs |-> [r \in Reg |-> IF r \in unused THEN Junk ELSE cpu[r]],
                        bv |-> bv, from |-> mode]
  /\ mode' = "handler"
  /\ UNCHANGED <<cpu, ctx, current, parked, owed, bySave>>

MayPreempt == ~UcInRuntime(frame) /\ frame.from # "saved"

(* lf_sig_restorer: rt_sigreturn loads the frame.                           *)
SigReturn(f) ==
  LET unused == UNION {InComponent(c) : c \in Component \ f.bv}
  IN  /\ cpu' = [r \in Reg |-> IF r \in unused THEN Initial ELSE f.regs[r]]
      /\ mode' = f.from
      /\ frame' = NoFrame

LeaveAlone ==
  /\ mode = "handler"
  /\ SigReturn(frame)
  /\ UNCHANGED <<ctx, current, parked, owed, bySave>>

(* lf_ctx_preempt(uc, current, t), then the return from the handler.        *)
Preempt(t) ==
  /\ mode = "handler"
  /\ MayPreempt
  /\ t \in parked /\ (t \in bySave => SignalResumesSaved)
  /\ ctx' = [ctx EXCEPT ![current] = FromUcontext(frame)]
  /\ owed' = [owed EXCEPT ![current] = cpu]
  /\ SigReturn(ToUcontext(frame, ctx'[t]))
  /\ current' = t
  /\ parked' = (parked \union {current}) \ {t}
  /\ bySave' = bySave \ {t}

Next ==
  \/ Work \/ Save \/ Signal \/ LeaveAlone
  \/ \E t \in Thread : Create(t) \/ Switch(t) \/ Schedule(t) \/ Land(t) \/ Preempt(t)

Spec == Init /\ [][Next]_vars

-----------------------------------------------------------------------------

(* Besides the types: a parked context says where to resume.                *)
TypeOK ==
  /\ cpu \in [Reg -> Val]
  /\ ctx \in [Thread -> Context]
  /\ current \in Thread
  /\ mode \in {"user", "saved", "handler"}
  /\ frame \in Frame
  /\ parked \subseteq Thread /\ bySave \subseteq parked
  /\ \A t \in parked : ctx[t].regs["rip"] \in Thread \X Version
  /\ \A t \in Thread : DOMAIN owed[t] \subseteq Reg

(* A thread that gets the processor back finds every register it was owed,  *)
(* whichever routine parked it and whichever resumed it: until it computes  *)
(* again, the registers are those it was parked with (runtime.rs, Kinds).   *)
ResumesIntact ==
  Running => \A r \in DOMAIN owed[current] : cpu[r] = owed[current][r]

(* No thread is lost and none runs twice: the parked threads are those that *)
(* were created, without the one whose code is on the processor, although   *)
(* signals arrive between the save and the restore of a switch              *)
(* (lf_ctx_uc_in_runtime).                                                  *)
Created == {t \in Thread : t = Main \/ ctx[t].regs # Blank}

Unparked ==
  IF InOwnCode /\ "saved" \notin {mode, frame.from} THEN {current} ELSE {}

ResumesOnce == parked = Created \ Unparked
===============================================================================
