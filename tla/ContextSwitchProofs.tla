--------------------------- MODULE ContextSwitchProofs --------------------------
(***************************************************************************)
(* Whatever the threads, the values they leave in their registers and the  *)
(* moments at which signals arrive, a thread that is resumed finds what it *)
(* was parked with, and no thread is lost or runs twice.                   *)
(***************************************************************************)
EXTENDS ContextSwitch, TLAPS

(* The scheduler holds the processor: lf_ctx_save has returned, and a       *)
(* signal may be handled meanwhile.                                         *)
InScheduler == "saved" \in {mode, frame.from}

(* While the handler runs, the processor's registers are what returning     *)
(* from the signal loads.                                                   *)
FrameDescribes ==
  IF mode = "handler"
    THEN \A r \in Reg : cpu[r] = IF \E c \in Component \ frame.bv : r \in InComponent(c)
                                   THEN Initial ELSE frame.regs[r]
    ELSE frame = NoFrame

(* The rip is in a thread's code or at the jump of a switch; in the latter  *)
(* case the x87 stack is empty and the target is parked.                    *)
RipKnown ==
  \/ cpu["rip"] \in Thread \X Version
  \/ /\ ~InScheduler /\ cpu["x87"] = Initial
     /\ \E t \in parked : cpu["rip"] = Restoring(t)

(* Resuming from this context, by lf_ctx_restore or through a signal's      *)
(* frame, gives every register that is due; rax only by the former, where a *)
(* cooperative save put it.                                                 *)
Keeps(c, due, saved) ==
  IF c.kind = KindFull
    THEN \A r \in DOMAIN due : due[r] = c.regs[r]
    ELSE \A r \in DOMAIN due : \/ r \in CalleeSaved /\ due[r] = c.regs[r]
                               \/ r = "x87" /\ due[r] = Initial
                               \/ r = "rax" /\ due[r] = One /\ saved

ContextsKeep == \A t \in parked : Keeps(ctx[t], owed[t], t \in bySave)

(* Each created thread is parked or current, and the current one is parked  *)
(* just while a switch or the scheduler is between two threads.             *)
OneCurrent ==
  /\ parked \union {current} = Created
  /\ current \in parked <=> (~InOwnCode \/ InScheduler)

(* What the current thread is owed is in the registers, in the handler too, *)
(* as long as no signal resumes a thread parked by lf_ctx_save.             *)
CurrentIntact ==
  ~SignalResumesSaved /\ current \notin parked =>
    \A r \in DOMAIN owed[current] : cpu[r] = owed[current][r]

OwedShape == owed = [t \in Thread |-> owed[t]]

IInv ==
  /\ TypeOK /\ OwedShape
  /\ FrameDescribes /\ RipKnown /\ ContextsKeep /\ OneCurrent /\ CurrentIntact

-----------------------------------------------------------------------------
(* The routines, register by register.                                      *)

LEMMA OwnRip ==
  ASSUME NEW a \in Thread \X Version
  PROVE  a \in Val /\ a \notin RuntimeText /\ a # Junk
BY RipAssumption DEF Val

LEMMA SaveCoopEffect ==
  ASSUME NEW c \in Context, NEW regs \in [Reg -> Val]
  PROVE  /\ SaveCoop(c, regs) \in Context
         /\ SaveCoop(c, regs).kind = KindCoop
         /\ \A r \in CalleeSaved : SaveCoop(c, regs).regs[r] = regs[r]
BY DEF SaveCoop, Overlay, Context, KindCoop, CalleeSaved, Reg, Gpr, Fp

LEMMA SaveFullEffect ==
  ASSUME NEW regs \in [Reg -> Val], NEW rax \in Val
  PROVE  /\ SaveFull(regs, rax) \in Context
         /\ SaveFull(regs, rax).kind = KindFull
         /\ SaveFull(regs, rax).regs = OwedFull(regs, rax)
         /\ SaveFull(regs, rax).regs["rip"] = regs["rip"]
         /\ DOMAIN OwedFull(regs, rax) = Reg
BY DEF SaveFull, OwedFull, Context, KindFull, Reg, Gpr, Fp

LEMMA InitContextEffect ==
  ASSUME NEW t \in Thread, NEW v \in Version, NEW regs \in [Reg -> Val]
  PROVE  /\ InitContext(t, v, regs) \in Context
         /\ InitContext(t, v, regs).kind = KindCoop
         /\ InitContext(t, v, regs).regs["rip"] \in Thread \X Version
BY DEF InitContext, Own, Val, Context, KindCoop, Reg, Gpr, Fp

LEMMA OwedCoopEffect ==
  ASSUME NEW regs
  PROVE  /\ DOMAIN OwedCoop(regs) = CalleeSaved \union {"x87"}
         /\ \A r \in CalleeSaved : OwedCoop(regs)[r] = regs[r]
         /\ OwedCoop(regs)["x87"] = Initial
BY DEF OwedCoop, CalleeSaved

LEMMA OwedSaveEffect ==
  ASSUME NEW regs
  PROVE  /\ DOMAIN OwedSave(regs) = CalleeSaved \union {"x87", "rax"}
         /\ \A r \in CalleeSaved : OwedSave(regs)[r] = regs[r]
         /\ OwedSave(regs)["x87"] = Initial
         /\ OwedSave(regs)["rax"] = One
BY DEF OwedSave, CalleeSaved

LEMMA RestoreEffect ==
  ASSUME NEW c \in Context, NEW regs \in [Reg -> Val], NEW due, NEW saved,
         Keeps(c, due, saved), regs["x87"] = Initial, DOMAIN due \subseteq Reg
  PROVE  /\ Restore(c, regs) \in [Reg -> Val]
         /\ Restore(c, regs)["rip"] = c.regs["rip"]
         /\ \A r \in DOMAIN due : Restore(c, regs)[r] = due[r]
<1>1. CASE c.kind = KindCoop
  <2>1. Restore(c, regs) = [Overlay(CalleeSaved, c.regs, regs) EXCEPT !["rax"] = One]
    BY <1>1 DEF Restore
  <2>2. c.kind # KindFull
    BY <1>1 DEF KindCoop, KindFull
  <2> QED
    BY <1>1, <2>1, <2>2 DEF Keeps, Overlay, Context, CalleeSaved, Val, Reg, Gpr, Fp
<1>2. CASE c.kind # KindCoop
  BY <1>2 DEF Restore, Keeps, Context, KindCoop, KindFull, Reg, Gpr
<1> QED BY <1>1, <1>2

LEMMA FromUcontextEffect ==
  ASSUME mode = "handler", FrameDescribes, cpu \in [Reg -> Val], frame \in Frame
  PROVE  /\ FromUcontext(frame) = [regs |-> cpu, kind |-> KindFull]
         /\ FromUcontext(frame) \in Context
<1>1. \A r \in Reg : r \in UNION {InComponent(c) : c \in Component \ frame.bv}
                       <=> \E c \in Component \ frame.bv : r \in InComponent(c)
  OBVIOUS
<1>2. cpu = [r \in Reg |-> IF r \in UNION {InComponent(c) : c \in Component \ frame.bv}
                              THEN Initial ELSE frame.regs[r]]
  BY <1>1 DEF FrameDescribes
<1> QED BY <1>2 DEF FromUcontext, Context

(* The frame of the handler has the interrupted rip.                        *)
LEMMA FrameRip ==
  ASSUME mode = "handler", FrameDescribes, frame \in Frame
  PROVE  frame.regs["rip"] = cpu["rip"]
BY DEF FrameDescribes, InComponent, Reg, Gpr

LEMMA ToUcontextEffect ==
  ASSUME NEW f \in Frame, NEW c \in Context, NEW due,
         DOMAIN due \subseteq Reg,
         SigReturn(ToUcontext(f, c))
  PROVE  /\ cpu' \in [Reg -> Val] /\ cpu'["rip"] = c.regs["rip"]
         /\ mode' = "user" /\ frame' = NoFrame
         /\ Keeps(c, due, FALSE) => \A r \in DOMAIN due : cpu'[r] = due[r]
<1> DEFINE uc == ToUcontext(f, c)
<1>1. uc.bv = f.bv \union Component /\ uc.from = "user"
  BY DEF ToUcontext
<1>2. \A r \in Reg : uc.regs[r] = IF r = "x87" /\ c.kind = KindCoop THEN Initial ELSE c.regs[r]
  BY DEF ToUcontext
<1>3. UNION {InComponent(k) : k \in Component \ uc.bv} = {}
  BY <1>1
<1>4. cpu' = [r \in Reg |-> uc.regs[r]] /\ mode' = uc.from /\ frame' = NoFrame
  BY <1>3 DEF SigReturn
<1>5. \A r \in Reg : cpu'[r] = IF r = "x87" /\ c.kind = KindCoop THEN Initial ELSE c.regs[r]
  BY <1>2, <1>4
<1>6. cpu' \in [Reg -> Val] /\ cpu'["rip"] = c.regs["rip"]
  BY <1>4, <1>5 DEF Context, Val, Reg, Gpr
<1>7. Keeps(c, due, FALSE) => \A r \in DOMAIN due : cpu'[r] = due[r]
  BY <1>5 DEF Keeps, Context, KindCoop, KindFull, CalleeSaved
<1> QED BY <1>1, <1>4, <1>6, <1>7

-----------------------------------------------------------------------------
(* The invariant holds initially and every action keeps it.                 *)

LEMMA NotBlank ==
  ASSUME NEW c \in Context, c.regs["rip"] \in Thread \X Version
  PROVE  c.regs # Blank
BY OwnRip DEF Blank, Reg, Gpr

(* What the guards say of the current thread.                               *)
LEMMA RunningUnparked ==
  ASSUME IInv, Running
  PROVE  /\ current \notin parked /\ ~InScheduler
         /\ frame = NoFrame /\ cpu["rip"] \in Thread \X Version
<1>1. frame = NoFrame /\ ~InScheduler
  BY DEF IInv, FrameDescribes, Running, InScheduler, NoFrame
<1> QED
  BY <1>1 DEF IInv, TypeOK, OneCurrent, RipKnown, Running, InOwnCode, RuntimeText

LEMMA NothingOwed == DOMAIN Nothing = {}
BY DEF Nothing

LEMMA InitInvariant == Init => IInv
<1> SUFFICES ASSUME Init PROVE IInv
  OBVIOUS
<1>1. PICK v \in Version :
        cpu = [r \in Reg |-> IF r \in {"fcw", "x87", "xmm"} THEN Initial ELSE Own(Main, v)]
  BY DEF Init
<1>2. Own(Main, v) \in Thread \X Version /\ cpu["rip"] = Own(Main, v)
  BY <1>1, MainAssumption DEF Own, Reg, Gpr
<1>3. cpu \in [Reg -> Val] /\ Blank \in [Reg -> Val] /\ NoFrame \in Frame
  BY <1>1, <1>2 DEF Val, Blank, NoFrame, Frame
<1>4. TypeOK /\ OwedShape
  BY <1>3, MainAssumption DEF Init, TypeOK, OwedShape, Context, KindCoop, Nothing
<1>5. ~InScheduler /\ InOwnCode
  BY <1>2, OwnRip DEF InScheduler, InOwnCode, Init, NoFrame
<1>6. FrameDescribes /\ RipKnown /\ ContextsKeep /\ CurrentIntact
  BY <1>2, MainAssumption, NothingOwed
     DEF Init, FrameDescribes, RipKnown, ContextsKeep, CurrentIntact
<1>7. OneCurrent
  BY <1>5, MainAssumption DEF Init, OneCurrent, Created
<1> QED BY <1>4, <1>6, <1>7 DEF IInv

LEMMA WorkStep == IInv /\ Work => IInv'
<1> SUFFICES ASSUME IInv, Work PROVE IInv'
  OBVIOUS
<1>1. current \notin parked /\ ~InScheduler /\ TypeOK /\ mode = "user" /\ frame = NoFrame
  BY RunningUnparked DEF IInv, Work, Running
<1>2. PICK v \in Version, initial \in {{}, {"x87"}, {"fcw", "x87", "xmm"}} :
        cpu' = [r \in Reg |-> IF r \in initial THEN Initial ELSE Own(current, v)]
  BY DEF Work
<1>3. Own(current, v) \in Thread \X Version /\ cpu'["rip"] = Own(current, v)
  BY <1>1, <1>2 DEF TypeOK, Own, Reg, Gpr
<1>4. cpu' \in [Reg -> Val]
  BY <1>2, <1>3 DEF Val
<1>5. UNCHANGED <<ctx, current, mode, frame, parked, bySave>>
      /\ owed' = [owed EXCEPT ![current] = Nothing]
  BY DEF Work
<1>6. TypeOK' /\ OwedShape'
  BY <1>1, <1>4, <1>5 DEF IInv, TypeOK, OwedShape, Nothing
<1>7. FrameDescribes' /\ RipKnown'
  BY <1>1, <1>3, <1>5 DEF FrameDescribes, RipKnown
<1>8. ContextsKeep'
  BY <1>1, <1>5 DEF IInv, ContextsKeep, TypeOK, OwedShape
<1>9. OneCurrent'
  BY <1>1, <1>3, <1>5, OwnRip DEF IInv, OneCurrent, Created, InOwnCode, InScheduler
<1>10. CurrentIntact'
  <2>1. owed'[current] = Nothing
    BY <1>1, <1>5 DEF IInv, TypeOK, OwedShape
  <2> QED BY <2>1, <1>5, NothingOwed DEF CurrentIntact
<1> QED BY <1>6, <1>7, <1>8, <1>9, <1>10 DEF IInv

LEMMA CreateStep == ASSUME IInv, NEW t \in Thread, Create(t) PROVE IInv'
<1>1. current \notin parked /\ ~InScheduler /\ TypeOK /\ mode = "user" /\ frame = NoFrame
      /\ cpu["rip"] \in Thread \X Version
  BY RunningUnparked DEF IInv, Create, Running
<1>2. PICK v \in Version :
        /\ ctx' = [ctx EXCEPT ![t] = InitContext(t, v, cpu)]
        /\ owed' = [owed EXCEPT ![t] = OwedCoop(InitContext(t, v, cpu).regs)]
  BY DEF Create
<1> DEFINE c == InitContext(t, v, cpu)
<1>3. c \in Context /\ c.kind = KindCoop /\ c.regs["rip"] \in Thread \X Version
  BY <1>1, InitContextEffect DEF TypeOK
<1>4. UNCHANGED <<cpu, current, mode, frame, bySave>> /\ parked' = parked \union {t}
  BY DEF Create
<1>5. t \notin Created /\ current \in Created
  BY DEF IInv, OneCurrent, Create, Created
<1>6. TypeOK' /\ OwedShape'
  BY <1>1, <1>2, <1>3, <1>4, OwedCoopEffect, SMTT(20)
     DEF IInv, TypeOK, OwedShape, CalleeSaved, Reg, Gpr, Fp
<1>7. FrameDescribes' /\ RipKnown'
  BY <1>1, <1>4 DEF FrameDescribes, RipKnown
<1>8. ContextsKeep'
  <2> SUFFICES ASSUME NEW u \in parked' PROVE Keeps(ctx[u], owed[u], u \in bySave)'
    BY DEF ContextsKeep
  <2>1. CASE u = t
    <3>1. ctx'[t] = c /\ owed'[t] = OwedCoop(c.regs)
      BY <1>1, <1>2 DEF IInv, OwedShape, TypeOK
    <3> QED BY <2>1, <1>3, <3>1, OwedCoopEffect DEF Keeps, KindCoop, KindFull
  <2>2. CASE u # t
    BY <2>2, <1>1, <1>2, <1>4 DEF IInv, ContextsKeep, Keeps, TypeOK, OwedShape
  <2> QED BY <2>1, <2>2
<1>9. OneCurrent'
  <2>1. Created' = Created \union {t}
    BY <1>1, <1>2, <1>3, NotBlank DEF Created, TypeOK
  <2> QED BY <2>1, <1>4, <1>5 DEF IInv, OneCurrent, InOwnCode, InScheduler
<1>10. CurrentIntact'
  BY <1>2, <1>4, <1>5 DEF IInv, CurrentIntact, OwedShape
<1> QED BY <1>6, <1>7, <1>8, <1>9, <1>10 DEF IInv

LEMMA SwitchStep == ASSUME IInv, NEW t \in Thread, Switch(t) PROVE IInv'
<1>1. current \notin parked /\ ~InScheduler /\ TypeOK /\ mode = "user" /\ frame = NoFrame
      /\ cpu["rip"] \in Thread \X Version /\ cpu["x87"] = Initial
  BY RunningUnparked DEF IInv, Switch, AtCall, Running
<1>2. PICK c, due :
        /\ Park(c, due)
        /\ \/ c = SaveCoop(ctx[current], cpu) /\ due = OwedCoop(cpu)
           \/ c = SaveFull(cpu, cpu["rax"]) /\ due = OwedFull(cpu, cpu["rax"])
  BY DEF Switch
<1>3. ctx[current] \in Context /\ cpu \in [Reg -> Val] /\ cpu["rax"] \in Val
  BY <1>1 DEF TypeOK, Reg, Gpr
<1>4. c \in Context /\ c.regs["rip"] = cpu["rip"] /\ DOMAIN due \subseteq Reg
      /\ \A saved : Keeps(c, due, saved)
  <2>1. CASE c = SaveCoop(ctx[current], cpu) /\ due = OwedCoop(cpu)
    BY <2>1, <1>3, SaveCoopEffect, OwedCoopEffect
       DEF Keeps, KindCoop, KindFull, CalleeSaved, Reg, Gpr, Fp
  <2>2. CASE c = SaveFull(cpu, cpu["rax"]) /\ due = OwedFull(cpu, cpu["rax"])
    BY <2>2, <1>3, SaveFullEffect DEF Keeps
  <2> QED BY <1>2, <2>1, <2>2
<1>5. /\ ctx' = [ctx EXCEPT ![current] = c]
      /\ owed' = [owed EXCEPT ![current] = due]
      /\ parked' = parked \union {current}
      /\ cpu' = [cpu EXCEPT !["rip"] = Restoring(t)]
      /\ UNCHANGED <<current, mode, frame, bySave>> /\ t \in parked
  BY <1>2 DEF Park, Switch
<1>6. cpu' \in [Reg -> Val] /\ cpu'["rip"] = Restoring(t) /\ cpu'["x87"] = Initial
  BY <1>1, <1>3, <1>5 DEF Val, RuntimeText, Reg, Gpr, Fp
<1>7. TypeOK' /\ OwedShape'
  BY <1>1, <1>4, <1>5, <1>6 DEF IInv, TypeOK, OwedShape
<1>8. FrameDescribes' /\ RipKnown'
  BY <1>1, <1>5, <1>6 DEF FrameDescribes, RipKnown, InScheduler
<1>9. ContextsKeep'
  <2> SUFFICES ASSUME NEW u \in parked' PROVE Keeps(ctx[u], owed[u], u \in bySave)'
    BY DEF ContextsKeep
  <2>1. CASE u = current
    BY <2>1, <1>1, <1>4, <1>5 DEF IInv, OwedShape, TypeOK, Keeps
  <2>2. CASE u # current
    BY <2>2, <1>1, <1>5 DEF IInv, ContextsKeep, Keeps, TypeOK, OwedShape
  <2> QED BY <2>1, <2>2
<1>10. OneCurrent'
  <2>1. Created' = Created
    BY <1>1, <1>4, <1>5, NotBlank DEF IInv, OneCurrent, Created, TypeOK
  <2> QED BY <2>1, <1>5, <1>6 DEF IInv, OneCurrent, InOwnCode, RuntimeText
<1>11. CurrentIntact'
  BY <1>5 DEF CurrentIntact
<1> QED BY <1>7, <1>8, <1>9, <1>10, <1>11 DEF IInv

LEMMA SaveStep == IInv /\ Save => IInv'
<1> SUFFICES ASSUME IInv, Save PROVE IInv'
  OBVIOUS
<1>1. current \notin parked /\ ~InScheduler /\ TypeOK /\ mode = "user" /\ frame = NoFrame
      /\ cpu["rip"] \in Thread \X Version /\ cpu["x87"] = Initial
  BY RunningUnparked DEF IInv, Save, AtCall, Running
<1>2. PICK c, due :
        /\ Park(c, due)
        /\ \/ /\ c = SaveCoop(ctx[current], cpu) /\ due = OwedSave(cpu)
              /\ bySave' = bySave \union {current}
           \/ /\ c = SaveFull(cpu, One) /\ due = OwedFull(cpu, One)
              /\ bySave' = bySave
  BY DEF Save
<1>3. ctx[current] \in Context /\ cpu \in [Reg -> Val] /\ One \in Val /\ Zero \in Val
  BY <1>1 DEF TypeOK, Val
<1>4. c \in Context /\ c.regs["rip"] = cpu["rip"] /\ DOMAIN due \subseteq Reg
      /\ Keeps(c, due, current \in bySave')
  <2>1. CASE /\ c = SaveCoop(ctx[current], cpu) /\ due = OwedSave(cpu)
             /\ bySave' = bySave \union {current}
    BY <2>1, <1>3, SaveCoopEffect, OwedSaveEffect
       DEF Keeps, KindCoop, KindFull, CalleeSaved, Reg, Gpr, Fp
  <2>2. CASE c = SaveFull(cpu, One) /\ due = OwedFull(cpu, One)
    BY <2>2, <1>3, SaveFullEffect DEF Keeps
  <2> QED BY <1>2, <2>1, <2>2
<1>5. /\ ctx' = [ctx EXCEPT ![current] = c]
      /\ owed' = [owed EXCEPT ![current] = due]
      /\ parked' = parked \union {current}
      /\ cpu' = [cpu EXCEPT !["rax"] = Zero]
      /\ mode' = "saved" /\ UNCHANGED <<current, frame>>
      /\ bySave' \in {bySave, bySave \union {current}}
  BY <1>2 DEF Park, Save
<1>6. cpu' \in [Reg -> Val] /\ cpu'["rip"] = cpu["rip"]
  BY <1>3, <1>5 DEF Reg, Gpr
<1>7. TypeOK' /\ OwedShape'
  <2>1. bySave' \subseteq parked'
    BY <1>1, <1>5 DEF TypeOK
  <2>2. mode' \in {"user", "saved", "handler"}
    BY <1>5
  <2> QED BY <2>1, <2>2, <1>1, <1>4, <1>5, <1>6 DEF IInv, TypeOK, OwedShape
<1>8. FrameDescribes' /\ RipKnown'
  BY <1>1, <1>5, <1>6 DEF FrameDescribes, RipKnown, InScheduler
<1>9. ContextsKeep'
  <2> SUFFICES ASSUME NEW u \in parked' PROVE Keeps(ctx[u], owed[u], u \in bySave)'
    BY DEF ContextsKeep
  <2>1. CASE u = current
    BY <2>1, <1>1, <1>4, <1>5 DEF IInv, OwedShape, TypeOK, Keeps
  <2>2. CASE u # current
    <3>1. ctx'[u] = ctx[u] /\ owed'[u] = owed[u] /\ (u \in bySave' <=> u \in bySave)
          /\ u \in parked
      BY <2>2, <1>1, <1>5 DEF IInv, TypeOK, OwedShape
    <3> QED BY <3>1 DEF IInv, ContextsKeep, Keeps
  <2> QED BY <2>1, <2>2
<1>10. OneCurrent'
  <2>1. Created' = Created
    BY <1>1, <1>4, <1>5, NotBlank DEF IInv, OneCurrent, Created, TypeOK
  <2> QED BY <2>1, <1>5 DEF IInv, OneCurrent, InScheduler
<1>11. CurrentIntact'
  BY <1>5 DEF CurrentIntact
<1> QED BY <1>7, <1>8, <1>9, <1>10, <1>11 DEF IInv

LEMMA ScheduleStep == ASSUME IInv, NEW t \in Thread, Schedule(t) PROVE IInv'
<1>1. mode = "saved" /\ t \in parked /\ TypeOK /\ frame = NoFrame
  BY DEF IInv, FrameDescribes, Schedule
<1>2. current \in parked
  BY <1>1 DEF IInv, OneCurrent, InScheduler
<1>3. cpu' = [r \in Reg |-> CASE r = "x87" -> Initial [] r = "rip" -> Restoring(t)
                              [] OTHER -> Junk]
      /\ mode' = "user" /\ UNCHANGED <<ctx, current, frame, parked, owed, bySave>>
  BY DEF Schedule
<1>4. cpu' \in [Reg -> Val] /\ cpu'["rip"] = Restoring(t) /\ cpu'["x87"] = Initial
  BY <1>3 DEF Val, RuntimeText, Reg, Gpr, Fp
<1>5. TypeOK' /\ OwedShape'
  BY <1>1, <1>3, <1>4 DEF IInv, TypeOK, OwedShape
<1>6. FrameDescribes' /\ RipKnown'
  BY <1>1, <1>3, <1>4 DEF FrameDescribes, RipKnown, InScheduler, NoFrame
<1>7. ContextsKeep' /\ CurrentIntact'
  BY <1>2, <1>3 DEF IInv, ContextsKeep, Keeps, CurrentIntact
<1>8. OneCurrent'
  BY <1>2, <1>3, <1>4 DEF IInv, OneCurrent, Created, InOwnCode, RuntimeText
<1> QED BY <1>5, <1>6, <1>7, <1>8 DEF IInv

LEMMA LandStep == ASSUME IInv, NEW t \in Thread, Land(t) PROVE IInv'
<1>1. mode = "user" /\ cpu["rip"] = Restoring(t) /\ TypeOK /\ frame = NoFrame
  BY DEF IInv, FrameDescribes, Land
<1>2. cpu["rip"] \in RuntimeText /\ ~InOwnCode /\ ~InScheduler
  BY <1>1 DEF RuntimeText, InOwnCode, InScheduler, NoFrame
<1>3. t \in parked /\ cpu["x87"] = Initial /\ current \in parked
  BY <1>1, <1>2, OwnRip DEF IInv, RipKnown, OneCurrent, Restoring
<1>4. cpu' = Restore(ctx[t], cpu) /\ current' = t /\ parked' = parked \ {t}
      /\ bySave' = bySave \ {t} /\ UNCHANGED <<ctx, mode, frame, owed>>
  BY DEF Land
<1>5. cpu' \in [Reg -> Val] /\ cpu'["rip"] \in Thread \X Version
      /\ \A r \in DOMAIN owed[t] : cpu'[r] = owed[t][r]
  BY <1>1, <1>3, <1>4, RestoreEffect DEF IInv, ContextsKeep, TypeOK
<1>6. TypeOK' /\ OwedShape'
  BY <1>1, <1>4, <1>5 DEF IInv, TypeOK, OwedShape
<1>7. FrameDescribes' /\ RipKnown'
  BY <1>1, <1>4, <1>5 DEF FrameDescribes, RipKnown
<1>8. ContextsKeep' /\ CurrentIntact'
  BY <1>4, <1>5 DEF IInv, ContextsKeep, Keeps, CurrentIntact
<1>9. OneCurrent'
  <2>1. Created' = Created
    BY <1>4 DEF Created
  <2>2. InOwnCode' /\ ~InScheduler'
    BY <1>2, <1>4, <1>5, OwnRip DEF InOwnCode, InScheduler
  <2> QED BY <2>1, <2>2, <1>3, <1>4 DEF IInv, OneCurrent
<1> QED BY <1>6, <1>7, <1>8, <1>9 DEF IInv

LEMMA SignalStep == IInv /\ Signal => IInv'
<1> SUFFICES ASSUME IInv, Signal PROVE IInv'
  OBVIOUS
<1>1. TypeOK /\ mode # "handler" /\ frame = NoFrame
  BY DEF IInv, FrameDescribes, Signal
<1>2. PICK bv \in SUBSET Component :
        LET unused == UNION {InComponent(c) : c \in Component \ bv}
        IN  /\ \A r \in unused : cpu[r] = Initial
            /\ frame' = [regs |-> [r \in Reg |-> IF r \in unused THEN Junk ELSE cpu[r]],
                         bv |-> bv, from |-> mode]
  BY DEF Signal
<1> DEFINE unused == UNION {InComponent(c) : c \in Component \ bv}
<1>3. mode' = "handler" /\ UNCHANGED <<cpu, ctx, current, parked, owed, bySave>>
  BY DEF Signal
<1>4. frame'.from = mode /\ frame'.bv = bv
      /\ \A r \in Reg : frame'.regs[r] = IF r \in unused THEN Junk ELSE cpu[r]
  BY <1>2
<1>5. frame' \in Frame
  <2>1. [r \in Reg |-> IF r \in unused THEN Junk ELSE cpu[r]] \in [Reg -> Val]
    BY <1>1 DEF TypeOK, Val
  <2>2. mode \in {"user", "saved"}
    BY <1>1 DEF TypeOK
  <2> QED BY <1>2, <2>1, <2>2 DEF Frame
<1>6. TypeOK' /\ OwedShape'
  BY <1>1, <1>3, <1>5 DEF IInv, TypeOK, OwedShape
<1>7. FrameDescribes'
  <2>1. ASSUME NEW r \in Reg
        PROVE  cpu[r] = IF \E c \in Component \ bv : r \in InComponent(c)
                          THEN Initial ELSE frame'.regs[r]
    BY <1>2, <1>4
  <2> QED BY <2>1, <1>3, <1>4 DEF FrameDescribes
<1>8. InScheduler' <=> InScheduler
  BY <1>1, <1>3, <1>4 DEF InScheduler, NoFrame
<1>9. RipKnown' /\ OneCurrent'
  BY <1>3, <1>8 DEF IInv, RipKnown, OneCurrent, Created, InOwnCode
<1>10. ContextsKeep' /\ CurrentIntact'
  BY <1>3 DEF IInv, ContextsKeep, Keeps, CurrentIntact
<1> QED BY <1>6, <1>7, <1>9, <1>10 DEF IInv

LEMMA LeaveAloneStep == IInv /\ LeaveAlone => IInv'
<1> SUFFICES ASSUME IInv, LeaveAlone PROVE IInv'
  OBVIOUS
<1>1. TypeOK /\ mode = "handler" /\ frame \in Frame /\ cpu \in [Reg -> Val]
  BY DEF IInv, LeaveAlone, TypeOK
<1> DEFINE unused == UNION {InComponent(c) : c \in Component \ frame.bv}
<1>2. cpu' = [r \in Reg |-> IF r \in unused THEN Initial ELSE frame.regs[r]]
      /\ mode' = frame.from /\ frame' = NoFrame
      /\ UNCHANGED <<ctx, current, parked, owed, bySave>>
  BY DEF LeaveAlone, SigReturn
<1>3. cpu' = cpu
  <2>1. \A r \in Reg : cpu[r] = IF r \in unused THEN Initial ELSE frame.regs[r]
    BY <1>1 DEF IInv, FrameDescribes
  <2> QED BY <1>1, <1>2, <2>1
<1>4. frame.from \in {"user", "saved"} /\ NoFrame \in Frame
  BY <1>1 DEF Frame, NoFrame, Blank, Val
<1>5. TypeOK' /\ OwedShape'
  BY <1>1, <1>2, <1>3, <1>4 DEF IInv, TypeOK, OwedShape
<1>6. FrameDescribes'
  BY <1>2, <1>4 DEF FrameDescribes
<1>7. InScheduler' <=> InScheduler
  BY <1>1, <1>2, <1>4 DEF InScheduler, NoFrame
<1>8. RipKnown' /\ OneCurrent'
  BY <1>2, <1>3, <1>7 DEF IInv, RipKnown, OneCurrent, Created, InOwnCode
<1>9. ContextsKeep' /\ CurrentIntact'
  BY <1>2, <1>3 DEF IInv, ContextsKeep, Keeps, CurrentIntact
<1> QED BY <1>5, <1>6, <1>8, <1>9 DEF IInv

LEMMA PreemptStep == ASSUME IInv, NEW t \in Thread, Preempt(t) PROVE IInv'
<1>1. TypeOK /\ mode = "handler" /\ frame \in Frame /\ cpu \in [Reg -> Val] /\ t \in parked
  BY DEF IInv, Preempt, TypeOK
<1>2. /\ ctx' = [ctx EXCEPT ![current] = FromUcontext(frame)]
      /\ owed' = [owed EXCEPT ![current] = cpu]
      /\ SigReturn(ToUcontext(frame, ctx'[t]))
      /\ current' = t
      /\ parked' = (parked \union {current}) \ {t}
      /\ bySave' = bySave \ {t}
      /\ t \in bySave => SignalResumesSaved
  BY DEF Preempt
<1>3. InOwnCode /\ ~InScheduler
  BY <1>1, FrameRip DEF Preempt, MayPreempt, UcInRuntime, IInv, InOwnCode, InScheduler
<1>4. current \notin parked /\ cpu["rip"] \in Thread \X Version
  BY <1>3 DEF IInv, OneCurrent, RipKnown, TypeOK, InOwnCode, RuntimeText
<1>5. FromUcontext(frame) = [regs |-> cpu, kind |-> KindFull] /\ FromUcontext(frame) \in Context
  BY <1>1, FromUcontextEffect DEF IInv
<1>6. ctx'[t] = ctx[t] /\ ctx[t] \in Context /\ ctx[t].regs["rip"] \in Thread \X Version
      /\ DOMAIN owed[t] \subseteq Reg /\ owed'[t] = owed[t]
  BY <1>1, <1>2, <1>4 DEF IInv, TypeOK, OwedShape
<1>7. cpu' \in [Reg -> Val] /\ cpu'["rip"] \in Thread \X Version
      /\ mode' = "user" /\ frame' = NoFrame
      /\ (Keeps(ctx[t], owed[t], FALSE) => \A r \in DOMAIN owed[t] : cpu'[r] = owed[t][r])
  <2>1. SigReturn(ToUcontext(frame, ctx[t]))
    BY <1>2, <1>6
  <2> QED BY <2>1, <1>1, <1>6, ToUcontextEffect, ZenonT(30)
<1>8. TypeOK' /\ OwedShape'
  <2>1. NoFrame \in Frame
    BY DEF Frame, NoFrame, Blank, Val
  <2>2. ctx' \in [Thread -> Context] /\ owed' = [u \in Thread |-> owed'[u]]
        /\ \A u \in Thread : DOMAIN owed'[u] \subseteq Reg
    BY <1>1, <1>2, <1>5 DEF IInv, TypeOK, OwedShape
  <2>3. \A u \in parked' : ctx'[u].regs["rip"] \in Thread \X Version
    BY <1>1, <1>2, <1>4, <1>5 DEF TypeOK
  <2> QED BY <2>1, <2>2, <2>3, <1>1, <1>2, <1>7 DEF TypeOK, OwedShape
<1>9. FrameDescribes' /\ RipKnown'
  BY <1>7 DEF FrameDescribes, RipKnown
<1>10. ContextsKeep'
  <2> SUFFICES ASSUME NEW u \in parked' PROVE Keeps(ctx[u], owed[u], u \in bySave)'
    BY DEF ContextsKeep
  <2>1. CASE u = current
    <3>1. ctx'[u] = [regs |-> cpu, kind |-> KindFull] /\ owed'[u] = cpu
      BY <2>1, <1>1, <1>2, <1>5 DEF IInv, OwedShape, TypeOK
    <3> QED BY <3>1, <1>1 DEF Keeps
  <2>2. CASE u # current
    <3>1. ctx'[u] = ctx[u] /\ owed'[u] = owed[u] /\ (u \in bySave' <=> u \in bySave)
          /\ u \in parked
      BY <2>2, <1>1, <1>2 DEF IInv, TypeOK, OwedShape
    <3> QED BY <3>1 DEF IInv, ContextsKeep, Keeps
  <2> QED BY <2>1, <2>2
<1>11. OneCurrent'
  <2>1. Created' = Created
    <3>1. current \in Created /\ ctx'[current] \in Context
          /\ ctx'[current].regs["rip"] \in Thread \X Version
      BY <1>1, <1>2, <1>4, <1>5 DEF IInv, OneCurrent, TypeOK
    <3> QED BY <3>1, <1>1, <1>2, NotBlank DEF Created, TypeOK
  <2>2. InOwnCode' /\ ~InScheduler'
    BY <1>7, OwnRip DEF InOwnCode, InScheduler, NoFrame
  <2> QED BY <2>1, <2>2, <1>1, <1>2, <1>4 DEF IInv, OneCurrent
<1>12. CurrentIntact'
  <2> SUFFICES ASSUME ~SignalResumesSaved
               PROVE  \A r \in DOMAIN owed'[t] : cpu'[r] = owed'[t][r]
    BY <1>2 DEF CurrentIntact
  <2>1. t \notin bySave
    BY <1>2
  <2>2. Keeps(ctx[t], owed[t], FALSE)
    BY <2>1, <1>1 DEF IInv, ContextsKeep, Keeps
  <2> QED BY <2>2, <1>6, <1>7
<1> QED BY <1>8, <1>9, <1>10, <1>11, <1>12 DEF IInv

LEMMA StepInvariant == IInv /\ [Next]_vars => IInv'
<1> SUFFICES ASSUME IInv, [Next]_vars PROVE IInv'
  OBVIOUS
<1>1. CASE UNCHANGED vars
  BY <1>1, ZenonT(30) DEF vars, IInv, TypeOK, OwedShape, FrameDescribes, RipKnown, ContextsKeep, Keeps,
              OneCurrent, Created, InOwnCode, InScheduler, CurrentIntact
<1>2. CASE Next
  BY <1>2, WorkStep, SaveStep, SignalStep, LeaveAloneStep, CreateStep, SwitchStep,
     ScheduleStep, LandStep, PreemptStep DEF Next
<1> QED BY <1>1, <1>2

LEMMA Invariant == Spec => []IInv
BY InitInvariant, StepInvariant, PTL DEF Spec

(* The registers, the contexts and the frame keep their types, and a parked *)
(* context always says where to resume: never an address inside a switch.   *)
THEOREM ContextsTyped == Spec => []TypeOK
<1>1. IInv => TypeOK
  BY DEF IInv
<1> QED BY <1>1, Invariant, PTL

(* Whichever of the routines parked a thread, and whether lf_ctx_restore or *)
(* a signal's frame resumes it, it finds every register it was owed,        *)
(* provided no signal resumes a thread parked by lf_ctx_save.               *)
THEOREM ResumedIntact ==
  ASSUME ~SignalResumesSaved
  PROVE  Spec => []ResumesIntact
<1>1. ASSUME IInv PROVE ResumesIntact
  BY <1>1, RunningUnparked DEF IInv, CurrentIntact, ResumesIntact
<1> QED BY <1>1, Invariant, PTL

(* No thread is lost and none is on the processor and parked at once,       *)
(* although a signal may arrive at any point of a switch.                   *)
THEOREM ResumedOnce == Spec => []ResumesOnce
<1>1. IInv => ResumesOnce
  BY DEF IInv, OneCurrent, ResumesOnce, Unparked, InScheduler
<1> QED BY <1>1, Invariant, PTL
===============================================================================
