------------------------- MODULE SubscriptionProofs -------------------------
(***************************************************************************)
(* What the subscribe hooks promise, for any number of mounts, effects and *)
(* answers in any order: nothing ends the subscription of the effect that  *)
(* is running, and no more subscriptions leak than cleanups came too soon. *)
(***************************************************************************)
EXTENDS SubscriptionHook, FiniteSetTheorems, FunctionTheorems, TLAPS

\* Calls are told apart by their effects, a call of the mounted list is that of an
\* effect which runs or has seen the socket close, and what is being ended is no
\* longer the running effect's.
HookInv ==
    /\ socket \in {"connecting", "open", "closed"}
    /\ effects \in Nat /\ mounts \in Nat /\ mount \in 0..mounts /\ effect \in Nat
    /\ HookTypeOK
    /\ stood \cup failed \subseteq 1..effects
    /\ \A c, d \in calls : c.effect = d.effect => c = d
    /\ socket = "connecting" => effect = 0 /\ calls = {} /\ closing = {} /\ ref = None
    /\ (socket = "open" /\ effect = 0) => \A c \in calls : c.mount # mount
    /\ \A u \in closing : u.handle # effect
    /\ RunningListens

\* Nothing has happened at first.
LEMMA InitHook == Init => HookInv
  BY HookAssumption DEF Init, HookInv, HookTypeOK, NothingToEnd, RunningListens

\* The subscription stands.
LEMMA SubscribedKeeps ==
    ASSUME HookInv, NEW c \in calls, Subscribed(c)
    PROVE  HookInv'
  BY HookAssumption DEF Subscribed, HookInv, HookTypeOK, NothingToEnd, RunningListens

\* The API refuses.
LEMMA RefusedKeeps ==
    ASSUME HookInv, NEW c \in calls, SubscribeFailed(c)
    PROVE  HookInv'
  BY HookAssumption DEF SubscribeFailed, HookInv, HookTypeOK, NothingToEnd, RunningListens

\* A subscription has ended.
LEMMA UnsubscribedKeeps ==
    ASSUME HookInv, NEW u \in closing, Unsubscribed(u)
    PROVE  HookInv'
  BY HookAssumption DEF Unsubscribed, HookInv, HookTypeOK, NothingToEnd, RunningListens

\* A render.
LEMMA RenderedKeeps ==
    ASSUME HookInv, mount # 0, Rendered,
           UNCHANGED <<socket, mount, mounts, ref, live, stood, failed>>
    PROVE  HookInv'
<1>1. CASE effect = 0 /\ socket = "open" /\ RunEffect
  BY <1>1, HookAssumption
  DEF RunEffect, CallOf, HookInv, HookTypeOK, NothingToEnd, RunningListens
<1>2. CASE effect # 0 /\ socket # "open" /\ CleanUp
  BY <1>2, HookAssumption
  DEF CleanUp, ClosingOf, HookInv, HookTypeOK, NothingToEnd, RunningListens
<1>3. CASE UNCHANGED <<effect, effects, calls, closing>>
  BY <1>3 DEF HookInv, HookTypeOK, NothingToEnd, RunningListens
<1>4. QED
  BY <1>1, <1>2, <1>3 DEF Rendered

\* A list is put on the page.
LEMMA MountKeeps ==
    ASSUME HookInv, NEW twice \in BOOLEAN, Mount(twice)
    PROVE  HookInv'
  BY HookAssumption DEF Mount, CallOf, HookInv, HookTypeOK, NothingToEnd, RunningListens

\* It is taken off.
LEMMA UnmountKeeps ==
    ASSUME HookInv, Unmount
    PROVE  HookInv'
  BY HookAssumption
  DEF Unmount, CleanUp, ClosingOf, HookInv, HookTypeOK, NothingToEnd, RunningListens

\* The socket opens or closes.
LEMMA SocketKeeps ==
    ASSUME HookInv, SocketOpens \/ SocketCloses
    PROVE  HookInv'
  BY DEF SocketOpens, SocketCloses, promises, HookInv, HookTypeOK, NothingToEnd, RunningListens

\* Whatever happens.
LEMMA NextKeepsHook == HookInv /\ [Next]_hookVars => HookInv'
<1> SUFFICES ASSUME HookInv, [Next]_hookVars PROVE HookInv'
  OBVIOUS
<1>1. CASE UNCHANGED hookVars
  BY <1>1 DEF hookVars, promises, HookInv, HookTypeOK, NothingToEnd, RunningListens
<1>2. CASE BlockLoaded \/ Rerendered
  BY <1>2, RenderedKeeps DEF BlockLoaded, Rerendered
<1>3. CASE Answered
  BY <1>3, SubscribedKeeps, UnsubscribedKeeps DEF Answered
<1>4. QED
  BY <1>1, <1>2, <1>3, RefusedKeeps, MountKeeps, UnmountKeeps, SocketKeeps DEF Next

\* The invariant of the hooks.
THEOREM HookTheorem == Spec => []HookInv
  BY InitHook, NextKeepsHook, PTL DEF Spec

\* Handles, calls and effects fit together, and whenever an effect may run there
\* is nothing in the ref for it to end.
THEOREM HookTypeTheorem == Spec => []HookTypeOK
<1>1. HookInv => HookTypeOK
  BY DEF HookInv
<1>2. QED
  BY <1>1, HookTheorem, PTL

\* However often lists are mounted, taken off and rendered, and in whatever order
\* the answers come, the running effect keeps the subscription it has obtained.
THEOREM RunningTheorem == Spec => []RunningListens
<1>1. HookInv => RunningListens
  BY DEF HookInv
<1>2. QED
  BY <1>1, HookTheorem, PTL

-----------------------------------------------------------------------------
(* Leaks *)

\* What delivers to an effect that is over and is not being ended either.
Leaked == {h \in live : h # effect /\ \A u \in closing : u.handle # h}

\* Each leak is due to a cleanup that was too early: that of the effect itself, or
\* that of the effect before it, whose late handle took its place in the ref and
\* was ended instead of it.  Over an open socket, only what a list had when it was
\* taken off the page is being ended.
LeakInv ==
    /\ socket # "open" => live = {} /\ calls = {} /\ closing = {}
    /\ overtaken \subseteq 1..effects
    /\ \A u \in closing : u.mount \in (1..mounts) \ {mount}
    /\ \A c \in calls : IF c.effect = effect THEN c.mount = mount ELSE c.effect \in overtaken
    /\ \A c \in calls : c.mount = mount => c.effect \in {effect, effect - 1}
    /\ (socket = "open" /\ ref # None) =>
          ref = effect \/ (ref = effect - 1 /\ ref \in overtaken)
    /\ (socket = "open" /\ effect \in stood) => ref # None
    /\ \A h \in Leaked :
          h \in overtaken \/ (h - 1 \in overtaken /\ h - 1 \in stood \ Leaked)

\* Nothing has leaked at first.
LEMMA InitLeaks == Init => LeakInv
  BY HookAssumption DEF Init, LeakInv, Leaked

\* A subscription that stands after its effect's cleanup leaks, and may push that
\* of the running effect out of the ref.
LEMMA SubscribedLeaks ==
    ASSUME HookInv, LeakInv, NEW c \in calls, Subscribed(c)
    PROVE  LeakInv'
<1> USE HookAssumption DEF Subscribed
<1>1. socket = "open" /\ c.effect \in 1..effects /\ c.effect \notin stood
  BY DEF HookInv, HookTypeOK, LeakInv
<1>2. Leaked' = Leaked \cup ({c.effect} \ {effect})
  BY <1>1 DEF Leaked, HookInv, HookTypeOK
<1>3. \A d \in calls' : d \in calls /\ d.effect # c.effect
  BY DEF HookInv
<1>4. \A h \in Leaked' : h \in overtaken' \/ (h - 1 \in overtaken' /\ h - 1 \in stood' \ Leaked')
  BY <1>1, <1>2 DEF LeakInv
<1>5. ref' # None => ref' = effect' \/ (ref' = effect' - 1 /\ ref' \in overtaken')
  BY <1>1 DEF LeakInv
<1>6. effect' \in stood' => ref' # None
  BY <1>1 DEF LeakInv
<1>7. QED
  BY <1>1, <1>3, <1>4, <1>5, <1>6 DEF LeakInv

\* The API refuses.
LEMMA RefusedLeaks ==
    ASSUME HookInv, LeakInv, NEW c \in calls, SubscribeFailed(c)
    PROVE  LeakInv'
  BY HookAssumption DEF SubscribeFailed, HookInv, HookTypeOK, LeakInv, Leaked

\* A subscription has ended; the ref of the mounted list is not touched.
LEMMA UnsubscribedLeaks ==
    ASSUME HookInv, LeakInv, NEW u \in closing, Unsubscribed(u)
    PROVE  LeakInv'
<1>1. Leaked' = Leaked
  BY DEF Unsubscribed, Leaked
<1>2. UNCHANGED <<socket, mount, mounts, effect, effects, ref, calls, stood, overtaken>>
  BY DEF Unsubscribed, LeakInv
<1>3. closing' \subseteq closing /\ live' \subseteq live
  BY DEF Unsubscribed
<1>4. QED
  BY <1>1, <1>2, <1>3 DEF LeakInv

\* A cleanup over a closed socket: nothing is left to deliver.
LEMMA CleanUpLeaks ==
    ASSUME HookInv, LeakInv, socket # "open", CleanUp, mounts' = mounts,
           UNCHANGED <<socket, live>>
    PROVE  LeakInv'
<1>1. UNCHANGED <<calls, closing, overtaken, effects>>
  BY DEF CleanUp, ClosingOf, Pending, LeakInv
<1>2. Leaked' = {}
  BY DEF Leaked, LeakInv
<1>3. QED
  BY <1>1, <1>2 DEF LeakInv

\* A render.
LEMMA RenderedLeaks ==
    ASSUME HookInv, LeakInv, mount # 0, Rendered,
           UNCHANGED <<socket, mount, mounts, ref, live, stood, failed>>
    PROVE  LeakInv'
<1>1. CASE effect = 0 /\ socket = "open" /\ RunEffect
  BY <1>1, HookAssumption
  DEF RunEffect, CallOf, HookInv, HookTypeOK, NothingToEnd, LeakInv, Leaked
<1>2. CASE effect # 0 /\ socket # "open" /\ CleanUp
  BY <1>2, CleanUpLeaks
<1>3. CASE UNCHANGED <<effect, effects, calls, closing, overtaken>>
  BY <1>3 DEF HookInv, HookTypeOK, LeakInv, Leaked
<1>4. QED
  BY <1>1, <1>2, <1>3 DEF Rendered

\* A list is put on the page.  The cleanup of a development build comes before the
\* handle of the first of its two effects.
LEMMA MountLeaks ==
    ASSUME HookInv, LeakInv, NEW twice \in BOOLEAN, Mount(twice)
    PROVE  LeakInv'
<1> DEFINE last == IF twice THEN effects + 2 ELSE effects + 1
<1> USE HookAssumption
<1>1. /\ mount = 0 /\ effect = 0 /\ effects \in Nat /\ mounts \in Nat
      /\ mounts' = mounts + 1 /\ mount' = mounts + 1 /\ ref' = None
      /\ UNCHANGED <<socket, closing, live, stood>>
  BY DEF Mount, HookInv, HookTypeOK
<1>2. CASE socket = "open"
  <2>1. /\ effect' = last /\ effects' = last
        /\ calls' = calls \cup {[effect |-> e, mount |-> mounts + 1] : e \in (effects + 1)..last}
        /\ overtaken' = overtaken \cup (((effects + 1)..last) \ {last})
    BY <1>1, <1>2 DEF Mount, CallOf
  <2>2. last \notin stood /\ last \notin live /\ 0 \notin live
    BY <1>1 DEF HookInv, HookTypeOK
  <2>3. Leaked' = Leaked
    BY <1>1, <2>1, <2>2 DEF Leaked
  <2>4. \A c \in calls : c.effect \in 1..effects /\ c.mount \in 1..mounts /\ c.effect # effect
    BY <1>1 DEF HookInv, HookTypeOK
  <2>5. \A c \in calls' : /\ IF c.effect = effect' THEN c.mount = mount' ELSE c.effect \in overtaken'
                          /\ c.mount = mount' => c.effect \in {effect', effect' - 1}
    <3>1. TAKE c \in calls'
    <3>2. CASE c \in calls
      BY <1>1, <2>1, <2>4, <3>2 DEF LeakInv
    <3>3. CASE c \notin calls
      <4>1. PICK e \in (effects + 1)..last : c = [effect |-> e, mount |-> mounts + 1]
        BY <2>1, <3>3
      <4>2. e \in {last, last - 1} /\ c.effect = e /\ c.mount = mount'
        BY <1>1, <4>1
      <4>3. QED
        BY <2>1, <4>1, <4>2
    <3>4. QED
      BY <3>2, <3>3
  <2>6. overtaken' \subseteq 1..effects'
    <3>1. overtaken \subseteq 1..effects
      BY DEF LeakInv
    <3>2. \A e \in overtaken' : e \in overtaken \/ e \in (effects + 1)..last
      BY <2>1
    <3>3. last \in Nat /\ effects <= last
      BY <1>1
    <3> HIDE DEF last
    <3>4. ASSUME NEW e \in overtaken' PROVE e \in 1..last
      <4>1. CASE e \in overtaken
        BY <1>1, <3>1, <3>3, <4>1
      <4>2. CASE e \in (effects + 1)..last
        BY <1>1, <3>3, <4>2
      <4>3. QED
        BY <3>2, <4>1, <4>2
    <3>5. QED
      BY <2>1, <3>4
  <2>7. \A u \in closing' : u.mount \in (1..mounts') \ {mount'}
    BY <1>1 DEF LeakInv
  <2>8. QED
    BY <1>1, <1>2, <2>1, <2>2, <2>3, <2>5, <2>6, <2>7 DEF LeakInv
<1>3. CASE socket # "open"
  <2>1. UNCHANGED <<effect, effects, calls, overtaken>>
    BY <1>3 DEF Mount
  <2>2. Leaked' = {}
    BY <1>1, <1>3 DEF Leaked, LeakInv
  <2>3. QED
    BY <1>1, <1>3, <2>1, <2>2 DEF LeakInv
<1>4. QED
  BY <1>2, <1>3

\* It is taken off over an open socket: what the ref holds is ended, and whatever
\* else delivers to the effect leaks.
LEMMA UnmountLeaksOpen ==
    ASSUME HookInv, LeakInv, Unmount, socket = "open", effect # 0
    PROVE  LeakInv'
<1> USE HookAssumption
<1>1. /\ mount' = 0 /\ effect' = 0 /\ ref' = None /\ effect = effects
      /\ mount \in 1..mounts /\ mount \in Nat /\ effects \in Nat /\ mounts \in Nat
      /\ closing' = closing \cup (IF ref = None THEN {} ELSE {[handle |-> ref, mount |-> mount]})
      /\ overtaken' = IF Pending(effect) THEN overtaken \cup {effect} ELSE overtaken
      /\ UNCHANGED <<socket, mounts, effects, calls, live, stood>>
  BY DEF Unmount, CleanUp, ClosingOf, HookInv, HookTypeOK
<1>2. live \subseteq 1..effects /\ live \subseteq stood /\ stood \subseteq 1..effects
  BY DEF HookInv, HookTypeOK
<1>3. Leaked' = {h \in live : h # ref /\ \A u \in closing : u.handle # h}
  <2>1. Leaked' = {h \in live : \A u \in closing' : u.handle # h}
    BY <1>1, <1>2 DEF Leaked
  <2>2. CASE ref = None
    <3>1. closing' = closing /\ \A h \in live : h # ref
      BY <1>1, <1>2, <2>2
    <3>2. QED
      BY <2>1, <3>1
  <2>3. CASE ref # None
    <3>1. closing' = closing \cup {[handle |-> ref, mount |-> mount]}
      BY <1>1, <2>3
    <3>2. ASSUME NEW h \in live
          PROVE  (\A u \in closing' : u.handle # h) <=> (h # ref /\ \A u \in closing : u.handle # h)
      <4> DEFINE ended == [handle |-> ref, mount |-> mount]
      <4>1. ended.handle = ref
        OBVIOUS
      <4> HIDE DEF ended
      <4>2. closing' = closing \cup {ended}
        BY <3>1 DEF ended
      <4>3. QED
        BY <4>1, <4>2
    <3>3. QED
      BY <2>1, <3>2
  <2>4. QED
    BY <2>2, <2>3
<1>4. \A h \in Leaked' : h \in overtaken' \/ (h - 1 \in overtaken' /\ h - 1 \in stood' \ Leaked')
  <2>1. TAKE h \in Leaked'
  <2>2. h \in live /\ h # ref /\ h \in 1..effects
    BY <1>2, <1>3
  <2>3. CASE h = effect
    <3>1. ref # None /\ ref = effect - 1 /\ ref \in overtaken
      BY <1>2, <2>2, <2>3 DEF LeakInv
    <3>2. ref \in stood
      BY <3>1 DEF HookInv, HookTypeOK
    <3>3. QED
      BY <1>1, <1>3, <2>3, <3>1, <3>2
  <2>4. CASE h # effect
    <3>1. h \in Leaked
      BY <1>3, <2>4 DEF Leaked
    <3>2. h - 1 # effect
      BY <1>1, <2>2
    <3>3. h - 1 \notin Leaked => h - 1 \notin Leaked'
      BY <1>3, <3>2 DEF Leaked
    <3>4. QED
      BY <1>1, <3>1, <3>3 DEF LeakInv
  <2>5. QED
    BY <2>3, <2>4
<1>5. \A c \in calls : c.effect \in overtaken' /\ c.mount \in 1..mounts /\ c.effect \in 1..effects
  BY <1>1 DEF HookInv, HookTypeOK, LeakInv, Pending
<1>6. \A u \in closing' : u.mount \in 1..mounts
  BY <1>1 DEF LeakInv
<1>7. overtaken' \subseteq 1..effects
  BY <1>1 DEF LeakInv
<1>8. QED
  BY <1>1, <1>2, <1>4, <1>5, <1>6, <1>7 DEF LeakInv

\* It is taken off.
LEMMA UnmountLeaks ==
    ASSUME HookInv, LeakInv, Unmount
    PROVE  LeakInv'
<1>1. CASE effect # 0 /\ socket = "open"
  BY <1>1, UnmountLeaksOpen
<1>2. CASE effect # 0 /\ socket # "open"
  BY <1>2, CleanUpLeaks DEF Unmount
<1>3. CASE effect = 0
  <2>1. /\ UNCHANGED <<socket, mounts, effect, effects, calls, closing, overtaken, live, stood>>
        /\ mount' = 0 /\ ref' = None
    BY <1>3 DEF Unmount
  <2>2. Leaked' = Leaked
    BY <2>1 DEF Leaked
  <2>3. 0 \notin stood /\ \A c \in calls : c.mount # 0 /\ c.effect # 0
    BY <1>3 DEF HookInv, HookTypeOK
  <2>4. QED
    BY <1>3, <2>1, <2>2, <2>3 DEF LeakInv
<1>4. QED
  BY <1>1, <1>2, <1>3

\* The socket opens or closes.
LEMMA SocketLeaks ==
    ASSUME HookInv, LeakInv, SocketOpens \/ SocketCloses
    PROVE  LeakInv'
<1>1. CASE SocketOpens
  <2>1. Leaked' = Leaked /\ ref = None /\ effect = 0 /\ 0 \notin stood
    BY <1>1 DEF SocketOpens, promises, HookInv, HookTypeOK, Leaked
  <2>2. QED
    BY <1>1, <2>1 DEF SocketOpens, promises, LeakInv
<1>2. CASE SocketCloses
  <2>1. Leaked' = {}
    BY <1>2 DEF SocketCloses, Leaked
  <2>2. QED
    BY <1>2, <2>1 DEF SocketCloses, LeakInv
<1>3. QED
  BY <1>1, <1>2

\* Whatever happens.
LEMMA NextLeaks == HookInv /\ LeakInv /\ [Next]_hookVars => LeakInv'
<1> SUFFICES ASSUME HookInv, LeakInv, [Next]_hookVars PROVE LeakInv'
  OBVIOUS
<1>1. CASE UNCHANGED hookVars
  BY <1>1 DEF hookVars, promises, LeakInv, Leaked
<1>2. CASE BlockLoaded \/ Rerendered
  BY <1>2, RenderedLeaks DEF BlockLoaded, Rerendered
<1>3. CASE Answered
  BY <1>3, SubscribedLeaks, UnsubscribedLeaks DEF Answered
<1>4. QED
  BY <1>1, <1>2, <1>3, RefusedLeaks, MountLeaks, UnmountLeaks, SocketLeaks DEF Next

\* Each leak has a cleanup of its own to blame.
LEMMA LeaksAreFew ==
    ASSUME HookInv, LeakInv
    PROVE  Cardinality(Leaked) <= Cardinality(overtaken)
<1> DEFINE Blame == [h \in Leaked |-> IF h \in overtaken THEN h ELSE h - 1]
<1>1. Leaked \subseteq Nat
  BY DEF Leaked, HookInv, HookTypeOK
<1>2. Blame \in [Leaked -> overtaken]
  BY DEF LeakInv
<1>3. \A g, h \in Leaked : Blame[g] = Blame[h] => g = h
  BY <1>1 DEF LeakInv
<1>4. Blame \in Injection(Leaked, overtaken)
  <2> HIDE DEF Blame
  <2>1. QED
    BY <1>2, <1>3, Fun_IsInj
<1>5. IsFiniteSet(overtaken)
  <2>1. IsFiniteSet(1..effects)
    BY FS_Interval DEF HookInv
  <2>2. QED
    BY <2>1, FS_Subset DEF LeakInv
<1> HIDE DEF Blame
<1>6. QED
  BY <1>4, <1>5, FS_Injection

\* However often lists are mounted, rendered and taken off, and whatever order the
\* answers come in, no more subscriptions leak than cleanups came too early.
THEOREM LeaksTheorem == Spec => []LeaksCounted
<1>1. HookInv /\ LeakInv => LeaksCounted
  BY LeaksAreFew DEF LeaksCounted, Leaked
<1>2. QED
  BY <1>1, InitLeaks, NextLeaks, HookTheorem, PTL DEF Spec

=============================================================================
