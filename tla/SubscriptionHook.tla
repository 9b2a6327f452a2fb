-------------------------- MODULE SubscriptionHook --------------------------
(***************************************************************************)
(* useSubscribeAssertionEvent, useSubscribeBlock (the same code) and the   *)
(* effect of AssertionList that drives each of them.  subscribe stores its *)
(* handle in a ref when the answer comes; unsubscribe ends what the ref    *)
(* holds at that moment.  Whether the web socket is open is read when the  *)
(* list renders and never else.  The socket opens once and never again.    *)
(***************************************************************************)
EXTENDS Naturals, FiniteSets

CONSTANTS None,
          MaxMounts     \* bound: times the list is put on the page

ASSUME HookAssumption == None \notin Nat

VARIABLES
    socket,       \* external: "connecting", "open" or "closed"
    mount,        \* the mounted list, or 0
    mounts,       \* lists mounted so far; each has a ref of its own
    blockAsked,   \* the list's query of the current block is still to bring it a new height
    effect,       \* the running effect, or 0
    effects,      \* effects run so far; a handle is named by its effect
    ref,          \* unsubscribeRef.current of the mounted list: a handle, or None
    calls,        \* calls of subscribe under way
    closing,      \* calls of unsubscribe under way
    live,         \* external: subscriptions that deliver
    stood,        \* handles that have been obtained
    failed,       \* effects whose subscribe was refused
    overtaken     \* effects cleaned up while their subscribe was under way

promises == <<calls, closing, live, stood, failed>>
hookVars == <<socket, mount, mounts, blockAsked, effect, effects, ref, promises, overtaken>>

Init ==
    /\ socket = "connecting"
    /\ mount = 0 /\ mounts = 0 /\ blockAsked = FALSE
    /\ effect = 0 /\ effects = 0
    /\ ref = None
    /\ calls = {} /\ closing = {} /\ live = {}
    /\ stood = {} /\ failed = {} /\ overtaken = {}

-----------------------------------------------------------------------------
(* The hook *)

\* subscribe, up to its await.  It would first end what the ref holds, but the ref
\* is empty whenever the list calls it (NothingToEnd).
CallOf(e, list) == [effect |-> e, mount |-> list]

\* Mutant: unsubscribe forgets the handle without using it.
ClosingNothing(list, held) == {}

\* unsubscribe: nothing when no handle has been stored yet, and a rejection that
\* nobody catches when the socket has closed.
ClosingOf(list, held) ==
    IF held = None \/ socket # "open" THEN {} ELSE {[handle |-> held, mount |-> list]}

\* Mutant: the handle stored meanwhile is ended for good measure.
SubscribedEndingOther(c) ==
    /\ c \in calls
    /\ calls' = calls \ {c}
    /\ live' = (live \ {ref}) \cup {c.effect}
    /\ stood' = stood \cup {c.effect}
    /\ ref' = IF c.mount = mount THEN c.effect ELSE ref
    /\ UNCHANGED <<socket, mount, mounts, blockAsked, effect, effects, closing, failed, overtaken>>

\* Mutant: one ref for all lists.
SubscribedSharedRef(c) ==
    /\ c \in calls
    /\ calls' = calls \ {c}
    /\ live' = live \cup {c.effect}
    /\ stood' = stood \cup {c.effect}
    /\ ref' = c.effect
    /\ UNCHANGED <<socket, mount, mounts, blockAsked, effect, effects, closing, failed, overtaken>>

\* The subscription stands, and its handle replaces whatever the ref holds.
Subscribed(c) ==
    /\ c \in calls
    /\ calls' = calls \ {c}
    /\ live' = live \cup {c.effect}
    /\ stood' = stood \cup {c.effect}
    /\ ref' = IF c.mount = mount THEN c.effect ELSE ref
    /\ UNCHANGED <<socket, mount, mounts, blockAsked, effect, effects, closing, failed, overtaken>>

\* The API refuses; nobody catches it.
SubscribeFailed(c) ==
    /\ c \in calls
    /\ calls' = calls \ {c}
    /\ failed' = failed \cup {c.effect}
    /\ UNCHANGED <<socket, mount, mounts, blockAsked, effect, effects, ref,
                   closing, live, stood, overtaken>>

\* The subscription has ended, and the ref is emptied, whatever it holds by now.
Unsubscribed(u) ==
    /\ u \in closing
    /\ closing' = closing \ {u}
    /\ live' = live \ {u.handle}
    /\ ref' = IF u.mount = mount THEN None ELSE ref
    /\ UNCHANGED <<socket, mount, mounts, blockAsked, effect, effects,
                   calls, stood, failed, overtaken>>

-----------------------------------------------------------------------------
(* The list *)

Pending(e) == \E c \in calls : c.effect = e

\* The effect's cleanup.
CleanUp ==
    /\ effect' = 0
    /\ closing' = closing \cup ClosingOf(mount, ref)
    /\ overtaken' = IF Pending(effect) THEN overtaken \cup {effect} ELSE overtaken
    /\ UNCHANGED <<effects, calls>>

RunEffect ==
    /\ effects' = effects + 1
    /\ effect' = effects'
    /\ calls' = calls \cup {CallOf(effects', mount)}
    /\ UNCHANGED <<closing, overtaken>>

\* Mutant: the effect depends on nothing and runs when the list is mounted only.
RenderedOnce == UNCHANGED <<effect, effects, calls, closing, overtaken>>

\* A render runs the effect anew when the socket's state has changed since the
\* last one.
Rendered ==
    \/ effect = 0 /\ socket = "open" /\ RunEffect
    \/ effect # 0 /\ socket # "open" /\ CleanUp
    \/ /\ (socket = "open") = (effect # 0)
       /\ UNCHANGED <<effect, effects, calls, closing, overtaken>>

\* The list is put on the page.  A development build runs each effect twice, with
\* a cleanup in between that finds no handle yet.  The queries' cache outlives the
\* list: a later one may start with the height its query is going to bring.
Mount(twice) ==
    LET first == effects + 1
        last  == IF twice THEN effects + 2 ELSE effects + 1
    IN  /\ mount = 0 /\ mounts < MaxMounts
        /\ mounts' = mounts + 1 /\ mount' = mounts'
        /\ ref' = None
        /\ blockAsked' \in (IF mounts = 0 THEN {TRUE} ELSE BOOLEAN)
        /\ IF socket = "open"
           THEN /\ effects' = last /\ effect' = last
                /\ calls' = calls \cup {CallOf(e, mounts') : e \in first..last}
                /\ overtaken' = overtaken \cup ((first..last) \ {last})
           ELSE UNCHANGED <<effect, effects, calls, overtaken>>
        /\ UNCHANGED <<socket, closing, live, stood, failed>>

Unmount ==
    /\ mount # 0
    /\ mount' = 0 /\ blockAsked' = FALSE /\ ref' = None
    /\ IF effect # 0 THEN CleanUp
       ELSE UNCHANGED <<effect, effects, calls, closing, overtaken>>
    /\ UNCHANGED <<socket, mounts, live, stood, failed>>

\* The height that the list's query brings renders the list; the rows were there
\* before the list was.
BlockLoaded ==
    /\ mount # 0 /\ blockAsked
    /\ blockAsked' = FALSE
    /\ Rendered
    /\ UNCHANGED <<socket, mount, mounts, ref, live, stood, failed>>

\* Anything else that renders the list, such as a refetch with news in it.
Rerendered ==
    /\ mount # 0
    /\ Rendered
    /\ UNCHANGED <<socket, mount, mounts, blockAsked, ref, live, stood, failed>>

-----------------------------------------------------------------------------
(* The web socket, external *)

SocketOpens ==
    /\ socket = "connecting"
    /\ socket' = "open"
    /\ UNCHANGED <<mount, mounts, blockAsked, effect, effects, ref, promises, overtaken>>

\* Everything under way is rejected.
SocketCloses ==
    /\ socket # "closed"
    /\ socket' = "closed"
    /\ live' = {} /\ calls' = {} /\ closing' = {}
    /\ UNCHANGED <<mount, mounts, blockAsked, effect, effects, ref, stood, failed, overtaken>>

Answered ==
    \/ \E c \in calls : Subscribed(c)
    \/ \E u \in closing : Unsubscribed(u)

Next ==
    \/ SocketOpens \/ SocketCloses
    \/ \E twice \in BOOLEAN : Mount(twice)
    \/ Unmount \/ BlockLoaded \/ Rerendered
    \/ Answered
    \/ \E c \in calls : SubscribeFailed(c)

Spec == Init /\ [][Next]_hookVars

\* The socket opens or closes, what is asked over it is answered, and the list's
\* query succeeds in the end.  Nothing obliges anything else to render the list.
Fairness ==
    /\ WF_hookVars(SocketOpens)
    /\ WF_hookVars(Answered)
    /\ WF_hookVars(BlockLoaded)

LiveSpec == Spec /\ Fairness

-----------------------------------------------------------------------------
(* Properties *)

\* Whenever an effect may run, the ref is empty.
NothingToEnd == (mount = 0 \/ (effect = 0 /\ socket = "open")) => ref = None

HookTypeOK ==
    /\ effect # 0 => mount # 0 /\ effect = effects
    /\ ref # None => mount # 0 /\ ref \in stood
    /\ NothingToEnd
    /\ live \subseteq stood /\ stood \cap failed = {}
    /\ \A c \in calls : c.effect \in (1..effects) \ (stood \cup failed) /\ c.mount \in 1..mounts
    /\ \A u \in closing : u.handle \in stood

\* Whatever order the answers come in, nothing ends the subscription of the
\* running effect: once it stands, the list hears every event.
RunningListens ==
    (effect \in stood /\ socket = "open") => effect \in live

\* A subscription outlives its effect, so that events arrive twice or for nobody,
\* only where a cleanup came before the handle, and one for each time at most:
\* the late handle may also push another one out of the ref.
LeaksCounted ==
    Cardinality({h \in live : h # effect /\ \A u \in closing : u.handle # h})
        <= Cardinality(overtaken)

Listening == effect # 0 /\ effect \in live

\* A list that still waits for a height it does not know when the socket opens will
\* listen, unless it is taken off the page, the socket closes or the API refuses.
LateDataListens ==
    (socket = "open" /\ blockAsked)
        ~> (Listening \/ mount = 0 \/ socket = "closed" \/ effect \in failed)

\* packages/app/src/components/verify/assertion-list.tsx:175: "Assertions made
\* on-chain will appear here."  A list that stays on the page over an open socket
\* comes to listen for them.
MountedListens ==
    (socket = "open" /\ mount # 0)
        ~> (Listening \/ mount = 0 \/ socket = "closed" \/ effect \in failed)

=============================================================================
