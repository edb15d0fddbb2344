-------------------------- MODULE LiveSessionProofs --------------------------
(***************************************************************************)
(* Proofs about live sessions: after a refresh the store shows the live    *)
(* document, under the bridge's revision id or the next geometry one.      *)
(* This is inductive: a refresh re-establishes it from the live document   *)
(* alone, and whatever changes that makes it hold trivially.               *)
(* Ids may name two graphs of a store; references never do.                *)
(***************************************************************************)
EXTENDS LiveSession, TLAPS

LEMMA InitShows == Init => ShowsLive
BY DEF Init, StoreInit, Compiled, ShowsLive

LEMMA RefreshShows ==
  ASSUME Refresh
  PROVE  ShowsLive'
<1>1. live' = live
  BY DEF Refresh
<1>2. CASE current = Compiled(live)
  <2>1. current' = Compiled(live)
    BY <1>2 DEF Refresh, storeVars
  <2> QED BY <1>1, <2>1 DEF Compiled, ShowsLive
<1>3. CASE current # Compiled(live)
  <2>1. current' = ObservedAs(Compiled(live))
    BY <1>3 DEF Refresh, Observe, Publish
  <2>2. /\ current'.content = live.content
        /\ current'.refs = live.rev
    BY <2>1 DEF ObservedAs, Compiled
  <2>3. current'.rev \in {live.rev, BumpGeometry(live.rev)}
    BY <2>1 DEF ObservedAs, Compiled
  <2> QED BY <1>1, <2>2, <2>3 DEF ShowsLive
<1> QED BY <1>2, <1>3

LEMMA ShowsInductive ==
  ShowsLive /\ [Next]_vars => ShowsLive'
<1> SUFFICES ASSUME ShowsLive, [Next]_vars
             PROVE  ShowsLive'
  OBVIOUS
<1>1. CASE LiveChange \/ LiveSilent
  BY <1>1 DEF LiveChange, LiveSilent, ShowsLive
<1>2. CASE Refresh
  BY <1>2, RefreshShows
<1>3. CASE UNCHANGED vars
  BY <1>3 DEF vars, ShowsLive
<1> QED BY <1>1, <1>2, <1>3 DEF Next

(* A refreshed store shows the live document and its references (refresh,   *)
(* observe), under an id at most one geometry revision ahead of the         *)
(* bridge's, whatever the values, the counters and the retention.           *)
THEOREM RefreshedShowsLive == Spec => []ShowsLive
BY InitShows, ShowsInductive, PTL DEF Spec

-----------------------------------------------------------------------------
(* Ids the store made up.                                                  *)

(* What the bridge's observers report of a content.                         *)
SameReported(c, d) == \A a \in {"shape", "label", "selection"} : c[a] = d[a]

NotAhead(a, b) ==
  /\ a.geometry <= b.geometry
  /\ a.metadata <= b.metadata
  /\ a.focus <= b.focus
  /\ a.view <= b.view

LiveTypes == live.rev \in Revisions /\ live.content \in Contents

(* References are made by the bridge alone: what was compiled under its     *)
(* counters as they are now is what the document is now, and nothing was    *)
(* compiled under counters it has not reached.                              *)
ReferencesAreTheBridges ==
  \A g \in issued :
    /\ g.refs \in Revisions /\ NotAhead(g.refs, live.rev)
    /\ g.refs = live.rev => SameReported(g.content, live.content)

(* So references under one revision stand for one reported content, made-up *)
(* ids or not.                                                              *)
ReferencesIdentify ==
  \A g, h \in issued : g.refs = h.refs => SameReported(g.content, h.content)

IInv == LiveTypes /\ ReferencesAreTheBridges /\ ReferencesIdentify

LEMMA InitIInv == Init => IInv
<1> SUFFICES ASSUME Init PROVE IInv
  OBVIOUS
<1>1. LiveTypes
  BY StoreAssumption DEF Init, LiveTypes, Contents
<1>2. issued = {Compiled(live)}
  BY DEF Init, StoreInit
<1>3. \A g \in issued : g.refs = live.rev /\ g.content = live.content
  BY <1>2 DEF Compiled
<1>4. NotAhead(live.rev, live.rev)
  BY <1>1 DEF LiveTypes, NotAhead, Revisions
<1> QED BY <1>1, <1>3, <1>4
     DEF IInv, LiveTypes, ReferencesAreTheBridges, ReferencesIdentify,
         SameReported

(* A reported change takes the bridge to counters it has not had.           *)
LEMMA LiveChangeStep == ASSUME IInv, LiveChange PROVE IInv'
<1>1. PICK a \in {"shape", "label", "selection"}, v \in Values :
        /\ live' = [rev |-> [live.rev EXCEPT ![Counter(a)] = @ + 1],
                    content |-> [live.content EXCEPT ![a] = v]]
        /\ UNCHANGED storeVars
  BY DEF LiveChange
<1>2. /\ live'.rev = [live.rev EXCEPT ![Counter(a)] = @ + 1]
      /\ live'.content = [live.content EXCEPT ![a] = v]
      /\ issued' = issued
  BY <1>1 DEF storeVars
<1>3. live.rev \in Revisions /\ live.content \in Contents
  BY DEF IInv, LiveTypes
<1>4. \/ live'.rev = [live.rev EXCEPT !.geometry = @ + 1]
      \/ live'.rev = [live.rev EXCEPT !.metadata = @ + 1]
      \/ live'.rev = [live.rev EXCEPT !.focus = @ + 1]
  BY <1>2 DEF Counter
<1>5. /\ live'.rev \in Revisions
      /\ \A r \in Revisions :
           NotAhead(r, live.rev) => NotAhead(r, live'.rev) /\ r # live'.rev
  BY <1>3, <1>4 DEF Revisions, NotAhead
<1>6. live'.content \in Contents
  BY <1>2, <1>3 DEF Contents
<1>7. LiveTypes'
  BY <1>5, <1>6 DEF LiveTypes
<1>8. ReferencesAreTheBridges'
  BY <1>2, <1>5 DEF IInv, ReferencesAreTheBridges
<1>9. ReferencesIdentify'
  BY <1>2 DEF IInv, ReferencesIdentify, SameReported
<1> QED BY <1>7, <1>8, <1>9 DEF IInv

(* The camera moves under the same counters, and is not reported.           *)
LEMMA LiveSilentStep == ASSUME IInv, LiveSilent PROVE IInv'
<1>1. PICK v \in Values : live' = [live EXCEPT !.content["view"] = v]
  BY DEF LiveSilent
<1>2. issued' = issued
  BY DEF LiveSilent, storeVars
<1>3. live.rev \in Revisions /\ live.content \in Contents
  BY DEF IInv, LiveTypes
<1>4. live'.rev = live.rev
  BY <1>1
<1>5. live'.content = [live.content EXCEPT !["view"] = v]
  BY <1>1
<1>6. /\ live'.content \in Contents
      /\ SameReported(live.content, live'.content)
  BY <1>3, <1>5 DEF Contents, Aspects, SameReported
<1>7. LiveTypes'
  BY <1>3, <1>4, <1>6 DEF LiveTypes
<1>8. ReferencesAreTheBridges'
  BY <1>2, <1>4, <1>6 DEF IInv, ReferencesAreTheBridges, SameReported
<1>9. ReferencesIdentify'
  BY <1>2 DEF IInv, ReferencesIdentify, SameReported
<1> QED BY <1>7, <1>8, <1>9 DEF IInv

(* What a refresh publishes, under whatever id, has the bridge's references *)
(* and its content.                                                         *)
LEMMA RefreshStep == ASSUME IInv, Refresh PROVE IInv'
<1>1. live' = live
  BY DEF Refresh
<1>2. CASE UNCHANGED storeVars
  BY <1>1, <1>2 DEF storeVars, IInv, LiveTypes, ReferencesAreTheBridges,
                    ReferencesIdentify, SameReported
<1>3. CASE Observe(Compiled(live))
  <2>1. PICK new : new = ObservedAs(Compiled(live))
    OBVIOUS
  <2>2. issued' = issued \cup {new}
    BY <1>3, <2>1 DEF Observe, Publish
  <2>3. new.refs = live.rev /\ new.content = live.content
    BY <2>1 DEF ObservedAs, Compiled
  <2>4. live.rev \in Revisions /\ NotAhead(live.rev, live.rev)
    BY DEF IInv, LiveTypes, NotAhead, Revisions
  <2>5. ReferencesAreTheBridges'
    BY <1>1, <2>2, <2>3, <2>4
    DEF IInv, ReferencesAreTheBridges, SameReported
  <2>6. ReferencesIdentify'
    <3>1. \A g \in issued :
            g.refs = new.refs => SameReported(g.content, new.content)
      BY <2>3 DEF IInv, ReferencesAreTheBridges
    <3> QED BY <2>2, <3>1 DEF IInv, ReferencesIdentify, SameReported
  <2>7. LiveTypes'
    BY <1>1 DEF IInv, LiveTypes
  <2> QED BY <2>5, <2>6, <2>7 DEF IInv
<1> QED BY <1>2, <1>3 DEF Refresh

LEMMA Inductive == IInv /\ [Next]_vars => IInv'
<1> SUFFICES ASSUME IInv, [Next]_vars PROVE IInv'
  OBVIOUS
<1>1. CASE UNCHANGED vars
  BY <1>1 DEF vars, IInv, LiveTypes, ReferencesAreTheBridges,
              ReferencesIdentify, SameReported
<1> QED BY <1>1, LiveChangeStep, LiveSilentStep, RefreshStep DEF Next

(* Two graphs published under one id differ in what the bridge counts only  *)
(* if the store made that id up for one of them, and then its references    *)
(* tell it apart (observe, compile_snapshot).                               *)
THEOREM CollisionsCarryOtherReferences == Spec => []CollisionsAreMadeUp
<1>1. IInv => CollisionsAreMadeUp
  BY DEF IInv, ReferencesIdentify, SameReported, CollisionsAreMadeUp
<1> QED BY <1>1, InitIInv, Inductive, PTL DEF Spec

=============================================================================
