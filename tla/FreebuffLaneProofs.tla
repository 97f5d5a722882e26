----------------------- MODULE FreebuffLaneProofs -----------------------
(***************************************************************************)
(* What FreebuffLane promises for any number of actors and requests: the   *)
(* lease is given back, it keeps other actors out, and a request that has  *)
(* the account to itself chats on its own session.                         *)
(***************************************************************************)
EXTENDS FreebuffLane, TLAPS

\* A held lease has somebody in service.  A file that is locked before the flag says so is
\* held by a request between TryLock and Mark.
LeaseInv ==
  \A a \in Actors :
    /\ locked[a] => \E r \in Requests : on[r] = a /\ InService(r)
    /\ fileOwner = a /\ ~locked[a] => \E r \in Requests : on[r] = a /\ rpc[r] = "mark"

\* Whoever is in service beside another knows it: both are disturbed, and if they share an
\* actor, it has let requests overlap.
AloneInv ==
  \A r, q \in Requests :
    r # q /\ InService(r) /\ InService(q) =>
      /\ r \in disturbed
      /\ on[r] = on[q] => on[r] \in overlapped

\* An actor whose requests have not overlapped holds the file while it serves.
OwnerInv ==
  \A r \in Requests : InService(r) /\ on[r] \notin overlapped => fileOwner = on[r]

\* What Bind adopts is a session.
AdoptInv == \A r \in Requests : rpc[r] = "adopt" => seen[r] \in Sessions

\* What an undisturbed request learned of the account's session still holds, unless an answer
\* has misled it; an actor that knows of no session has its request bind one.
TrackInv ==
  \A r \in Requests \ disturbed :
    /\ rpc[r] = "apply" =>
         seen[r] = session \/ (seen[r] = None
                               /\ (r \in misled \/ known[on[r]] \in {NoSession, session}))
    /\ rpc[r] = "adopt" => seen[r] = session /\ session.model = asked[r].model
    /\ rpc[r] \in {"sign", "choose"} => r \in misled \/ known[on[r]] \in {NoSession, session}
    /\ rpc[r] = "prepare" =>
         r \in misled \/ (known[on[r]] = session /\ session.model = asked[r].model)
    /\ rpc[r] = "chat" => r \in misled \/ session = Session(carried[r], asked[r].model)

IInv == TypeOK /\ LeaseInv /\ AloneInv /\ OwnerInv /\ AdoptInv /\ TrackInv

-----------------------------------------------------------------------------
LEMMA SessionFacts ==
  /\ NoSession \in Sessions /\ None \notin Sessions
  /\ \A s \in Sessions : s.id \in 0..MaxIds /\ s.model \in Models \cup {None}
                         /\ s = Session(s.id, s.model)
<1>1. \A s \in Sessions : s = [id |-> s.id, model |-> s.model] /\ s.id \in 0..MaxIds
                          /\ s.model \in Models \cup {None}
  BY LaneAssumption DEF Sessions, NoSession, Session
<1>2. Sessions \subseteq [id : Nat, model : Models \cup {None}]
  BY LaneAssumption DEF Sessions, NoSession, Session
<1>3. QED
  BY <1>1, <1>2, LaneAssumption DEF Sessions, NoSession, Session

LEMMA CopyFacts ==
  /\ Sessions \subseteq Copies
  /\ \A c \in Copies : c.id \in 0..MaxIds
  /\ \A c \in Copies, m \in Models : [c EXCEPT !.model = m] \in Copies
BY LaneAssumption DEF Sessions, NoSession, Session, Copies

LEMMA NewSession ==
  /\ NoSession.id = 0
  /\ \A i \in 1..MaxIds, m \in Models :
       Session(i, m) \in Sessions /\ Session(i, m).id = i /\ Session(i, m).model = m
BY DEF Sessions, NoSession, Session

LEMMA InitInv == Init => IInv
<1> SUFFICES ASSUME Init PROVE IInv
  OBVIOUS
<1>1. session \in Sessions /\ minted \in 0..MaxIds /\ session.id <= minted
  BY LaneAssumption, SessionFacts DEF Init, Sessions, NoSession, Session
<1>2. TypeOK
  BY <1>1, LaneAssumption, SessionFacts, CopyFacts DEF Init, TypeOK, Pcs, NoAsk
<1>3. LeaseInv /\ AloneInv /\ OwnerInv /\ AdoptInv /\ TrackInv
  BY LaneAssumption DEF Init, LeaseInv, AloneInv, OwnerInv, AdoptInv, TrackInv, InService,
     ServicePcs, LifecyclePcs, ChatPcs
<1>4. QED
  BY <1>2, <1>3 DEF IInv

LEMMA TypeStep == TypeOK /\ AdoptInv /\ [Next]_vars => TypeOK'
<1> SUFFICES ASSUME TypeOK, AdoptInv, [Next]_vars PROVE TypeOK'
  OBVIOUS
<1> USE LaneAssumption DEF Goto, actorVars, upVars, workVars, reqVars, histVars, TypeOK, Pcs, ServicePcs, LifecyclePcs, ChatPcs, AdoptInv
<1>1. ASSUME NEW r \in Requests, Arrive(r) PROVE TypeOK'
  BY <1>1 DEF Arrive
<1>2. ASSUME NEW r \in Requests, FoundLocked(r) PROVE TypeOK'
  BY <1>2 DEF FoundLocked, LetIn, Others
<1>3. ASSUME NEW r \in Requests, NotLocked(r) PROVE TypeOK'
  BY <1>3 DEF NotLocked
<1>4. ASSUME NEW r \in Requests, TryLock(r) PROVE TypeOK'
  <2>1. overlapped' \subseteq Actors /\ disturbed' \subseteq Requests /\ misled' \subseteq Requests
    BY <1>4 DEF TryLock, LetIn, Others
  <2>2. QED
    BY <1>4, <2>1 DEF TryLock
<1>5. ASSUME NEW r \in Requests, Mark(r) PROVE TypeOK'
  BY <1>5 DEF Mark
<1>6. ASSUME NEW r \in Requests, GiveUp(r) PROVE TypeOK'
  BY <1>6 DEF GiveUp, Forget
<1>7. ASSUME NEW r \in Requests, LifecycleFails(r) PROVE TypeOK'
  BY <1>7 DEF LifecycleFails, Leave
<1>8. ASSUME NEW r \in Requests, AskSession(r) PROVE TypeOK'
  BY <1>8 DEF AskSession
<1>9. ASSUME NEW r \in Requests, Reconcile(r) PROVE TypeOK'
  BY <1>9, CopyFacts DEF Reconcile, Know
<1>10. ASSUME NEW r \in Requests, Sign(r) PROVE TypeOK'
  BY <1>10 DEF Sign
<1>11. ASSUME NEW r \in Requests, Choose(r) PROVE TypeOK'
  BY <1>11 DEF Choose, Preparation
<1>12. ASSUME NEW r \in Requests, EndSession(r) PROVE TypeOK'
  BY <1>12, SessionFacts, NewSession DEF EndSession
<1>13. ASSUME NEW r \in Requests, DeleteSession(r) PROVE TypeOK'
  BY <1>13, SessionFacts, CopyFacts DEF DeleteSession, Know
<1>14. ASSUME NEW r \in Requests, DeleteIgnored(r) PROVE TypeOK'
  BY <1>14 DEF DeleteIgnored
<1>15. ASSUME NEW r \in Requests, OpenSession(r) PROVE TypeOK'
  <2>1. minted + 1 \in 1..MaxIds /\ asked[r].model \in Models
    BY <1>15 DEF OpenSession
  <2>2. session' \in Sessions /\ session'.id = minted + 1 /\ minted' = minted + 1
    BY <1>15, <2>1, NewSession DEF OpenSession
  <2>3. QED
    BY <1>15, <2>1, <2>2 DEF OpenSession
<1>16. ASSUME NEW r \in Requests, Conflict(r) PROVE TypeOK'
  BY <1>16 DEF Conflict
<1>17. ASSUME NEW r \in Requests, Bind(r) PROVE TypeOK'
  BY <1>17, CopyFacts DEF Bind, Know
<1>18. ASSUME NEW r \in Requests, Prepare(r) PROVE TypeOK'
  <2>1. known[on[r]].id \in 0..MaxIds
    BY <1>18, CopyFacts DEF Prepare
  <2>2. QED
    BY <1>18, <2>1 DEF Prepare
<1>19. ASSUME NEW r \in Requests, ChatEnds(r) PROVE TypeOK'
  BY <1>19 DEF ChatEnds, Leave
<1>20. ASSUME NEW r \in Requests, ChatFails(r) PROVE TypeOK'
  BY <1>20 DEF ChatFails, Leave, AfterChatError
<1>21. ASSUME NEW r \in Requests, FinishRun(r) PROVE TypeOK'
  BY <1>21 DEF FinishRun
<1>22. ASSUME NEW r \in Requests, Release(r) PROVE TypeOK'
  BY <1>22 DEF Release, Forget, Unlock
<1>23. ASSUME NEW a \in Actors, BeatAsk(a) PROVE TypeOK'
  BY <1>23 DEF BeatAsk
<1>24. ASSUME NEW a \in Actors, BeatAdopt(a) PROVE TypeOK'
  BY <1>24, CopyFacts DEF BeatAdopt
<1>25. CASE SessionExpires
  BY <1>25, SessionFacts, NewSession DEF SessionExpires
<1>26. CASE UNCHANGED vars
  BY <1>26 DEF vars
<1>27. ASSUME NEW r \in Requests, BindUnnamed(r) PROVE TypeOK'
  <2>1. on[r] \in Actors /\ asked[r].model \in Models
    BY <1>27 DEF BindUnnamed
  <2>2. known' \in [Actors -> Copies]
    BY <1>27, <2>1, CopyFacts DEF BindUnnamed, Know
  <2>3. QED
    BY <1>27, <2>2 DEF BindUnnamed
<1>28. QED
  BY <1>1, <1>2, <1>3, <1>4, <1>5, <1>6, <1>7, <1>8, <1>9, <1>10, <1>11, <1>12, <1>13, <1>14, <1>15, <1>16, <1>17, <1>18, <1>19, <1>20, <1>21, <1>22, <1>23, <1>24, <1>25, <1>26, <1>27 DEF Next

LEMMA LeaseStep == TypeOK /\ LeaseInv /\ [Next]_vars => LeaseInv'
<1> SUFFICES ASSUME TypeOK, LeaseInv, [Next]_vars PROVE LeaseInv'
  OBVIOUS
<1> USE LaneAssumption DEF Goto, actorVars, upVars, workVars, reqVars, histVars, InService, ServicePcs, LifecyclePcs, ChatPcs, TypeOK, LeaseInv
<1>1. ASSUME NEW r \in Requests, Arrive(r) PROVE LeaseInv'
  BY <1>1 DEF Arrive
<1>2. ASSUME NEW r \in Requests, FoundLocked(r) PROVE LeaseInv'
  BY <1>2 DEF FoundLocked
<1>3. ASSUME NEW r \in Requests, NotLocked(r) PROVE LeaseInv'
  BY <1>3 DEF NotLocked
<1>4. ASSUME NEW r \in Requests, TryLock(r) PROVE LeaseInv'
  BY <1>4 DEF TryLock
<1>5. ASSUME NEW r \in Requests, Mark(r) PROVE LeaseInv'
  BY <1>5 DEF Mark
<1>6. ASSUME NEW r \in Requests, GiveUp(r) PROVE LeaseInv'
  BY <1>6 DEF GiveUp, Forget
<1>7. ASSUME NEW r \in Requests, LifecycleFails(r) PROVE LeaseInv'
  BY <1>7 DEF LifecycleFails, Leave
<1>8. ASSUME NEW r \in Requests, AskSession(r) PROVE LeaseInv'
  BY <1>8 DEF AskSession
<1>9. ASSUME NEW r \in Requests, Reconcile(r) PROVE LeaseInv'
  BY <1>9 DEF Reconcile, Know
<1>10. ASSUME NEW r \in Requests, Sign(r) PROVE LeaseInv'
  BY <1>10 DEF Sign
<1>11. ASSUME NEW r \in Requests, Choose(r) PROVE LeaseInv'
  BY <1>11 DEF Choose, Preparation
<1>12. ASSUME NEW r \in Requests, EndSession(r) PROVE LeaseInv'
  BY <1>12 DEF EndSession
<1>13. ASSUME NEW r \in Requests, DeleteSession(r) PROVE LeaseInv'
  BY <1>13 DEF DeleteSession, Know
<1>14. ASSUME NEW r \in Requests, DeleteIgnored(r) PROVE LeaseInv'
  BY <1>14 DEF DeleteIgnored
<1>15. ASSUME NEW r \in Requests, OpenSession(r) PROVE LeaseInv'
  BY <1>15 DEF OpenSession, Session
<1>16. ASSUME NEW r \in Requests, Conflict(r) PROVE LeaseInv'
  BY <1>16 DEF Conflict
<1>17. ASSUME NEW r \in Requests, Bind(r) PROVE LeaseInv'
  BY <1>17 DEF Bind, Know
<1>18. ASSUME NEW r \in Requests, Prepare(r) PROVE LeaseInv'
  BY <1>18 DEF Prepare
<1>19. ASSUME NEW r \in Requests, ChatEnds(r) PROVE LeaseInv'
  BY <1>19 DEF ChatEnds, Leave
<1>20. ASSUME NEW r \in Requests, ChatFails(r) PROVE LeaseInv'
  BY <1>20 DEF ChatFails, Leave, AfterChatError
<1>21. ASSUME NEW r \in Requests, FinishRun(r) PROVE LeaseInv'
  BY <1>21 DEF FinishRun
<1>22. ASSUME NEW r \in Requests, Release(r) PROVE LeaseInv'
  BY <1>22 DEF Release, Forget, Unlock
<1>23. ASSUME NEW a \in Actors, BeatAsk(a) PROVE LeaseInv'
  BY <1>23 DEF BeatAsk
<1>24. ASSUME NEW a \in Actors, BeatAdopt(a) PROVE LeaseInv'
  BY <1>24 DEF BeatAdopt
<1>25. CASE SessionExpires
  BY <1>25 DEF SessionExpires
<1>26. CASE UNCHANGED vars
  BY <1>26 DEF vars
<1>27. ASSUME NEW r \in Requests, BindUnnamed(r) PROVE LeaseInv'
  BY <1>27 DEF BindUnnamed, Know
<1>28. QED
  BY <1>1, <1>2, <1>3, <1>4, <1>5, <1>6, <1>7, <1>8, <1>9, <1>10, <1>11, <1>12, <1>13, <1>14, <1>15, <1>16, <1>17, <1>18, <1>19, <1>20, <1>21, <1>22, <1>23, <1>24, <1>25, <1>26, <1>27 DEF Next

LEMMA AloneStep == TypeOK /\ AloneInv /\ [Next]_vars => AloneInv'
<1> SUFFICES ASSUME TypeOK, AloneInv, [Next]_vars PROVE AloneInv'
  OBVIOUS
<1> USE LaneAssumption DEF Goto, actorVars, upVars, workVars, reqVars, histVars, InService, ServicePcs, LifecyclePcs, ChatPcs, TypeOK, AloneInv, Others, LetIn
<1>1. ASSUME NEW r \in Requests, Arrive(r) PROVE AloneInv'
  BY <1>1 DEF Arrive
<1>2. ASSUME NEW r \in Requests, FoundLocked(r) PROVE AloneInv'
  BY <1>2 DEF FoundLocked
<1>3. ASSUME NEW r \in Requests, NotLocked(r) PROVE AloneInv'
  BY <1>3 DEF NotLocked
<1>4. ASSUME NEW r \in Requests, TryLock(r) PROVE AloneInv'
  BY <1>4 DEF TryLock
<1>5. ASSUME NEW r \in Requests, Mark(r) PROVE AloneInv'
  BY <1>5 DEF Mark
<1>6. ASSUME NEW r \in Requests, GiveUp(r) PROVE AloneInv'
  BY <1>6 DEF GiveUp, Forget
<1>7. ASSUME NEW r \in Requests, LifecycleFails(r) PROVE AloneInv'
  BY <1>7 DEF LifecycleFails, Leave
<1>8. ASSUME NEW r \in Requests, AskSession(r) PROVE AloneInv'
  BY <1>8 DEF AskSession
<1>9. ASSUME NEW r \in Requests, Reconcile(r) PROVE AloneInv'
  BY <1>9 DEF Reconcile, Know
<1>10. ASSUME NEW r \in Requests, Sign(r) PROVE AloneInv'
  BY <1>10 DEF Sign
<1>11. ASSUME NEW r \in Requests, Choose(r) PROVE AloneInv'
  BY <1>11 DEF Choose, Preparation
<1>12. ASSUME NEW r \in Requests, EndSession(r) PROVE AloneInv'
  BY <1>12 DEF EndSession
<1>13. ASSUME NEW r \in Requests, DeleteSession(r) PROVE AloneInv'
  BY <1>13 DEF DeleteSession, Know
<1>14. ASSUME NEW r \in Requests, DeleteIgnored(r) PROVE AloneInv'
  BY <1>14 DEF DeleteIgnored
<1>15. ASSUME NEW r \in Requests, OpenSession(r) PROVE AloneInv'
  BY <1>15 DEF OpenSession, Session
<1>16. ASSUME NEW r \in Requests, Conflict(r) PROVE AloneInv'
  BY <1>16 DEF Conflict
<1>17. ASSUME NEW r \in Requests, Bind(r) PROVE AloneInv'
  BY <1>17 DEF Bind, Know
<1>18. ASSUME NEW r \in Requests, Prepare(r) PROVE AloneInv'
  BY <1>18 DEF Prepare
<1>19. ASSUME NEW r \in Requests, ChatEnds(r) PROVE AloneInv'
  BY <1>19 DEF ChatEnds, Leave
<1>20. ASSUME NEW r \in Requests, ChatFails(r) PROVE AloneInv'
  BY <1>20 DEF ChatFails, Leave, AfterChatError
<1>21. ASSUME NEW r \in Requests, FinishRun(r) PROVE AloneInv'
  BY <1>21 DEF FinishRun
<1>22. ASSUME NEW r \in Requests, Release(r) PROVE AloneInv'
  BY <1>22 DEF Release, Forget, Unlock
<1>23. ASSUME NEW a \in Actors, BeatAsk(a) PROVE AloneInv'
  BY <1>23 DEF BeatAsk
<1>24. ASSUME NEW a \in Actors, BeatAdopt(a) PROVE AloneInv'
  BY <1>24 DEF BeatAdopt
<1>25. CASE SessionExpires
  BY <1>25 DEF SessionExpires
<1>26. CASE UNCHANGED vars
  BY <1>26 DEF vars
<1>27. ASSUME NEW r \in Requests, BindUnnamed(r) PROVE AloneInv'
  BY <1>27 DEF BindUnnamed, Know
<1>28. QED
  BY <1>1, <1>2, <1>3, <1>4, <1>5, <1>6, <1>7, <1>8, <1>9, <1>10, <1>11, <1>12, <1>13, <1>14, <1>15, <1>16, <1>17, <1>18, <1>19, <1>20, <1>21, <1>22, <1>23, <1>24, <1>25, <1>26, <1>27 DEF Next

LEMMA OwnerStep == TypeOK /\ LeaseInv /\ AloneInv /\ OwnerInv /\ [Next]_vars => OwnerInv'
<1> SUFFICES ASSUME TypeOK, LeaseInv, AloneInv, OwnerInv, [Next]_vars PROVE OwnerInv'
  OBVIOUS
<1> USE LaneAssumption DEF Goto, actorVars, upVars, workVars, reqVars, histVars, InService, ServicePcs, LifecyclePcs, ChatPcs, TypeOK, OwnerInv, Others, LetIn
<1>1. ASSUME NEW r \in Requests, Arrive(r) PROVE OwnerInv'
  BY <1>1 DEF Arrive
<1>2. ASSUME NEW r \in Requests, FoundLocked(r) PROVE OwnerInv'
  <2>1. PICK q \in Requests : on[q] = on[r] /\ InService(q)
    BY <1>2 DEF FoundLocked, LeaseInv
  <2>2. q \in Others(r) /\ overlapped' = overlapped \cup {on[r]}
    BY <1>2, <2>1 DEF FoundLocked
  <2>3. QED
    BY <1>2, <2>2 DEF FoundLocked
<1>3. ASSUME NEW r \in Requests, NotLocked(r) PROVE OwnerInv'
  BY <1>3 DEF NotLocked
<1>4. ASSUME NEW r \in Requests, TryLock(r) PROVE OwnerInv'
  <2>1. overlapped \subseteq overlapped' /\ on[r] \in Actors
    BY <1>4 DEF TryLock
  <2>2. ASSUME NEW q \in Requests, q # r, InService(q), on[q] \notin overlapped'
        PROVE  fileOwner' = on[q]
    <3>1. fileOwner = on[q] /\ on[q] \in Actors
      BY <2>1, <2>2
    <3>2. on[q] = on[r]
      BY <1>4, <3>1 DEF TryLock, Lockable
    <3>3. QED
      BY <1>4, <3>2 DEF TryLock
  <2>3. \A q \in Requests : q # r /\ InService(q)' => InService(q)
    BY <1>4 DEF TryLock
  <2>4. QED
    BY <1>4, <2>2, <2>3 DEF TryLock
<1>5. ASSUME NEW r \in Requests, Mark(r) PROVE OwnerInv'
  BY <1>5 DEF Mark
<1>6. ASSUME NEW r \in Requests, GiveUp(r) PROVE OwnerInv'
  BY <1>6 DEF GiveUp, Forget
<1>7. ASSUME NEW r \in Requests, LifecycleFails(r) PROVE OwnerInv'
  BY <1>7 DEF LifecycleFails, Leave
<1>8. ASSUME NEW r \in Requests, AskSession(r) PROVE OwnerInv'
  BY <1>8 DEF AskSession
<1>9. ASSUME NEW r \in Requests, Reconcile(r) PROVE OwnerInv'
  BY <1>9 DEF Reconcile, Know
<1>10. ASSUME NEW r \in Requests, Sign(r) PROVE OwnerInv'
  BY <1>10 DEF Sign
<1>11. ASSUME NEW r \in Requests, Choose(r) PROVE OwnerInv'
  BY <1>11 DEF Choose, Preparation
<1>12. ASSUME NEW r \in Requests, EndSession(r) PROVE OwnerInv'
  BY <1>12 DEF EndSession
<1>13. ASSUME NEW r \in Requests, DeleteSession(r) PROVE OwnerInv'
  BY <1>13 DEF DeleteSession, Know
<1>14. ASSUME NEW r \in Requests, DeleteIgnored(r) PROVE OwnerInv'
  BY <1>14 DEF DeleteIgnored
<1>15. ASSUME NEW r \in Requests, OpenSession(r) PROVE OwnerInv'
  BY <1>15 DEF OpenSession, Session
<1>16. ASSUME NEW r \in Requests, Conflict(r) PROVE OwnerInv'
  BY <1>16 DEF Conflict
<1>17. ASSUME NEW r \in Requests, Bind(r) PROVE OwnerInv'
  BY <1>17 DEF Bind, Know
<1>18. ASSUME NEW r \in Requests, Prepare(r) PROVE OwnerInv'
  BY <1>18 DEF Prepare
<1>19. ASSUME NEW r \in Requests, ChatEnds(r) PROVE OwnerInv'
  BY <1>19 DEF ChatEnds, Leave
<1>20. ASSUME NEW r \in Requests, ChatFails(r) PROVE OwnerInv'
  BY <1>20 DEF ChatFails, Leave, AfterChatError
<1>21. ASSUME NEW r \in Requests, FinishRun(r) PROVE OwnerInv'
  BY <1>21 DEF FinishRun
<1>22. ASSUME NEW r \in Requests, Release(r) PROVE OwnerInv'
  <2> SUFFICES ASSUME NEW q \in Requests, InService(q)', on'[q] \notin overlapped'
               PROVE  fileOwner' = on'[q]
    OBVIOUS
  <2>1. q # r /\ InService(q) /\ on'[q] = on[q] /\ InService(r)
    BY <1>22 DEF Release, Forget
  <2>2. on[q] # on[r]
    BY <1>22, <2>1 DEF Release, Forget, AloneInv
  <2>3. on[q] \notin overlapped
    BY <1>22, <2>1, <2>2 DEF Release
  <2>4. QED
    BY <1>22, <2>1, <2>2, <2>3 DEF Release, Unlock
<1>23. ASSUME NEW a \in Actors, BeatAsk(a) PROVE OwnerInv'
  BY <1>23 DEF BeatAsk
<1>24. ASSUME NEW a \in Actors, BeatAdopt(a) PROVE OwnerInv'
  BY <1>24 DEF BeatAdopt
<1>25. CASE SessionExpires
  BY <1>25 DEF SessionExpires
<1>26. CASE UNCHANGED vars
  BY <1>26 DEF vars
<1>27. ASSUME NEW r \in Requests, BindUnnamed(r) PROVE OwnerInv'
  BY <1>27 DEF BindUnnamed, Know
<1>28. QED
  BY <1>1, <1>2, <1>3, <1>4, <1>5, <1>6, <1>7, <1>8, <1>9, <1>10, <1>11, <1>12, <1>13, <1>14, <1>15, <1>16, <1>17, <1>18, <1>19, <1>20, <1>21, <1>22, <1>23, <1>24, <1>25, <1>26, <1>27 DEF Next

LEMMA AdoptStep == TypeOK /\ AdoptInv /\ [Next]_vars => AdoptInv'
<1> SUFFICES ASSUME TypeOK, AdoptInv, [Next]_vars PROVE AdoptInv'
  OBVIOUS
<1> USE LaneAssumption DEF Goto, actorVars, upVars, workVars, reqVars, histVars, TypeOK, AdoptInv
<1>1. ASSUME NEW r \in Requests, Arrive(r) PROVE AdoptInv'
  BY <1>1 DEF Arrive
<1>2. ASSUME NEW r \in Requests, FoundLocked(r) PROVE AdoptInv'
  BY <1>2 DEF FoundLocked
<1>3. ASSUME NEW r \in Requests, NotLocked(r) PROVE AdoptInv'
  BY <1>3 DEF NotLocked
<1>4. ASSUME NEW r \in Requests, TryLock(r) PROVE AdoptInv'
  BY <1>4 DEF TryLock
<1>5. ASSUME NEW r \in Requests, Mark(r) PROVE AdoptInv'
  BY <1>5 DEF Mark
<1>6. ASSUME NEW r \in Requests, GiveUp(r) PROVE AdoptInv'
  BY <1>6 DEF GiveUp, Forget
<1>7. ASSUME NEW r \in Requests, LifecycleFails(r) PROVE AdoptInv'
  BY <1>7 DEF LifecycleFails, Leave
<1>8. ASSUME NEW r \in Requests, AskSession(r) PROVE AdoptInv'
  BY <1>8 DEF AskSession
<1>9. ASSUME NEW r \in Requests, Reconcile(r) PROVE AdoptInv'
  BY <1>9 DEF Reconcile, Know
<1>10. ASSUME NEW r \in Requests, Sign(r) PROVE AdoptInv'
  BY <1>10 DEF Sign
<1>11. ASSUME NEW r \in Requests, Choose(r) PROVE AdoptInv'
  BY <1>11 DEF Choose, Preparation
<1>12. ASSUME NEW r \in Requests, EndSession(r) PROVE AdoptInv'
  BY <1>12 DEF EndSession
<1>13. ASSUME NEW r \in Requests, DeleteSession(r) PROVE AdoptInv'
  BY <1>13 DEF DeleteSession, Know
<1>14. ASSUME NEW r \in Requests, DeleteIgnored(r) PROVE AdoptInv'
  BY <1>14 DEF DeleteIgnored
<1>15. ASSUME NEW r \in Requests, OpenSession(r) PROVE AdoptInv'
  <2>1. minted + 1 \in 1..MaxIds /\ asked[r].model \in Models
    BY <1>15 DEF OpenSession
  <2>2. seen' = [seen EXCEPT ![r] = session'] /\ session' \in Sessions
    BY <1>15, <2>1, NewSession DEF OpenSession
  <2>3. \A q \in Requests : q # r => rpc'[q] = rpc[q]
    BY <1>15 DEF OpenSession
  <2>4. QED
    BY <2>2, <2>3
<1>16. ASSUME NEW r \in Requests, Conflict(r) PROVE AdoptInv'
  BY <1>16 DEF Conflict
<1>17. ASSUME NEW r \in Requests, Bind(r) PROVE AdoptInv'
  BY <1>17 DEF Bind, Know
<1>18. ASSUME NEW r \in Requests, Prepare(r) PROVE AdoptInv'
  BY <1>18 DEF Prepare
<1>19. ASSUME NEW r \in Requests, ChatEnds(r) PROVE AdoptInv'
  BY <1>19 DEF ChatEnds, Leave
<1>20. ASSUME NEW r \in Requests, ChatFails(r) PROVE AdoptInv'
  BY <1>20 DEF ChatFails, Leave, AfterChatError
<1>21. ASSUME NEW r \in Requests, FinishRun(r) PROVE AdoptInv'
  BY <1>21 DEF FinishRun
<1>22. ASSUME NEW r \in Requests, Release(r) PROVE AdoptInv'
  BY <1>22 DEF Release, Forget, Unlock
<1>23. ASSUME NEW a \in Actors, BeatAsk(a) PROVE AdoptInv'
  BY <1>23 DEF BeatAsk
<1>24. ASSUME NEW a \in Actors, BeatAdopt(a) PROVE AdoptInv'
  BY <1>24 DEF BeatAdopt
<1>25. CASE SessionExpires
  BY <1>25 DEF SessionExpires
<1>26. CASE UNCHANGED vars
  BY <1>26 DEF vars
<1>27. ASSUME NEW r \in Requests, BindUnnamed(r) PROVE AdoptInv'
  BY <1>27 DEF BindUnnamed, Know
<1>28. QED
  BY <1>1, <1>2, <1>3, <1>4, <1>5, <1>6, <1>7, <1>8, <1>9, <1>10, <1>11, <1>12, <1>13, <1>14, <1>15, <1>16, <1>17, <1>18, <1>19, <1>20, <1>21, <1>22, <1>23, <1>24, <1>25, <1>26, <1>27 DEF Next

LEMMA TrackStep == TypeOK /\ AloneInv /\ AdoptInv /\ TrackInv /\ [Next]_vars => TrackInv'
<1> SUFFICES ASSUME TypeOK, AloneInv, AdoptInv, TrackInv, [Next]_vars PROVE TrackInv'
  OBVIOUS
<1> USE LaneAssumption DEF Goto, actorVars, upVars, workVars, reqVars, histVars, InService, ServicePcs, LifecyclePcs, ChatPcs, TypeOK, AloneInv, AdoptInv, TrackInv, Others, LetIn
<1>1. ASSUME NEW r \in Requests, Arrive(r) PROVE TrackInv'
  BY <1>1 DEF Arrive
<1>2. ASSUME NEW r \in Requests, FoundLocked(r) PROVE TrackInv'
  BY <1>2 DEF FoundLocked
<1>3. ASSUME NEW r \in Requests, NotLocked(r) PROVE TrackInv'
  BY <1>3 DEF NotLocked
<1>4. ASSUME NEW r \in Requests, TryLock(r) PROVE TrackInv'
  BY <1>4 DEF TryLock
<1>5. ASSUME NEW r \in Requests, Mark(r) PROVE TrackInv'
  BY <1>5 DEF Mark
<1>6. ASSUME NEW r \in Requests, GiveUp(r) PROVE TrackInv'
  BY <1>6 DEF GiveUp, Forget
<1>7. ASSUME NEW r \in Requests, LifecycleFails(r) PROVE TrackInv'
  BY <1>7 DEF LifecycleFails, Leave
<1>8. ASSUME NEW r \in Requests, AskSession(r) PROVE TrackInv'
  BY <1>8 DEF AskSession
<1>9. ASSUME NEW r \in Requests, Reconcile(r) PROVE TrackInv'
  <2>1. CASE r \in disturbed
    BY <1>9, <2>1 DEF Reconcile, Know
  <2>2. CASE r \notin disturbed
    <3>1. known'[on[r]] \in {NoSession, session} \/ r \in misled
      <4>1. CASE seen[r] = None
        BY <1>9, <2>2, <4>1, SessionFacts DEF Reconcile
      <4>2. CASE seen[r] # None
        BY <1>9, <2>2, <4>2 DEF Reconcile, Know
      <4>3. QED
        BY <4>1, <4>2
    <3>2. \A q \in Requests \ disturbed : q # r => ~InService(q)
      BY <1>9 DEF Reconcile
    <3>3. QED
      BY <1>9, <2>2, <3>1, <3>2 DEF Reconcile
  <2>3. QED
    BY <2>1, <2>2
<1>10. ASSUME NEW r \in Requests, Sign(r) PROVE TrackInv'
  BY <1>10 DEF Sign
<1>11. ASSUME NEW r \in Requests, Choose(r) PROVE TrackInv'
  <2>1. NoSession.model = None /\ asked[r].model \in Models
    BY <1>11, NewSession DEF Choose, NoSession, Session
  <2>2. rpc'[r] = "prepare" => known[on[r]].model = asked[r].model /\ known[on[r]] # NoSession
    BY <1>11, <2>1 DEF Choose, Preparation
  <2>3. rpc'[r] \in {"prepare", "bind", "delete"}
    BY <1>11 DEF Choose, Preparation
  <2>4. QED
    BY <1>11, <2>2, <2>3 DEF Choose
<1>12. ASSUME NEW r \in Requests, EndSession(r) PROVE TrackInv'
  BY <1>12 DEF EndSession
<1>13. ASSUME NEW r \in Requests, DeleteSession(r) PROVE TrackInv'
  BY <1>13 DEF DeleteSession, Know
<1>14. ASSUME NEW r \in Requests, DeleteIgnored(r) PROVE TrackInv'
  BY <1>14 DEF DeleteIgnored
<1>15. ASSUME NEW r \in Requests, OpenSession(r) PROVE TrackInv'
  BY <1>15 DEF OpenSession, Session
<1>16. ASSUME NEW r \in Requests, Conflict(r) PROVE TrackInv'
  BY <1>16 DEF Conflict
<1>17. ASSUME NEW r \in Requests, Bind(r) PROVE TrackInv'
  BY <1>17 DEF Bind, Know
<1>18. ASSUME NEW r \in Requests, Prepare(r) PROVE TrackInv'
  <2>1. ASSUME r \notin disturbed, r \notin misled
        PROVE  session = Session(known[on[r]].id, asked[r].model)
    BY <1>18, <2>1, SessionFacts DEF Prepare
  <2>2. QED
    BY <1>18, <2>1 DEF Prepare
<1>19. ASSUME NEW r \in Requests, ChatEnds(r) PROVE TrackInv'
  BY <1>19 DEF ChatEnds, Leave
<1>20. ASSUME NEW r \in Requests, ChatFails(r) PROVE TrackInv'
  BY <1>20 DEF ChatFails, Leave, AfterChatError
<1>21. ASSUME NEW r \in Requests, FinishRun(r) PROVE TrackInv'
  BY <1>21 DEF FinishRun
<1>22. ASSUME NEW r \in Requests, Release(r) PROVE TrackInv'
  BY <1>22 DEF Release, Forget, Unlock
<1>23. ASSUME NEW a \in Actors, BeatAsk(a) PROVE TrackInv'
  BY <1>23 DEF BeatAsk
<1>24. ASSUME NEW a \in Actors, BeatAdopt(a) PROVE TrackInv'
  BY <1>24 DEF BeatAdopt
<1>25. CASE SessionExpires
  BY <1>25 DEF SessionExpires
<1>26. CASE UNCHANGED vars
  BY <1>26 DEF vars
<1>27. ASSUME NEW r \in Requests, BindUnnamed(r) PROVE TrackInv'
  BY <1>27 DEF BindUnnamed, Know
<1>28. QED
  BY <1>1, <1>2, <1>3, <1>4, <1>5, <1>6, <1>7, <1>8, <1>9, <1>10, <1>11, <1>12, <1>13, <1>14, <1>15, <1>16, <1>17, <1>18, <1>19, <1>20, <1>21, <1>22, <1>23, <1>24, <1>25, <1>26, <1>27 DEF Next

LEMMA Invariant == Spec => []IInv
<1>1. IInv /\ [Next]_vars => IInv'
  BY TypeStep, LeaseStep, AloneStep, OwnerStep, AdoptStep, TrackStep DEF IInv
<1>2. QED
  BY InitInv, <1>1, PTL DEF Spec

-----------------------------------------------------------------------------
\* Types, and whoever is not idle has a lane and something to ask.
THEOREM LaneTypeCorrect == Spec => []TypeOK
<1>1. IInv => TypeOK
  BY DEF IInv
<1>2. QED
  BY <1>1, Invariant, PTL

\* On every way out of a request the lease is given back: an actor without a request in
\* service holds neither the flag nor the file.
THEOREM LeaseIsReturned == Spec => []LeaseReturned
<1>1. IInv => LeaseReturned
  BY DEF IInv, LeaseInv, LeaseReturned, InService, ServicePcs
<1>2. QED
  BY <1>1, Invariant, PTL

\* Two actors serve at the same time only if one of them let two requests overlap.
THEOREM LeaseKeepsOut == Spec => []LeaseBetweenActors
<1>1. IInv => LeaseBetweenActors
  BY DEF IInv, OwnerInv, LeaseBetweenActors
<1>2. QED
  BY <1>1, Invariant, PTL

\* A request that has the account to itself chats on a live session of its model.
THEOREM ChatHasItsSession == Spec => []ChatOnOwnSession
<1>1. IInv => ChatOnOwnSession
  BY DEF IInv, TrackInv, ChatOnOwnSession
<1>2. QED
  BY <1>1, Invariant, PTL
=============================================================================
