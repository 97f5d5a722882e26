----------------------- MODULE CredentialManagerProofs -----------------------
(***************************************************************************)
(* Safety of CredentialManager for any set of goroutines and any bounds.   *)
(***************************************************************************)
EXTENDS CredentialManager, TLAPS

\* A goroutine in one of these steps has a credential in hand that was on disk.
DurablePcs == {"fill", "probe", "check", "recheck", "refresh", "reffail",
               "publish", "give", "got"}

\* Between the look at the cache and the flight the cache stays filled.
CachedPcs == {"probe", "check", "join", "latest"}

DurableInv ==
  /\ disk # None => disk.id \in durable
  /\ cache # None => cache.id \in durable
  /\ \A p \in Procs : pc[p] \in DurablePcs => cred[p].id \in durable
  /\ \A p \in Procs : pc[p] \in CachedPcs => cache # None

FlightInv ==
  /\ OneFlight
  /\ \A p \in Procs : leader = p => pc[p] \in FlightPcs \cup WritePcs

\* The check of persist holds until another rename overtakes it.
CheckedInv ==
  \A p \in Procs : pc[p] = "rename" /\ p \notin overtaken => ~Stale(cred[p])

IInv == TypeOK /\ DurableInv /\ FlightInv /\ CheckedInv

-----------------------------------------------------------------------------
LEMMA InitInv == Init => IInv
<1> SUFFICES ASSUME Init PROVE IInv
  OBVIOUS
<1> USE CredAssumption DEF Init
<1>1. TypeOK
  <2>1. MgrType
    <3>1. minted \in 0..MaxMint /\ 1..minted \subseteq 1..MaxMint
      OBVIOUS
    <3>2. disk \in Credentials \cup {None}
      BY DEF Credentials, Credential
    <3>3. life \in [1..MaxMint -> Life]
      BY DEF Life
    <3>4. hasRefresher \in BOOLEAN
      OBVIOUS
    <3>5. crashes \in 0..MaxCrash
      OBVIOUS
    <3>6. QED
      BY <3>1, <3>2, <3>3, <3>4, <3>5 DEF MgrType
  <2>2. ProcType
    BY DEF ProcType, Pcs, Idle
  <2>3. Holding
    BY DEF Holding, HoldingPcs, WritePcs, Idle
  <2>4. QED
    BY <2>1, <2>2, <2>3 DEF TypeOK
<1>2. DurableInv
  BY DEF DurableInv, Credential, DurablePcs, CachedPcs, Idle
<1>3. FlightInv
  BY DEF FlightInv, OneFlight, FlightPcs, WritePcs, Idle
<1>4. CheckedInv
  BY DEF CheckedInv, Idle
<1>5. QED
  BY <1>1, <1>2, <1>3, <1>4 DEF IInv

-----------------------------------------------------------------------------
LEMMA GrantedType ==
  ASSUME MgrType, NEW p \in Procs, NEW t \in 1..MaxMint, Granted(p, t)
  PROVE  minted' \in 1..MaxMint /\ minted' = minted + 1 /\ live' \subseteq 1..MaxMint /\ undercut' \in BOOLEAN
<1>1. minted \in 0..MaxMint /\ live \subseteq 1..MaxMint /\ undercut \in BOOLEAN
  BY DEF MgrType
<1>2. minted' \in 1..MaxMint /\ minted' = minted + 1
  BY <1>1, CredAssumption DEF Granted
<1>3. live' \subseteq 1..MaxMint
  BY <1>1 DEF Granted
<1>4. undercut' \in BOOLEAN
  BY <1>1 DEF Granted
<1>5. QED
  BY <1>2, <1>3, <1>4

LEMMA MintType ==
  ASSUME MgrType, NEW p \in Procs, NEW t \in 1..MaxMint, Granted(p, t), NEW c \in Credentials
  PROVE  Mint(t, c.gen + 1) \in Credentials
<1>1. minted + 1 \in 1..MaxMint
  BY GrantedType
<1>2. c.gen + 1 \in Nat
  BY DEF Credentials
<1>3. QED
  BY <1>1, <1>2 DEF Mint, Credential, Credentials

LEMMA MgrTypeStep == IInv /\ [Next]_vars => MgrType'
<1> SUFFICES ASSUME IInv, [Next]_vars PROVE MgrType'
  OBVIOUS
<1> USE CredAssumption DEF IInv, TypeOK, MgrType, mgrVars, procVars, tokVars, histVars
<1>1. CASE UNCHANGED <<mgrVars, hasRefresher, tokVars, histVars>>
  BY <1>1
<1>2. ASSUME NEW p \in Procs, StartLogin(p) PROVE MgrType'
  BY <1>2 DEF StartLogin
<1>3. ASSUME NEW p \in Procs, Rejected(p) PROVE MgrType'
  BY <1>3 DEF Rejected
<1>4. ASSUME NEW p \in Procs, FillCache(p) PROVE MgrType'
  BY <1>4 DEF FillCache, ProcType, Holding, HoldingPcs
<1>5. ASSUME NEW p \in Procs, Probe(p) PROVE MgrType'
  BY <1>5 DEF Probe
<1>6. ASSUME NEW p \in Procs, Join(p) PROVE MgrType'
  BY <1>6 DEF Join
<1>7. ASSUME NEW p \in Procs, RefreshOK(p) PROVE MgrType'
  <2>1. PICK t \in 1..MaxMint : Granted(p, t)
    BY <1>7 DEF RefreshOK
  <2>2. minted' \in 0..MaxMint /\ live' \subseteq 1..MaxMint /\ undercut' \in BOOLEAN
    BY <2>1, GrantedType
  <2>3. UNCHANGED <<mgrVars, hasRefresher, life, durable, overtaken, interrupted, crashes>>
    BY <1>7 DEF RefreshOK
  <2>4. QED
    BY <2>2, <2>3
<1>8. ASSUME NEW p \in Procs, RefreshAnswerLost(p) PROVE MgrType'
  <2>1. minted' \in 0..MaxMint /\ live' \subseteq 1..MaxMint /\ undercut' \in BOOLEAN
    BY <1>8, GrantedType DEF RefreshAnswerLost
  <2>2. interrupted' = TRUE /\ UNCHANGED <<mgrVars, hasRefresher, life, durable, overtaken, crashes>>
    BY <1>8 DEF RefreshAnswerLost
  <2>3. QED
    BY <2>1, <2>2
<1>9. ASSUME NEW p \in Procs, Rename(p) PROVE MgrType'
  BY <1>9 DEF Rename, ProcType, Holding, HoldingPcs, WritePcs, Credentials
<1>10. ASSUME NEW p \in Procs, PersistIOError(p) PROVE MgrType'
  BY <1>10 DEF PersistIOError
<1>11. ASSUME NEW p \in Procs, Publish(p) PROVE MgrType'
  BY <1>11 DEF Publish, ProcType, Holding, HoldingPcs, WritePcs
<1>12. ASSUME NEW p \in Procs, Give(p) PROVE MgrType'
  BY <1>12 DEF Give
<1>13. ASSUME NEW p \in Procs, Fail(p) PROVE MgrType'
  BY <1>13 DEF Fail
<1>14. ASSUME NEW i \in 1..MaxMint, Age(i) PROVE MgrType'
  BY <1>14 DEF Age, Life
<1>15. CASE Crash
  <2>1. interrupted' \in BOOLEAN
    BY <1>15 DEF Crash
  <2>2. crashes' \in 0..MaxCrash
    BY <1>15 DEF Crash
  <2>3. QED
    BY <1>15, <2>1, <2>2 DEF Crash
<1>16. CASE UNCHANGED vars
  BY <1>16 DEF vars
<1>17. ASSUME NEW p \in Procs, StartGet(p) \/ Accepted(p) \/ Resend(p) \/ ForceRefresh(p) \/ ReadCache(p) \/ LoadFromDisk(p) \/ CheckFresh(p) \/ FlightStart(p) \/ Recheck(p) \/ RefreshError(p) \/ RefreshFailed(p) \/ CheckGeneration(p) \/ RefusedStale(p) PROVE MgrType'
  BY <1>17, <1>1 DEF StartGet, Accepted, Resend, ForceRefresh, ReadCache, LoadFromDisk, CheckFresh, FlightStart, Recheck, RefreshError, RefreshFailed, CheckGeneration, RefusedStale
<1>18. QED
  BY <1>2, <1>3, <1>4, <1>5, <1>6, <1>7, <1>8, <1>9, <1>10, <1>11, <1>12, <1>13, <1>14, <1>15, <1>16, <1>17 DEF Next, Begin, Step

LEMMA ReturnType ==
  ASSUME ProcType, NEW p \in Procs, Return(p) PROVE ProcType'
  BY CredAssumption DEF ProcType, Return, Goto, Hold, Pcs

LEMMA ContinueType ==
  ASSUME ProcType, NEW p \in Procs, NEW w \in Pcs, Continue(p, w),
         UNCHANGED cred \/ \E c \in Credentials \cup {None} : Hold(p, c)
  PROVE  ProcType'
  BY DEF ProcType, Continue, Goto, Hold

LEMMA ProcTypeStep == IInv /\ [Next]_vars => ProcType'
<1> SUFFICES ASSUME IInv, [Next]_vars PROVE ProcType'
  OBVIOUS
<1> USE CredAssumption DEF IInv, TypeOK, MgrType, procVars, AllTasks, Retries, Idle
<1>1. ASSUME NEW p \in Procs, StartGet(p) PROVE ProcType'
  BY <1>1 DEF StartGet, LookupPcs, ProcType, Goto, Hold, Continue, Return, Pcs
<1>2. ASSUME NEW p \in Procs, StartLogin(p) PROVE ProcType'
  BY <1>2 DEF StartLogin, Mint, Credential, Credentials, EntryTasks, WritePcs, ProcType, Goto, Hold, Continue, Return, Pcs
<1>3. ASSUME NEW p \in Procs, Accepted(p) PROVE ProcType'
  BY <1>3 DEF Accepted, ProcType, Goto, Hold, Continue, Return, Pcs
<1>4. ASSUME NEW p \in Procs, Rejected(p) PROVE ProcType'
  BY <1>4 DEF Rejected, LookupPcs, Holding, HoldingPcs, Credentials, ProcType, Goto, Hold, Continue, Return, Pcs
<1>5. ASSUME NEW p \in Procs, Resend(p) PROVE ProcType'
  BY <1>5 DEF Resend, LookupPcs, ProcType, Goto, Hold, Continue, Return, Pcs
<1>6. ASSUME NEW p \in Procs, ForceRefresh(p) PROVE ProcType'
  BY <1>6 DEF ForceRefresh, WritePcs, ProcType, Goto, Hold, Continue, Return, Pcs
<1>7. ASSUME NEW p \in Procs, ReadCache(p) PROVE ProcType'
  <2>1. Looked(p) \in Pcs /\ "load" \in Pcs
    BY DEF Looked, Pcs, LookupPcs
  <2>2. QED
    BY <1>7, <2>1, ContinueType DEF ReadCache
<1>8. ASSUME NEW p \in Procs, LoadFromDisk(p) PROVE ProcType'
  <2>1. "fill" \in Pcs
    BY DEF Pcs, LookupPcs, FlightPcs
  <2>2. QED
    BY <1>8, <2>1, ReturnType, ContinueType DEF LoadFromDisk
<1>9. ASSUME NEW p \in Procs, FillCache(p) PROVE ProcType'
  BY <1>9 DEF FillCache, Looked, LookupPcs, ProcType, Goto, Hold, Continue, Return, Pcs
<1>10. ASSUME NEW p \in Procs, Probe(p) PROVE ProcType'
  <2>1. CASE Return(p)
    BY <2>1, ReturnType
  <2>2. CASE ~Return(p)
    BY <1>10, <2>2 DEF Probe, Return, Goto, Hold, ProcType, Pcs, LookupPcs
  <2>3. QED
    BY <2>1, <2>2
<1>11. ASSUME NEW p \in Procs, CheckFresh(p) PROVE ProcType'
  BY <1>11 DEF CheckFresh, LookupPcs, ProcType, Goto, Hold, Continue, Return, Pcs
<1>12. ASSUME NEW p \in Procs, Join(p) PROVE ProcType'
  BY <1>12 DEF Join, FlightPcs, ProcType, Goto, Hold, Continue, Return, Pcs
<1>13. ASSUME NEW p \in Procs, FlightStart(p) PROVE ProcType'
  BY <1>13 DEF FlightStart, FlightPcs, ProcType, Goto, Hold, Continue, Return, Pcs
<1>14. ASSUME NEW p \in Procs, Recheck(p) PROVE ProcType'
  BY <1>14 DEF Recheck, FlightPcs, WritePcs, ProcType, Goto, Hold, Continue, Return, Pcs
<1>15. ASSUME NEW p \in Procs, RefreshOK(p) PROVE ProcType'
  <2>1. "cas" \in Pcs
    BY DEF Pcs, WritePcs
  <2>2. PICK t \in 1..MaxMint : Granted(p, t) /\ Hold(p, Mint(t, cred[p].gen + 1))
    BY <1>15 DEF RefreshOK
  <2>3. cred[p] \in Credentials
    BY <1>15 DEF RefreshOK, Holding, HoldingPcs, WritePcs, ProcType
  <2>4. Mint(t, cred[p].gen + 1) \in Credentials
    BY <2>2, <2>3, MintType
  <2>5. QED
    BY <1>15, <2>1, <2>2, <2>4, ContinueType DEF RefreshOK
<1>16. ASSUME NEW p \in Procs, RefreshError(p) PROVE ProcType'
  <2>1. "reffail" \in Pcs
    BY DEF Pcs, LookupPcs, FlightPcs
  <2>2. QED
    BY <1>16, <2>1, ReturnType, ContinueType DEF RefreshError, RefresherFailed
<1>17. ASSUME NEW p \in Procs, RefreshAnswerLost(p) PROVE ProcType'
  <2>1. "reffail" \in Pcs
    BY DEF Pcs, LookupPcs, FlightPcs
  <2>2. QED
    BY <1>17, <2>1, ReturnType, ContinueType DEF RefreshAnswerLost, RefresherFailed
<1>18. ASSUME NEW p \in Procs, RefreshFailed(p) PROVE ProcType'
  BY <1>18 DEF RefreshFailed, FlightPcs, ProcType, Goto, Hold, Continue, Return, Pcs
<1>19. ASSUME NEW p \in Procs, CheckGeneration(p) PROVE ProcType'
  BY <1>19 DEF CheckGeneration, WritePcs, ProcType, Goto, Hold, Continue, Return, Pcs
<1>20. ASSUME NEW p \in Procs, RefusedStale(p) PROVE ProcType'
  <2>1. "fail" \in Pcs
    BY DEF Pcs, LookupPcs, FlightPcs
  <2>2. QED
    BY <1>20, <2>1, ReturnType, ContinueType DEF RefusedStale, PersistFailed
<1>21. ASSUME NEW p \in Procs, Rename(p) PROVE ProcType'
  BY <1>21 DEF Rename, WritePcs, ProcType, Goto, Hold, Continue, Return, Pcs
<1>22. ASSUME NEW p \in Procs, PersistIOError(p) PROVE ProcType'
  <2>1. "fail" \in Pcs
    BY DEF Pcs, LookupPcs, FlightPcs
  <2>2. QED
    BY <1>22, <2>1, ReturnType, ContinueType DEF PersistIOError, PersistFailed
<1>23. ASSUME NEW p \in Procs, Publish(p) PROVE ProcType'
  <2>1. "give" \in Pcs
    BY DEF Pcs, LookupPcs, FlightPcs
  <2>2. QED
    BY <1>23, <2>1, ReturnType, ContinueType DEF Publish
<1>24. ASSUME NEW p \in Procs, Give(p) PROVE ProcType'
  BY <1>24 DEF Give, ProcType, Goto, Hold, Continue, Return, Pcs
<1>25. ASSUME NEW p \in Procs, Fail(p) PROVE ProcType'
  BY <1>25 DEF Fail, ProcType, Goto, Hold, Continue, Return, Pcs
<1>26. ASSUME NEW i \in 1..MaxMint, Age(i) PROVE ProcType'
  BY <1>26 DEF Age, ProcType
<1>27. CASE Crash
  BY <1>27 DEF Crash, ProcType, Pcs
<1>28. CASE UNCHANGED vars
  BY <1>28 DEF vars, ProcType
<1>29. QED
  BY <1>1, <1>2, <1>3, <1>4, <1>5, <1>6, <1>7, <1>8, <1>9, <1>10, <1>11, <1>12, <1>13, <1>14, <1>15, <1>16, <1>17, <1>18, <1>19, <1>20, <1>21, <1>22, <1>23, <1>24, <1>25, <1>26, <1>27, <1>28 DEF Next, Begin, Step

LEMMA HoldingStep == IInv /\ [Next]_vars => Holding'
<1> SUFFICES ASSUME IInv, [Next]_vars PROVE Holding'
  OBVIOUS
<1> USE CredAssumption DEF IInv, TypeOK, MgrType, ProcType, Holding, Goto, Hold, Continue, Return, procVars, HoldingPcs, WritePcs, Idle
<1>1. ASSUME NEW p \in Procs, StartGet(p) PROVE Holding'
  BY <1>1 DEF StartGet
<1>2. ASSUME NEW p \in Procs, StartLogin(p) PROVE Holding'
  BY <1>2 DEF StartLogin, Mint, Credential, Credentials
<1>3. ASSUME NEW p \in Procs, Accepted(p) PROVE Holding'
  BY <1>3 DEF Accepted
<1>4. ASSUME NEW p \in Procs, Rejected(p) PROVE Holding'
  BY <1>4 DEF Rejected
<1>5. ASSUME NEW p \in Procs, Resend(p) PROVE Holding'
  BY <1>5 DEF Resend
<1>6. ASSUME NEW p \in Procs, ForceRefresh(p) PROVE Holding'
  BY <1>6 DEF ForceRefresh
<1>7. ASSUME NEW p \in Procs, ReadCache(p) PROVE Holding'
  BY <1>7 DEF ReadCache, Looked
<1>8. ASSUME NEW p \in Procs, LoadFromDisk(p) PROVE Holding'
  <2>1. CASE disk = None
    BY <1>8, <2>1 DEF LoadFromDisk
  <2>2. CASE disk # None
    BY <1>8, <2>2 DEF LoadFromDisk
  <2>3. QED
    BY <2>1, <2>2
<1>9. ASSUME NEW p \in Procs, FillCache(p) PROVE Holding'
  BY <1>9 DEF FillCache, Looked
<1>10. ASSUME NEW p \in Procs, Probe(p) PROVE Holding'
  BY <1>10 DEF Probe
<1>11. ASSUME NEW p \in Procs, CheckFresh(p) PROVE Holding'
  BY <1>11 DEF CheckFresh
<1>12. ASSUME NEW p \in Procs, Join(p) PROVE Holding'
  BY <1>12 DEF Join
<1>13. ASSUME NEW p \in Procs, FlightStart(p) PROVE Holding'
  BY <1>13 DEF FlightStart, DurableInv, CachedPcs
<1>14. ASSUME NEW p \in Procs, Recheck(p) PROVE Holding'
  BY <1>14 DEF Recheck
<1>15. ASSUME NEW p \in Procs, RefreshOK(p) PROVE Holding'
  <2>1. PICK t \in 1..MaxMint : Granted(p, t) /\ Hold(p, Mint(t, cred[p].gen + 1))
    BY <1>15 DEF RefreshOK
  <2>2. cred[p] \in Credentials
    BY <1>15 DEF RefreshOK
  <2>3. Mint(t, cred[p].gen + 1) \in Credentials
    BY <2>1, <2>2, MintType
  <2>4. Mint(t, cred[p].gen + 1) # None
    BY <2>3 DEF Credentials
  <2>5. QED
    BY <1>15, <2>1, <2>4 DEF RefreshOK
<1>16. ASSUME NEW p \in Procs, RefreshError(p) PROVE Holding'
  BY <1>16 DEF RefreshError, RefresherFailed
<1>17. ASSUME NEW p \in Procs, RefreshAnswerLost(p) PROVE Holding'
  BY <1>17 DEF RefreshAnswerLost, RefresherFailed
<1>18. ASSUME NEW p \in Procs, RefreshFailed(p) PROVE Holding'
  BY <1>18 DEF RefreshFailed
<1>19. ASSUME NEW p \in Procs, CheckGeneration(p) PROVE Holding'
  BY <1>19 DEF CheckGeneration
<1>20. ASSUME NEW p \in Procs, RefusedStale(p) PROVE Holding'
  BY <1>20 DEF RefusedStale, PersistFailed
<1>21. ASSUME NEW p \in Procs, Rename(p) PROVE Holding'
  BY <1>21 DEF Rename
<1>22. ASSUME NEW p \in Procs, PersistIOError(p) PROVE Holding'
  BY <1>22 DEF PersistIOError, PersistFailed
<1>23. ASSUME NEW p \in Procs, Publish(p) PROVE Holding'
  BY <1>23 DEF Publish
<1>24. ASSUME NEW p \in Procs, Give(p) PROVE Holding'
  BY <1>24 DEF Give
<1>25. ASSUME NEW p \in Procs, Fail(p) PROVE Holding'
  BY <1>25 DEF Fail
<1>26. ASSUME NEW i \in 1..MaxMint, Age(i) PROVE Holding'
  BY <1>26 DEF Age
<1>27. CASE Crash
  BY <1>27 DEF Crash
<1>28. CASE UNCHANGED vars
  BY <1>28 DEF vars
<1>29. QED
  BY <1>1, <1>2, <1>3, <1>4, <1>5, <1>6, <1>7, <1>8, <1>9, <1>10, <1>11, <1>12, <1>13, <1>14, <1>15, <1>16, <1>17, <1>18, <1>19, <1>20, <1>21, <1>22, <1>23, <1>24, <1>25, <1>26, <1>27, <1>28 DEF Next, Begin, Step

LEMMA DurableStep == IInv /\ [Next]_vars => DurableInv'
<1> SUFFICES ASSUME IInv, [Next]_vars PROVE DurableInv'
  OBVIOUS
<1> USE CredAssumption DEF IInv, TypeOK, MgrType, ProcType, DurableInv, DurablePcs, CachedPcs, Goto, Hold, Continue, Return, mgrVars, procVars, histVars, Idle
<1>1. ASSUME NEW p \in Procs, StartGet(p) PROVE DurableInv'
  BY <1>1 DEF StartGet
<1>2. ASSUME NEW p \in Procs, StartLogin(p) PROVE DurableInv'
  BY <1>2 DEF StartLogin
<1>3. ASSUME NEW p \in Procs, Accepted(p) PROVE DurableInv'
  BY <1>3 DEF Accepted
<1>4. ASSUME NEW p \in Procs, Rejected(p) PROVE DurableInv'
  BY <1>4 DEF Rejected
<1>5. ASSUME NEW p \in Procs, Resend(p) PROVE DurableInv'
  BY <1>5 DEF Resend
<1>6. ASSUME NEW p \in Procs, ForceRefresh(p) PROVE DurableInv'
  BY <1>6 DEF ForceRefresh
<1>7. ASSUME NEW p \in Procs, ReadCache(p) PROVE DurableInv'
  <2>1. CASE cache = None
    BY <1>7, <2>1 DEF ReadCache, Looked
  <2>2. CASE cache # None
    BY <1>7, <2>2 DEF ReadCache, Looked
  <2>3. QED
    BY <2>1, <2>2
<1>8. ASSUME NEW p \in Procs, LoadFromDisk(p) PROVE DurableInv'
  BY <1>8 DEF LoadFromDisk
<1>9. ASSUME NEW p \in Procs, FillCache(p) PROVE DurableInv'
  BY <1>9 DEF FillCache, Looked, Holding, HoldingPcs
<1>10. ASSUME NEW p \in Procs, Probe(p) PROVE DurableInv'
  <2>1. CASE Return(p)
    BY <1>10, <2>1 DEF Probe
  <2>2. CASE ~Return(p)
    BY <1>10, <2>2 DEF Probe
  <2>3. QED
    BY <2>1, <2>2
<1>11. ASSUME NEW p \in Procs, CheckFresh(p) PROVE DurableInv'
  BY <1>11 DEF CheckFresh
<1>12. ASSUME NEW p \in Procs, Join(p) PROVE DurableInv'
  BY <1>12 DEF Join
<1>13. ASSUME NEW p \in Procs, FlightStart(p) PROVE DurableInv'
  BY <1>13 DEF FlightStart
<1>14. ASSUME NEW p \in Procs, Recheck(p) PROVE DurableInv'
  BY <1>14 DEF Recheck
<1>15. ASSUME NEW p \in Procs, RefreshOK(p) PROVE DurableInv'
  BY <1>15 DEF RefreshOK
<1>16. ASSUME NEW p \in Procs, RefreshError(p) PROVE DurableInv'
  BY <1>16 DEF RefreshError, RefresherFailed
<1>17. ASSUME NEW p \in Procs, RefreshAnswerLost(p) PROVE DurableInv'
  <2>1. UNCHANGED <<disk, cache, durable>> /\ RefresherFailed(p) /\ pc[p] = "refresh"
    BY <1>17 DEF RefreshAnswerLost
  <2>2. QED
    BY <2>1 DEF RefresherFailed
<1>18. ASSUME NEW p \in Procs, RefreshFailed(p) PROVE DurableInv'
  BY <1>18 DEF RefreshFailed
<1>19. ASSUME NEW p \in Procs, CheckGeneration(p) PROVE DurableInv'
  BY <1>19 DEF CheckGeneration
<1>20. ASSUME NEW p \in Procs, RefusedStale(p) PROVE DurableInv'
  <2>1. UNCHANGED <<disk, cache, durable>>
    BY <1>20 DEF RefusedStale
  <2>2. CASE Return(p)
    BY <2>1, <2>2
  <2>3. CASE Continue(p, "fail") /\ UNCHANGED cred
    BY <2>1, <2>3
  <2>4. QED
    BY <1>20, <2>2, <2>3 DEF RefusedStale, PersistFailed
<1>21. ASSUME NEW p \in Procs, Rename(p) PROVE DurableInv'
  BY <1>21 DEF Rename
<1>22. ASSUME NEW p \in Procs, PersistIOError(p) PROVE DurableInv'
  <2>1. UNCHANGED <<disk, cache, durable>>
    BY <1>22 DEF PersistIOError
  <2>2. CASE Return(p)
    BY <2>1, <2>2
  <2>3. CASE Continue(p, "fail") /\ UNCHANGED cred
    BY <2>1, <2>3
  <2>4. QED
    BY <1>22, <2>2, <2>3 DEF PersistIOError, PersistFailed
<1>23. ASSUME NEW p \in Procs, Publish(p) PROVE DurableInv'
  <2>1. cred[p].id \in durable /\ cred[p] # None
    BY <1>23 DEF Publish, Holding, HoldingPcs, WritePcs
  <2>2. QED
    BY <1>23, <2>1 DEF Publish
<1>24. ASSUME NEW p \in Procs, Give(p) PROVE DurableInv'
  BY <1>24 DEF Give, Flight
<1>25. ASSUME NEW p \in Procs, Fail(p) PROVE DurableInv'
  BY <1>25 DEF Fail, Flight
<1>26. ASSUME NEW i \in 1..MaxMint, Age(i) PROVE DurableInv'
  BY <1>26 DEF Age
<1>27. CASE Crash
  BY <1>27 DEF Crash
<1>28. CASE UNCHANGED vars
  BY <1>28 DEF vars
<1>29. QED
  BY <1>1, <1>2, <1>3, <1>4, <1>5, <1>6, <1>7, <1>8, <1>9, <1>10, <1>11, <1>12, <1>13, <1>14, <1>15, <1>16, <1>17, <1>18, <1>19, <1>20, <1>21, <1>22, <1>23, <1>24, <1>25, <1>26, <1>27, <1>28 DEF Next, Begin, Step

LEMMA FlightStep == IInv /\ [Next]_vars => FlightInv'
<1> SUFFICES ASSUME IInv, [Next]_vars PROVE FlightInv'
  OBVIOUS
<1> USE CredAssumption DEF IInv, TypeOK, MgrType, ProcType, FlightInv, OneFlight, FlightPcs, WritePcs, Goto, Hold, Continue, Return, mgrVars, procVars, Idle
<1>1. ASSUME NEW p \in Procs, StartGet(p) PROVE FlightInv'
  BY <1>1 DEF StartGet
<1>2. ASSUME NEW p \in Procs, StartLogin(p) PROVE FlightInv'
  BY <1>2 DEF StartLogin
<1>3. ASSUME NEW p \in Procs, Accepted(p) PROVE FlightInv'
  BY <1>3 DEF Accepted
<1>4. ASSUME NEW p \in Procs, Rejected(p) PROVE FlightInv'
  BY <1>4 DEF Rejected
<1>5. ASSUME NEW p \in Procs, Resend(p) PROVE FlightInv'
  BY <1>5 DEF Resend
<1>6. ASSUME NEW p \in Procs, ForceRefresh(p) PROVE FlightInv'
  BY <1>6 DEF ForceRefresh
<1>7. ASSUME NEW p \in Procs, ReadCache(p) PROVE FlightInv'
  BY <1>7 DEF ReadCache, Looked
<1>8. ASSUME NEW p \in Procs, LoadFromDisk(p) PROVE FlightInv'
  BY <1>8 DEF LoadFromDisk
<1>9. ASSUME NEW p \in Procs, FillCache(p) PROVE FlightInv'
  BY <1>9 DEF FillCache, Looked
<1>10. ASSUME NEW p \in Procs, Probe(p) PROVE FlightInv'
  BY <1>10 DEF Probe
<1>11. ASSUME NEW p \in Procs, CheckFresh(p) PROVE FlightInv'
  BY <1>11 DEF CheckFresh
<1>12. ASSUME NEW p \in Procs, Join(p) PROVE FlightInv'
  BY <1>12 DEF Join
<1>13. ASSUME NEW p \in Procs, FlightStart(p) PROVE FlightInv'
  BY <1>13 DEF FlightStart
<1>14. ASSUME NEW p \in Procs, Recheck(p) PROVE FlightInv'
  BY <1>14 DEF Recheck
<1>15. ASSUME NEW p \in Procs, RefreshOK(p) PROVE FlightInv'
  BY <1>15 DEF RefreshOK
<1>16. ASSUME NEW p \in Procs, RefreshError(p) PROVE FlightInv'
  BY <1>16 DEF RefreshError, RefresherFailed
<1>17. ASSUME NEW p \in Procs, RefreshAnswerLost(p) PROVE FlightInv'
  BY <1>17 DEF RefreshAnswerLost, RefresherFailed
<1>18. ASSUME NEW p \in Procs, RefreshFailed(p) PROVE FlightInv'
  BY <1>18 DEF RefreshFailed
<1>19. ASSUME NEW p \in Procs, CheckGeneration(p) PROVE FlightInv'
  BY <1>19 DEF CheckGeneration
<1>20. ASSUME NEW p \in Procs, RefusedStale(p) PROVE FlightInv'
  BY <1>20 DEF RefusedStale, PersistFailed
<1>21. ASSUME NEW p \in Procs, Rename(p) PROVE FlightInv'
  BY <1>21 DEF Rename
<1>22. ASSUME NEW p \in Procs, PersistIOError(p) PROVE FlightInv'
  BY <1>22 DEF PersistIOError, PersistFailed
<1>23. ASSUME NEW p \in Procs, Publish(p) PROVE FlightInv'
  BY <1>23 DEF Publish
<1>24. ASSUME NEW p \in Procs, Give(p) PROVE FlightInv'
  BY <1>24 DEF Give, Flight
<1>25. ASSUME NEW p \in Procs, Fail(p) PROVE FlightInv'
  BY <1>25 DEF Fail, Flight
<1>26. ASSUME NEW i \in 1..MaxMint, Age(i) PROVE FlightInv'
  BY <1>26 DEF Age
<1>27. CASE Crash
  BY <1>27 DEF Crash
<1>28. CASE UNCHANGED vars
  BY <1>28 DEF vars
<1>29. QED
  BY <1>1, <1>2, <1>3, <1>4, <1>5, <1>6, <1>7, <1>8, <1>9, <1>10, <1>11, <1>12, <1>13, <1>14, <1>15, <1>16, <1>17, <1>18, <1>19, <1>20, <1>21, <1>22, <1>23, <1>24, <1>25, <1>26, <1>27, <1>28 DEF Next, Begin, Step

LEMMA CheckedStep == IInv /\ [Next]_vars => CheckedInv'
<1> SUFFICES ASSUME IInv, [Next]_vars PROVE CheckedInv'
  OBVIOUS
<1> USE CredAssumption DEF IInv, TypeOK, MgrType, ProcType, CheckedInv, Stale, Goto, Hold, Continue, Return, mgrVars, procVars, histVars, Idle
<1>1. ASSUME NEW p \in Procs, StartGet(p) PROVE CheckedInv'
  BY <1>1 DEF StartGet
<1>2. ASSUME NEW p \in Procs, StartLogin(p) PROVE CheckedInv'
  BY <1>2 DEF StartLogin
<1>3. ASSUME NEW p \in Procs, Accepted(p) PROVE CheckedInv'
  BY <1>3 DEF Accepted
<1>4. ASSUME NEW p \in Procs, Rejected(p) PROVE CheckedInv'
  BY <1>4 DEF Rejected
<1>5. ASSUME NEW p \in Procs, Resend(p) PROVE CheckedInv'
  BY <1>5 DEF Resend
<1>6. ASSUME NEW p \in Procs, ForceRefresh(p) PROVE CheckedInv'
  BY <1>6 DEF ForceRefresh
<1>7. ASSUME NEW p \in Procs, ReadCache(p) PROVE CheckedInv'
  BY <1>7 DEF ReadCache, Looked
<1>8. ASSUME NEW p \in Procs, LoadFromDisk(p) PROVE CheckedInv'
  BY <1>8 DEF LoadFromDisk
<1>9. ASSUME NEW p \in Procs, FillCache(p) PROVE CheckedInv'
  BY <1>9 DEF FillCache, Looked
<1>10. ASSUME NEW p \in Procs, Probe(p) PROVE CheckedInv'
  BY <1>10 DEF Probe
<1>11. ASSUME NEW p \in Procs, CheckFresh(p) PROVE CheckedInv'
  BY <1>11 DEF CheckFresh
<1>12. ASSUME NEW p \in Procs, Join(p) PROVE CheckedInv'
  BY <1>12 DEF Join
<1>13. ASSUME NEW p \in Procs, FlightStart(p) PROVE CheckedInv'
  BY <1>13 DEF FlightStart
<1>14. ASSUME NEW p \in Procs, Recheck(p) PROVE CheckedInv'
  BY <1>14 DEF Recheck
<1>15. ASSUME NEW p \in Procs, RefreshOK(p) PROVE CheckedInv'
  BY <1>15 DEF RefreshOK
<1>16. ASSUME NEW p \in Procs, RefreshError(p) PROVE CheckedInv'
  BY <1>16 DEF RefreshError, RefresherFailed
<1>17. ASSUME NEW p \in Procs, RefreshAnswerLost(p) PROVE CheckedInv'
  BY <1>17 DEF RefreshAnswerLost, RefresherFailed
<1>18. ASSUME NEW p \in Procs, RefreshFailed(p) PROVE CheckedInv'
  BY <1>18 DEF RefreshFailed
<1>19. ASSUME NEW p \in Procs, CheckGeneration(p) PROVE CheckedInv'
  BY <1>19 DEF CheckGeneration
<1>20. ASSUME NEW p \in Procs, RefusedStale(p) PROVE CheckedInv'
  BY <1>20 DEF RefusedStale, PersistFailed
<1>21. ASSUME NEW p \in Procs, Rename(p) PROVE CheckedInv'
  BY <1>21 DEF Rename
<1>22. ASSUME NEW p \in Procs, PersistIOError(p) PROVE CheckedInv'
  BY <1>22 DEF PersistIOError, PersistFailed
<1>23. ASSUME NEW p \in Procs, Publish(p) PROVE CheckedInv'
  BY <1>23 DEF Publish
<1>24. ASSUME NEW p \in Procs, Give(p) PROVE CheckedInv'
  BY <1>24 DEF Give, Flight
<1>25. ASSUME NEW p \in Procs, Fail(p) PROVE CheckedInv'
  BY <1>25 DEF Fail, Flight
<1>26. ASSUME NEW i \in 1..MaxMint, Age(i) PROVE CheckedInv'
  BY <1>26 DEF Age
<1>27. CASE Crash
  BY <1>27 DEF Crash
<1>28. CASE UNCHANGED vars
  BY <1>28 DEF vars
<1>29. QED
  BY <1>1, <1>2, <1>3, <1>4, <1>5, <1>6, <1>7, <1>8, <1>9, <1>10, <1>11, <1>12, <1>13, <1>14, <1>15, <1>16, <1>17, <1>18, <1>19, <1>20, <1>21, <1>22, <1>23, <1>24, <1>25, <1>26, <1>27, <1>28 DEF Next, Begin, Step

LEMMA InvStep == IInv /\ [Next]_vars => IInv'
<1>1. TypeOK' <=> MgrType' /\ ProcType' /\ Holding'
  BY DEF TypeOK
<1>2. QED
  BY <1>1, MgrTypeStep, ProcTypeStep, HoldingStep, DurableStep, FlightStep, CheckedStep DEF IInv

LEMMA Invariant == Spec => []IInv
  BY InitInv, InvStep, PTL DEF Spec

-----------------------------------------------------------------------------
\* Type correctness of the manager and of every goroutine that uses it.
THEOREM TypeCorrect == Spec => []TypeOK
<1>1. IInv => TypeOK
  BY DEF IInv
<1>2. QED
  BY <1>1, Invariant, PTL

\* Persist first, publish afterwards: nothing the process caches or hands out
\* would be unknown to a restarted daemon's disk.
THEOREM DurableFirst == Spec => []PublishedIsDurable
<1>1. IInv => PublishedIsDurable
  BY DEF IInv, DurableInv, PublishedIsDurable, DurablePcs
<1>2. QED
  BY <1>1, Invariant, PTL

\* The singleflight serialises the refreshes of Get.
THEOREM SingleFlight == Spec => []OneFlight
<1>1. IInv => OneFlight
  BY DEF IInv, FlightInv
<1>2. QED
  BY <1>1, Invariant, PTL

\* A rename that no other rename overtook never lowers the stored generation.
THEOREM UncontendedCAS == Spec => GenerationCAS
<1> DEFINE CAS == \A p \in Procs :
       pc[p] = "rename" /\ pc'[p] = "publish" /\ p \notin overtaken /\ disk # None
         => disk'.gen >= disk.gen
<1>1. IInv /\ [Next]_vars => [CAS]_vars
  <2> SUFFICES ASSUME IInv, Next, NEW p \in Procs,
                      pc[p] = "rename", pc'[p] = "publish", p \notin overtaken, disk # None
               PROVE  disk'.gen >= disk.gen
    OBVIOUS
  <2>1. disk.gen \in Nat /\ cred[p].gen \in Nat /\ cred[p].gen >= disk.gen
    BY DEF IInv, TypeOK, MgrType, ProcType, Holding, HoldingPcs, WritePcs, CheckedInv, Stale, Credentials
  <2>2. ASSUME NEW q \in Procs, Begin(q) \/ Step(q) PROVE Rename(p) \/ disk' = disk
    <3>1. CASE Rename(q)
      BY <3>1, <2>2 DEF Rename, Continue, Goto, IInv, TypeOK, ProcType
    <3>2. CASE ~Rename(q)
      BY <3>2, <2>2 DEF Begin, Step, mgrVars, StartGet, StartLogin, Accepted, Rejected, Resend,
           ForceRefresh, ReadCache, LoadFromDisk, FillCache, Probe, CheckFresh, Join, FlightStart,
           Recheck, RefreshOK, RefreshError, RefreshAnswerLost, RefreshFailed, CheckGeneration,
           RefusedStale, PersistIOError, Publish, Give, Fail
    <3>3. QED
      BY <3>1, <3>2
  <2>3. Rename(p) \/ disk' = disk
    BY <2>2 DEF Next, Age, Crash, mgrVars
  <2>4. QED
    BY <2>1, <2>3 DEF Rename
<1>2. QED
  BY <1>1, Invariant, PTL DEF Spec, GenerationCAS
-----------------------------------------------------------------------------
(***************************************************************************)
(* No grant is lost.  As long as nothing was interrupted and no refresh    *)
(* token that somebody goes on to use was revoked, what a goroutine is     *)
(* about to write is accepted, and a dead refresh token in the file is     *)
(* about to be replaced by a credential that will not be refused.          *)
(***************************************************************************)
Excused == interrupted \/ undercut

UnsavedLive == \A p \in Procs : Unsaved(p) => cred[p].grant \in live

DeadIsReplaced ==
  \/ disk = None \/ disk.grant \in live
  \/ \E p \in Procs : Unsaved(p) /\ (pc[p] = "cas" => cred[p].gen >= disk.gen)

GrantInv == Excused \/ (UnsavedLive /\ DeadIsReplaced)

LEMMA GrantInit == Init => GrantInv
  BY DEF Init, GrantInv, UnsavedLive, DeadIsReplaced, Unsaved, Credential, Idle

\* A step that issues nothing and renames nothing: who is unsaved was, with what it had, and
\* only persist's refusal, an error or a crash ends that.
Quiet ==
  /\ UNCHANGED <<disk, live, durable, undercut>>
  /\ interrupted => interrupted'
  /\ \A p \in Procs : Unsaved(p)' => Unsaved(p) /\ cred'[p] = cred[p]
  /\ \A p \in Procs : Unsaved(p) =>
       \/ interrupted'
       \/ pc[p] = "cas" /\ Stale(cred[p])
       \/ Unsaved(p)' /\ (pc'[p] = "cas" => pc[p] = "cas")

LEMMA QuietSteps ==
  ASSUME IInv,
         \/ UNCHANGED vars \/ Crash \/ \E i \in 1..MaxMint : Age(i)
         \/ \E p \in Procs :
              \/ StartGet(p) \/ Accepted(p) \/ Rejected(p) \/ Resend(p) \/ ForceRefresh(p)
              \/ ReadCache(p) \/ LoadFromDisk(p) \/ FillCache(p) \/ Probe(p)
              \/ CheckFresh(p) \/ Join(p) \/ FlightStart(p) \/ Recheck(p)
              \/ RefreshError(p) \/ RefreshFailed(p) \/ CheckGeneration(p)
              \/ RefusedStale(p) \/ PersistIOError(p) \/ Publish(p) \/ Give(p) \/ Fail(p)
  PROVE  Quiet
<1>1. pc \in [Procs -> Pcs] /\ cred \in [Procs -> Credentials \cup {None}]
  BY DEF IInv, TypeOK, ProcType
<1> USE DEF Quiet, Unsaved, Goto, Hold, Continue, Return, mgrVars, procVars, tokVars, histVars, Idle
<1>2. ASSUME NEW p \in Procs, StartGet(p) PROVE Quiet
  BY <1>1, <1>2 DEF StartGet
<1>3. ASSUME NEW p \in Procs, Accepted(p) PROVE Quiet
  BY <1>1, <1>3 DEF Accepted
<1>4. ASSUME NEW p \in Procs, Rejected(p) PROVE Quiet
  BY <1>1, <1>4 DEF Rejected
<1>5. ASSUME NEW p \in Procs, Resend(p) PROVE Quiet
  BY <1>1, <1>5 DEF Resend
<1>6. ASSUME NEW p \in Procs, ForceRefresh(p) PROVE Quiet
  BY <1>1, <1>6 DEF ForceRefresh
<1>7. ASSUME NEW p \in Procs, ReadCache(p) PROVE Quiet
  BY <1>1, <1>7 DEF ReadCache, Looked
<1>8. ASSUME NEW p \in Procs, LoadFromDisk(p) PROVE Quiet
  BY <1>1, <1>8 DEF LoadFromDisk
<1>9. ASSUME NEW p \in Procs, FillCache(p) PROVE Quiet
  BY <1>1, <1>9 DEF FillCache, Looked
<1>10. ASSUME NEW p \in Procs, Probe(p) PROVE Quiet
  BY <1>1, <1>10 DEF Probe
<1>11. ASSUME NEW p \in Procs, CheckFresh(p) PROVE Quiet
  BY <1>1, <1>11 DEF CheckFresh
<1>12. ASSUME NEW p \in Procs, Join(p) PROVE Quiet
  BY <1>1, <1>12 DEF Join
<1>13. ASSUME NEW p \in Procs, FlightStart(p) PROVE Quiet
  BY <1>1, <1>13 DEF FlightStart
<1>14. ASSUME NEW p \in Procs, Recheck(p) PROVE Quiet
  BY <1>1, <1>14 DEF Recheck
<1>15. ASSUME NEW p \in Procs, RefreshError(p) PROVE Quiet
  BY <1>1, <1>15 DEF RefreshError, RefresherFailed
<1>16. ASSUME NEW p \in Procs, RefreshFailed(p) PROVE Quiet
  BY <1>1, <1>16 DEF RefreshFailed
<1>17. ASSUME NEW p \in Procs, CheckGeneration(p) PROVE Quiet
  BY <1>1, <1>17 DEF CheckGeneration
<1>18. ASSUME NEW p \in Procs, RefusedStale(p) PROVE Quiet
  BY <1>1, <1>18 DEF RefusedStale, PersistFailed
<1>19. ASSUME NEW p \in Procs, PersistIOError(p) PROVE Quiet
  BY <1>1, <1>19 DEF PersistIOError, PersistFailed
<1>20. ASSUME NEW p \in Procs, Publish(p) PROVE Quiet
  BY <1>1, <1>20 DEF Publish
<1>21. ASSUME NEW p \in Procs, Give(p) PROVE Quiet
  BY <1>1, <1>21 DEF Give, Flight
<1>22. ASSUME NEW p \in Procs, Fail(p) PROVE Quiet
  BY <1>1, <1>22 DEF Fail, Flight
<1>23. ASSUME NEW i \in 1..MaxMint, Age(i) PROVE Quiet
  BY <1>23 DEF Age
<1>24. CASE Crash
  BY <1>24 DEF Crash
<1>25. CASE UNCHANGED vars
  BY <1>25 DEF vars
<1>26. QED
  BY <1>2, <1>3, <1>4, <1>5, <1>6, <1>7, <1>8, <1>9, <1>10, <1>11, <1>12, <1>13, <1>14, <1>15, <1>16, <1>17, <1>18, <1>19, <1>20, <1>21, <1>22, <1>23, <1>24, <1>25

LEMMA QuietGrant == IInv /\ GrantInv /\ Quiet => GrantInv'
<1> SUFFICES ASSUME IInv, GrantInv, Quiet, ~Excused' PROVE UnsavedLive' /\ DeadIsReplaced'
  BY DEF GrantInv
<1>1. UnsavedLive /\ DeadIsReplaced
  BY DEF GrantInv, Excused, Quiet
<1>2. UnsavedLive'
  BY <1>1 DEF UnsavedLive, Quiet
<1>3. ASSUME disk # None, disk.grant \notin live PROVE DeadIsReplaced'
  <2>1. PICK p \in Procs : Unsaved(p) /\ (pc[p] = "cas" => cred[p].gen >= disk.gen)
    BY <1>1, <1>3 DEF DeadIsReplaced
  <2>2. cred[p].gen \in Nat /\ disk.gen \in Nat
    BY <1>3, <2>1 DEF IInv, TypeOK, MgrType, ProcType, Holding, HoldingPcs, WritePcs, Unsaved, Credentials
  <2>3. ~(pc[p] = "cas" /\ Stale(cred[p]))
    BY <2>1, <2>2 DEF Stale
  <2>4. Unsaved(p)' /\ (pc'[p] = "cas" => pc[p] = "cas")
    BY <2>1, <2>3 DEF Quiet, Excused
  <2>5. cred'[p] = cred[p] /\ disk' = disk
    BY <2>4 DEF Quiet
  <2>6. QED
    BY <2>1, <2>4, <2>5 DEF DeadIsReplaced
<1>4. QED
  BY <1>2, <1>3 DEF DeadIsReplaced, Quiet

LEMMA RenameGrant ==
  ASSUME IInv, GrantInv, NEW p \in Procs, Rename(p)
  PROVE  GrantInv'
<1>1. /\ UNCHANGED <<cred, live, interrupted, undercut>> /\ disk' = cred[p] /\ Unsaved(p)
      /\ \A q \in Procs : Unsaved(q)' => Unsaved(q)
  BY DEF Rename, tokVars, Unsaved, Continue, Goto, IInv, TypeOK, ProcType
<1>2. QED
  BY <1>1 DEF GrantInv, Excused, UnsavedLive, DeadIsReplaced

\* The goroutine p gets the credential c that was just issued.
IssuedTo(p, c) ==
  /\ UNCHANGED <<disk, durable, interrupted>>
  /\ minted' = minted + 1 /\ c.id = minted + 1 /\ c.grant \in live'
  /\ cred' = [cred EXCEPT ![p] = c]
  /\ pc' = [pc EXCEPT ![p] = "cas"] /\ ~Unsaved(p)

LEMMA LoginIssues ==
  ASSUME IInv, NEW p \in Procs, StartLogin(p)
  PROVE  /\ IssuedTo(p, Mint(minted + 1, 0)) /\ live \subseteq live' /\ UNCHANGED undercut
  BY DEF StartLogin, IssuedTo, Unsaved, Goto, Hold, Mint, Credential, mgrVars, histVars, Idle

LEMMA RefreshIssues ==
  ASSUME IInv, NEW p \in Procs, RefreshOK(p)
  PROVE  \E t \in 1..MaxMint : Granted(p, t) /\ IssuedTo(p, Mint(t, cred[p].gen + 1))
<1>1. PICK t \in 1..MaxMint : Granted(p, t) /\ Hold(p, Mint(t, cred[p].gen + 1))
  BY DEF RefreshOK
<1>2. UNCHANGED <<disk, durable, interrupted>> /\ ~Unsaved(p) /\ pc' = [pc EXCEPT ![p] = "cas"]
  BY DEF RefreshOK, mgrVars, Unsaved, Continue, Goto
<1>3. minted' = minted + 1 /\ t \in live'
  BY <1>1 DEF Granted
<1>4. QED
  BY <1>1, <1>2, <1>3 DEF IssuedTo, Hold, Mint, Credential

\* Where only refresh tokens are revoked that nobody goes on to use, or that the file holds and
\* p is about to replace.
LEMMA IssuedGrant ==
  ASSUME IInv, GrantInv, NEW p \in Procs, NEW c, IssuedTo(p, c),
         undercut => undercut',
         \A q \in Procs \ {p} : Unsaved(q) /\ cred[q].grant \in live => (cred[q].grant \in live' \/ undercut'),
         disk # None /\ disk.grant \in live => (disk.grant \in live' \/ undercut' \/ c.gen >= disk.gen)
  PROVE  GrantInv'
<1> SUFFICES ASSUME ~Excused' PROVE UnsavedLive' /\ DeadIsReplaced'
  BY DEF GrantInv
<1>1. UnsavedLive /\ DeadIsReplaced /\ ~undercut'
  BY DEF GrantInv, Excused, IssuedTo
<1>2. /\ cred'[p] = c /\ pc'[p] = "cas" /\ Unsaved(p)'
      /\ \A q \in Procs \ {p} : pc'[q] = pc[q] /\ cred'[q] = cred[q] /\ (Unsaved(q)' <=> Unsaved(q))
  BY DEF IssuedTo, Unsaved, IInv, TypeOK, ProcType
<1>3. UnsavedLive'
  BY <1>1, <1>2 DEF UnsavedLive, IssuedTo
<1>4. ASSUME disk = None \/ disk.grant \in live PROVE DeadIsReplaced'
  BY <1>1, <1>2, <1>4 DEF DeadIsReplaced, IssuedTo
<1>5. ASSUME disk # None, disk.grant \notin live PROVE DeadIsReplaced'
  <2>1. PICK q \in Procs : Unsaved(q) /\ (pc[q] = "cas" => cred[q].gen >= disk.gen)
    BY <1>1, <1>5 DEF DeadIsReplaced
  <2>2. q \in Procs \ {p} /\ disk' = disk
    BY <2>1 DEF IssuedTo
  <2>3. QED
    BY <1>2, <2>1, <2>2 DEF DeadIsReplaced
<1>6. QED
  BY <1>3, <1>4, <1>5

LEMMA RefreshGrant ==
  ASSUME IInv, GrantInv, NEW p \in Procs, RefreshOK(p)
  PROVE  GrantInv'
<1>1. PICK t \in 1..MaxMint : Granted(p, t) /\ IssuedTo(p, Mint(t, cred[p].gen + 1))
  BY RefreshIssues
<1> DEFINE c == Mint(t, cred[p].gen + 1)
           old == cred[p].grant
<1>2. cred[p].gen \in Nat /\ c.gen = cred[p].gen + 1 /\ (disk # None => disk.gen \in Nat)
  BY DEF RefreshOK, Mint, Credential, IInv, TypeOK, MgrType, ProcType, Holding, HoldingPcs, WritePcs, Credentials
<1>3. live \ {old} \subseteq live'
  BY <1>1 DEF Granted
<1>4. undercut => undercut'
  BY <1>1 DEF Granted
<1>5. old \notin live' => undercut' \/ ~Undercuts(p, old)
  BY <1>1 DEF Granted
<1>6. \A q \in Procs \ {p} : Unsaved(q) /\ cred[q].grant \in live => (cred[q].grant \in live' \/ undercut')
  BY <1>3, <1>5 DEF Undercuts
<1>7. disk # None /\ disk.grant \in live => (disk.grant \in live' \/ undercut' \/ c.gen >= disk.gen)
  <2>1. disk # None /\ disk.grant = old /\ ~Undercuts(p, old) => c.gen >= disk.gen
    BY <1>2 DEF Undercuts
  <2>2. QED
    BY <1>3, <1>5, <2>1
<1>8. QED
  BY <1>1, <1>4, <1>6, <1>7, IssuedGrant

LEMMA GrantStep == IInv /\ GrantInv /\ [Next]_vars => GrantInv'
<1> SUFFICES ASSUME IInv, GrantInv, [Next]_vars PROVE GrantInv'
  OBVIOUS
<1>1. ASSUME NEW p \in Procs, StartLogin(p) PROVE GrantInv'
  <2>1. IssuedTo(p, Mint(minted + 1, 0)) /\ live \subseteq live' /\ UNCHANGED undercut
    BY <1>1, LoginIssues
  <2>2. QED
    BY <2>1, IssuedGrant
<1>2. ASSUME NEW p \in Procs, RefreshAnswerLost(p) PROVE GrantInv'
  BY <1>2 DEF RefreshAnswerLost, GrantInv, Excused
<1>3. QED
  BY <1>1, <1>2, RefreshGrant, RenameGrant, QuietSteps, QuietGrant DEF Next, Begin, Step

-----------------------------------------------------------------------------
(***************************************************************************)
(* An endpoint that does not mix keeping and revoking undercuts nobody.    *)
(* Where it keeps nothing, every credential has a refresh token of its     *)
(* own, and one the manager has not written yet is in the hands of one     *)
(* goroutine: nobody else can spend it.                                    *)
(***************************************************************************)
Held == ({disk, cache} \cup {cred[p] : p \in Procs}) \ {None}

\* Copies of one credential are the same credential, and every id was issued.
CopyInv ==
  /\ \A c \in Held : c.id <= minted
  /\ \A c, d \in Held : c.id = d.id => c = d
  /\ \A i \in durable : i <= minted

OwnGrants == "keep" \notin Answers => \A c \in Held : c.grant = c.id

UnsavedInv ==
  \A p \in Procs : Unsaved(p) =>
    /\ cred[p].id \notin durable
    /\ \A q \in Procs : Unsaved(q) /\ q # p => cred[q].id # cred[p].id

OwnInv == CopyInv /\ OwnGrants /\ UnsavedInv

\* What the step lemmas need of the invariant above.
LEMMA HeldTypes ==
  ASSUME IInv
  PROVE  /\ Held \subseteq Credentials
         /\ \A c \in Held : c.id \in 1..MaxMint /\ c.gen \in Nat /\ c # None
         /\ disk # None => disk \in Held
         /\ cache # None => cache \in Held
         /\ \A p \in Procs : pc[p] \in HoldingPcs => cred[p] \in Held
         /\ minted \in Nat
BY CredAssumption DEF IInv, TypeOK, MgrType, ProcType, Holding, Held, Credentials

LEMMA OwnInit == Init => OwnInv
<1> SUFFICES ASSUME Init PROVE OwnInv
  OBVIOUS
<1>1. \A p \in Procs : cred[p] = None /\ ~Unsaved(p)
  BY DEF Init, Unsaved, Idle
<1>2. \A c \in Held : c = disk /\ disk # None
  BY <1>1 DEF Held, Init
<1>3. disk # None => disk.id = 1 /\ disk.grant = 1 /\ minted = 1
  BY DEF Init, Credential
<1>4. CopyInv
  BY <1>2, <1>3, CredAssumption DEF CopyInv, Init
<1>5. QED
  BY <1>1, <1>2, <1>3, <1>4 DEF OwnInv, OwnGrants, UnsavedInv

\* A step hands copies around, or adds the one credential that was issued.
Copies ==
  /\ Held' \subseteq Held /\ minted' \in {minted, minted + 1}
  /\ durable' \subseteq durable \cup {c.id : c \in Held}
Issues ==
  /\ minted' = minted + 1 /\ UNCHANGED durable
  /\ \E c : /\ c.id = minted + 1 /\ Held' \subseteq Held \cup {c}
           /\ ("keep" \notin Answers => c.grant = c.id)

LEMMA HeldStep == IInv /\ [Next]_vars => Copies \/ Issues
<1> SUFFICES ASSUME IInv, [Next]_vars PROVE Copies \/ Issues
  OBVIOUS
<1> DEFINE InHand == cred \in [Procs -> Credentials \cup {None}]
<1>1. InHand
  BY DEF IInv, TypeOK, ProcType
<1> USE CredAssumption DEF Held, Copies, Goto, Hold, Continue, Return, mgrVars, procVars, tokVars, histVars
<1>2. ASSUME NEW p \in Procs, StartGet(p) PROVE Copies \/ Issues
  BY <1>1, <1>2 DEF StartGet
<1>3. ASSUME NEW p \in Procs, StartLogin(p) PROVE Copies \/ Issues
  <2> DEFINE new == Mint(minted + 1, 0)
  <2>1. cred' = [cred EXCEPT ![p] = new] /\ UNCHANGED <<disk, cache, durable>> /\ minted' = minted + 1
    BY <1>3 DEF StartLogin
  <2>2. new.id = minted + 1 /\ new.grant = new.id /\ Held' \subseteq Held \cup {new}
    BY <1>1, <2>1 DEF Mint, Credential
  <2>3. QED
    BY <2>1, <2>2 DEF Issues
<1>4. ASSUME NEW p \in Procs, Accepted(p) PROVE Copies \/ Issues
  BY <1>1, <1>4 DEF Accepted
<1>5. ASSUME NEW p \in Procs, Rejected(p) PROVE Copies \/ Issues
  BY <1>1, <1>5 DEF Rejected
<1>6. ASSUME NEW p \in Procs, Resend(p) PROVE Copies \/ Issues
  BY <1>1, <1>6 DEF Resend
<1>7. ASSUME NEW p \in Procs, ForceRefresh(p) PROVE Copies \/ Issues
  BY <1>1, <1>7 DEF ForceRefresh
<1>8. ASSUME NEW p \in Procs, ReadCache(p) PROVE Copies \/ Issues
  BY <1>1, <1>8 DEF ReadCache
<1>9. ASSUME NEW p \in Procs, LoadFromDisk(p) PROVE Copies \/ Issues
  BY <1>1, <1>9 DEF LoadFromDisk
<1>10. ASSUME NEW p \in Procs, FillCache(p) PROVE Copies \/ Issues
  BY <1>1, <1>10 DEF FillCache
<1>11. ASSUME NEW p \in Procs, Probe(p) PROVE Copies \/ Issues
  BY <1>1, <1>11 DEF Probe
<1>12. ASSUME NEW p \in Procs, CheckFresh(p) PROVE Copies \/ Issues
  BY <1>1, <1>12 DEF CheckFresh
<1>13. ASSUME NEW p \in Procs, Join(p) PROVE Copies \/ Issues
  BY <1>1, <1>13 DEF Join
<1>14. ASSUME NEW p \in Procs, FlightStart(p) PROVE Copies \/ Issues
  BY <1>1, <1>14 DEF FlightStart
<1>15. ASSUME NEW p \in Procs, Recheck(p) PROVE Copies \/ Issues
  BY <1>1, <1>15 DEF Recheck
<1>16. ASSUME NEW p \in Procs, RefreshOK(p) PROVE Copies \/ Issues
  <2>1. PICK t \in 1..MaxMint : Granted(p, t) /\ Hold(p, Mint(t, cred[p].gen + 1))
    BY <1>16 DEF RefreshOK
  <2> DEFINE new == Mint(t, cred[p].gen + 1)
  <2>2. cred' = [cred EXCEPT ![p] = new] /\ UNCHANGED <<disk, cache, durable>> /\ minted' = minted + 1
    BY <1>16, <2>1 DEF RefreshOK, Granted
  <2>3. new.id = minted + 1 /\ Held' \subseteq Held \cup {new}
    BY <1>1, <2>2 DEF Mint, Credential
  <2>4. "keep" \notin Answers => new.grant = new.id
    BY <2>1 DEF Granted, Mint, Credential
  <2>5. QED
    BY <2>2, <2>3, <2>4 DEF Issues
<1>17. ASSUME NEW p \in Procs, RefreshError(p) PROVE Copies \/ Issues
  BY <1>1, <1>17 DEF RefreshError, RefresherFailed
<1>18. ASSUME NEW p \in Procs, RefreshAnswerLost(p) PROVE Copies \/ Issues
  BY <1>1, <1>18 DEF RefreshAnswerLost, RefresherFailed, Granted
<1>19. ASSUME NEW p \in Procs, RefreshFailed(p) PROVE Copies \/ Issues
  BY <1>1, <1>19 DEF RefreshFailed
<1>20. ASSUME NEW p \in Procs, CheckGeneration(p) PROVE Copies \/ Issues
  BY <1>1, <1>20 DEF CheckGeneration
<1>21. ASSUME NEW p \in Procs, RefusedStale(p) PROVE Copies \/ Issues
  BY <1>1, <1>21 DEF RefusedStale, PersistFailed
<1>22. ASSUME NEW p \in Procs, Rename(p) PROVE Copies \/ Issues
  <2>1. cred[p] \in Held
    BY <1>22, HeldTypes DEF Rename, HoldingPcs, WritePcs
  <2>2. UNCHANGED <<cache, cred, minted>> /\ disk' = cred[p] /\ durable' = durable \cup {cred[p].id}
    BY <1>22 DEF Rename
  <2>3. QED
    BY <2>1, <2>2
<1>23. ASSUME NEW p \in Procs, PersistIOError(p) PROVE Copies \/ Issues
  BY <1>1, <1>23 DEF PersistIOError, PersistFailed
<1>24. ASSUME NEW p \in Procs, Publish(p) PROVE Copies \/ Issues
  BY <1>1, <1>24 DEF Publish
<1>25. ASSUME NEW p \in Procs, Give(p) PROVE Copies \/ Issues
  BY <1>1, <1>25 DEF Give, Flight
<1>26. ASSUME NEW p \in Procs, Fail(p) PROVE Copies \/ Issues
  BY <1>1, <1>26 DEF Fail, Flight
<1>27. ASSUME NEW i \in 1..MaxMint, Age(i) PROVE Copies \/ Issues
  BY <1>27 DEF Age
<1>28. CASE Crash
  BY <1>28 DEF Crash
<1>29. CASE UNCHANGED vars
  BY <1>29 DEF vars
<1>30. QED
  BY <1>2, <1>3, <1>4, <1>5, <1>6, <1>7, <1>8, <1>9, <1>10, <1>11, <1>12, <1>13, <1>14, <1>15, <1>16, <1>17, <1>18, <1>19, <1>20, <1>21, <1>22, <1>23, <1>24, <1>25, <1>26, <1>27, <1>28, <1>29 DEF Next, Begin, Step

LEMMA CopyStep == IInv /\ CopyInv /\ OwnGrants /\ [Next]_vars => CopyInv' /\ OwnGrants'
<1> SUFFICES ASSUME IInv, CopyInv, OwnGrants, [Next]_vars PROVE CopyInv' /\ OwnGrants'
  OBVIOUS
<1>1. /\ \A c \in Held : c.id \in 1..MaxMint /\ c.id <= minted
      /\ durable \subseteq 1..MaxMint /\ \A i \in durable : i <= minted
      /\ minted \in Nat
      /\ \A c, d \in Held : c.id = d.id => c = d
  BY HeldTypes DEF CopyInv, IInv, TypeOK, MgrType
<1>2. CASE Copies
  <2>1. Held' \subseteq Held /\ minted <= minted' /\ minted' \in Nat
    BY <1>1, <1>2 DEF Copies
  <2>2. \A c \in Held' : c.id <= minted'
    BY <1>1, <2>1
  <2>3. \A c, d \in Held' : c.id = d.id => c = d
    BY <1>1, <2>1
  <2>4. \A i \in durable' : i \in 1..MaxMint /\ i <= minted
    BY <1>1, <1>2 DEF Copies
  <2>5. \A i \in durable' : i <= minted'
    BY <1>1, <2>1, <2>4
  <2>6. OwnGrants'
    BY <2>1 DEF OwnGrants
  <2>7. QED
    BY <2>2, <2>3, <2>5, <2>6 DEF CopyInv
<1>3. CASE Issues
  <2>1. PICK c : /\ c.id = minted + 1 /\ Held' \subseteq Held \cup {c}
                 /\ ("keep" \notin Answers => c.grant = c.id)
    BY <1>3 DEF Issues
  <2>2. \A d \in Held : d.id # c.id
    BY <1>1, <2>1
  <2>3. \A d \in Held' : d.id <= minted + 1
    BY <1>1, <2>1
  <2>4. \A d, e \in Held' : d.id = e.id => d = e
    BY <1>1, <2>1, <2>2
  <2>5. \A i \in durable : i <= minted + 1
    BY <1>1
  <2>6. OwnGrants'
    BY <2>1 DEF OwnGrants
  <2>7. QED
    BY <1>3, <2>3, <2>4, <2>5, <2>6 DEF Issues, CopyInv
<1>4. QED
  BY <1>2, <1>3, HeldStep

LEMMA QuietUnsaved == UnsavedInv /\ Quiet => UnsavedInv'
  BY DEF UnsavedInv, Quiet

LEMMA IssuedUnsaved ==
  ASSUME IInv, CopyInv, UnsavedInv, NEW p \in Procs, NEW c, IssuedTo(p, c)
  PROVE  UnsavedInv'
<1>1. durable \subseteq 1..MaxMint /\ minted \in Nat
  BY DEF IInv, TypeOK, MgrType
<1>2. /\ cred'[p].id = minted + 1
      /\ \A q \in Procs \ {p} : cred'[q] = cred[q] /\ (Unsaved(q)' <=> Unsaved(q))
  BY DEF IssuedTo, Unsaved, IInv, TypeOK, ProcType
<1>3. \A q \in Procs : Unsaved(q) => cred[q].id \in 1..MaxMint /\ cred[q].id <= minted
  BY HeldTypes DEF CopyInv, Unsaved, HoldingPcs, WritePcs
<1>4. minted + 1 \notin durable
  BY <1>1 DEF CopyInv
<1>5. \A q \in Procs : Unsaved(q) => cred[q].id # minted + 1
  BY <1>1, <1>3
<1>6. QED
  BY <1>2, <1>4, <1>5 DEF UnsavedInv, IssuedTo

LEMMA RenameUnsaved ==
  ASSUME IInv, UnsavedInv, NEW p \in Procs, Rename(p)
  PROVE  UnsavedInv'
<1>1. UNCHANGED cred /\ durable' = durable \cup {cred[p].id} /\ Unsaved(p)
  BY DEF Rename, Unsaved
<1>2. \A q \in Procs : Unsaved(q)' => Unsaved(q) /\ q # p
  BY DEF Rename, Continue, Goto, Unsaved, IInv, TypeOK, ProcType
<1>3. QED
  BY <1>1, <1>2 DEF UnsavedInv

LEMMA LostUnsaved ==
  ASSUME IInv, UnsavedInv, NEW p \in Procs, RefreshAnswerLost(p)
  PROVE  UnsavedInv'
<1>1. UNCHANGED durable /\ \A q \in Procs : Unsaved(q)' => Unsaved(q) /\ cred'[q] = cred[q]
  BY DEF RefreshAnswerLost, RefresherFailed, Continue, Return, Goto, Hold, Unsaved, Idle, IInv, TypeOK, ProcType
<1>2. QED
  BY <1>1 DEF UnsavedInv

LEMMA UnsavedStep == IInv /\ CopyInv /\ UnsavedInv /\ [Next]_vars => UnsavedInv'
<1> SUFFICES ASSUME IInv, CopyInv, UnsavedInv, [Next]_vars PROVE UnsavedInv'
  OBVIOUS
<1>1. ASSUME NEW p \in Procs, StartLogin(p) PROVE UnsavedInv'
  BY <1>1, LoginIssues, IssuedUnsaved
<1>2. ASSUME NEW p \in Procs, RefreshOK(p) PROVE UnsavedInv'
  BY <1>2, RefreshIssues, IssuedUnsaved
<1>3. QED
  BY <1>1, <1>2, LostUnsaved, RenameUnsaved, QuietSteps, QuietUnsaved DEF Next, Begin, Step

LEMMA GrantedUndercuts ==
  ASSUME IInv, OwnInv, ~Mixes, NEW p \in Procs, pc[p] = "refresh", NEW t \in 1..MaxMint, Granted(p, t)
  PROVE  undercut' = undercut
<1> SUFFICES ASSUME "revoke" \in Answers PROVE ~Undercuts(p, cred[p].grant)
  BY DEF Granted, IInv, TypeOK, MgrType
<1>1. \A c \in Held : c.grant = c.id
  BY DEF OwnInv, OwnGrants, Mixes
<1>2. cred[p] \in Held /\ cred[p].gen \in Nat /\ cred[p].id \in durable
  BY HeldTypes DEF HoldingPcs, WritePcs, IInv, DurableInv, DurablePcs
<1>3. ASSUME NEW q \in Procs, Unsaved(q), cred[q].grant = cred[p].grant PROVE FALSE
  <2>1. cred[q] \in Held /\ cred[q].id \notin durable
    BY <1>3, HeldTypes DEF Unsaved, HoldingPcs, WritePcs, OwnInv, UnsavedInv
  <2>2. QED
    BY <1>1, <1>2, <1>3, <2>1
<1>4. ASSUME disk # None, disk.grant = cred[p].grant PROVE ~(disk.gen > cred[p].gen + 1)
  <2>1. disk = cred[p]
    BY <1>1, <1>2, <1>4, HeldTypes DEF OwnInv, CopyInv
  <2>2. QED
    BY <1>2, <2>1
<1>5. QED
  BY <1>3, <1>4 DEF Undercuts

LEMMA UndercutStep ==
  IInv /\ OwnInv /\ ~Mixes /\ [Next]_vars => undercut' = undercut
<1> SUFFICES ASSUME IInv, OwnInv, ~Mixes, [Next]_vars PROVE undercut' = undercut
  OBVIOUS
<1>1. ASSUME NEW p \in Procs, RefreshOK(p) PROVE undercut' = undercut
  BY <1>1, GrantedUndercuts DEF RefreshOK
<1>2. ASSUME NEW p \in Procs, RefreshAnswerLost(p) PROVE undercut' = undercut
  BY <1>2, GrantedUndercuts DEF RefreshAnswerLost
<1>3. ASSUME NEW p \in Procs, StartLogin(p) \/ Rename(p) PROVE undercut' = undercut
  BY <1>3 DEF StartLogin, Rename, histVars
<1>4. QED
  BY <1>1, <1>2, <1>3, QuietSteps DEF Next, Begin, Step, Quiet

WayBack == OwnInv /\ GrantInv /\ (undercut => Mixes)

\* Through every interleaving of refreshes, forced refreshes and logins, whatever the token
\* endpoint does to the refresh tokens it is sent: unless a crash, an I/O error or a lost answer
\* took one with it, or an endpoint that mixes its answers undercut one, the file holds a
\* refresh token the endpoint accepts or a goroutine is about to write one.  An endpoint that
\* keeps to one way, revoking what it replaces or never revoking, undercuts nobody.
THEOREM GrantsAreKept == Spec => []NoGrantLost
<1>1. Init => WayBack
  BY OwnInit, GrantInit DEF WayBack, Init
<1>2. IInv /\ WayBack /\ [Next]_vars => WayBack'
  <2> SUFFICES ASSUME IInv, WayBack, [Next]_vars PROVE WayBack'
    OBVIOUS
  <2>1. OwnInv'
    BY CopyStep, UnsavedStep DEF WayBack, OwnInv
  <2>2. GrantInv'
    BY GrantStep DEF WayBack
  <2>3. ~Mixes => undercut' = undercut
    BY UndercutStep DEF WayBack
  <2>4. QED
    BY <2>1, <2>2, <2>3 DEF WayBack, Mixes
<1>3. WayBack => NoGrantLost
  BY DEF WayBack, GrantInv, Excused, UnsavedLive, DeadIsReplaced, NoGrantLost
<1>4. QED
  BY <1>1, <1>2, <1>3, Invariant, PTL DEF Spec
=============================================================================
