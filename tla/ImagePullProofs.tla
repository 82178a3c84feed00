--------------------------- MODULE ImagePullProofs ---------------------------
(* Theorems about ImagePull for any scripts and any languages: each image is *)
(* pulled once, and all scripts of a language get the answer of that pull.   *)
EXTENDS ImagePull, TLAPS

-----------------------------------------------------------------------------
(* The inductive invariant.                                                  *)

LEMMA InitIndInv == Init => IndInv
<1> SUFFICES ASSUME Init PROVE IndInv
    OBVIOUS
<1>1. \A l \in Languages : Pulling(l) = {}
    BY DEF Init, Pulling
<1>2. TypeOK
    BY DEF Init, TypeOK, Places, Images
<1>3. PulledOnce
    BY <1>1 DEF Init, PulledOnce, Images
<1>4. OnceDiscipline
    BY <1>1 DEF Init, OnceDiscipline
<1>5. PlaceDiscipline
    BY DEF Init, PlaceDiscipline
<1> QED
    BY <1>2, <1>3, <1>4, <1>5 DEF IndInv

\* A script that is neither before nor after at a pull leaves the sets of
\* pulling scripts as they are.
LEMMA SamePulling ==
    ASSUME TypeOK, UNCHANGED language, NEW s \in Scripts, NEW place,
           pc' = [pc EXCEPT ![s] = place],
           pc[s] \notin {"pullBuild", "pullRun"}, place \notin {"pullBuild", "pullRun"},
           NEW l
    PROVE  Pulling(l)' = Pulling(l)
BY DEF Pulling, TypeOK

\* The one script that pulls for a language leaves nobody pulling behind it.
LEMMA PullingAlone ==
    ASSUME IndInv, NEW s \in Scripts, pc[s] \in {"pullBuild", "pullRun"}
    PROVE  /\ language[s] \in Languages
           /\ Pulling(language[s]) = {s}
           /\ once[language[s]] = "running"
           /\ failed[language[s]] = {}
<1>1. language[s] \in Languages
    BY DEF IndInv, PlaceDiscipline
<1>2. s \in Pulling(language[s])
    BY DEF Pulling
<1>3. Pulling(language[s]) = {s}
    BY <1>1, <1>2 DEF IndInv, PulledOnce
<1>4. once[language[s]] = "running"
    BY <1>1, <1>2 DEF IndInv, OnceDiscipline
<1> QED
    BY <1>1, <1>3, <1>4 DEF IndInv, OnceDiscipline

LEMMA DispatchIndInv ==
    ASSUME IndInv, NEW s \in Scripts, Dispatch(s)
    PROVE  IndInv'
<1> USE DEF IndInv, Dispatch, Goto, config
<1> DEFINE place == IF language[s] \in Languages THEN "ensure" ELSE "failed"
<1>1. pc[s] = "dispatch" /\ pc' = [pc EXCEPT ![s] = place]
    OBVIOUS
<1>2. TypeOK'
    BY DEF TypeOK, Places
<1>3. \A l \in Languages : Pulling(l)' = Pulling(l)
    BY <1>1, SamePulling
<1>4. PulledOnce'
    BY <1>3 DEF PulledOnce
<1>5. OnceDiscipline'
    BY <1>3 DEF OnceDiscipline, Needs
<1>6. PlaceDiscipline'
    BY <1>1 DEF PlaceDiscipline, TypeOK
<1> QED
    BY <1>2, <1>4, <1>5, <1>6

LEMMA PassIndInv ==
    ASSUME IndInv, NEW s \in Scripts, PassOnce(s) \/ LeaveOnce(s)
    PROVE  IndInv'
<1> USE DEF IndInv, PassOnce, LeaveOnce, Goto, config, Over
<1> DEFINE place == IF pc[s] = "ensure" THEN "leave"
                    ELSE IF pullErr[language[s]] = "nil" THEN "prepared" ELSE "failed"
<1>1. /\ pc[s] \in {"ensure", "leave"} /\ pc' = [pc EXCEPT ![s] = place]
      /\ UNCHANGED <<language, separate, cancelled, once, pullErr, pulls, failed>>
      /\ place \in {"leave", "prepared", "failed"}
    OBVIOUS
<1>2. TypeOK'
    BY <1>1 DEF TypeOK, Places
<1>3. \A l \in Languages : Pulling(l)' = Pulling(l)
    BY <1>1, SamePulling
<1>4. PulledOnce'
    BY <1>1, <1>3 DEF PulledOnce
<1>5. OnceDiscipline'
    BY <1>1, <1>3 DEF OnceDiscipline, Needs
<1>6. language[s] \in Languages /\ once[language[s]] = "done"
    BY <1>1 DEF PlaceDiscipline
<1>7. pullErr[language[s]] = "nil" <=> failed[language[s]] = {}
    BY <1>6 DEF OnceDiscipline
<1>8. PlaceDiscipline'
    <2> SUFFICES ASSUME NEW t \in Scripts PROVE PlaceDiscipline!(t)'
        BY DEF PlaceDiscipline
    <2>1. CASE t = s
        BY <1>1, <1>6, <1>7, <2>1 DEF TypeOK
    <2>2. CASE t # s
        BY <1>1, <2>2 DEF TypeOK, PlaceDiscipline
    <2> QED
        BY <2>1, <2>2
<1> QED
    BY <1>2, <1>4, <1>5, <1>8

LEMMA EnterIndInv ==
    ASSUME IndInv, NEW s \in Scripts, EnterOnce(s)
    PROVE  IndInv'
<1> USE DEF IndInv, EnterOnce, Goto, config, Unclaimed, Ask
<1> DEFINE L == language[s]
<1>1. /\ L \in Languages /\ once[L] = "fresh" /\ failed[L] = {} /\ Pulling(L) = {}
      /\ pulls[L] = [i \in Images |-> 0]
    BY DEF PlaceDiscipline, OnceDiscipline
<1>2. /\ pulls' = [pulls EXCEPT ![L]["build"] = 1]
      /\ pulls'[L] = [pulls[L] EXCEPT !["build"] = 1]
      /\ pulls'[L]["build"] = 1 /\ pulls'[L]["run"] = 0
      /\ \A l \in Languages \ {L} : pulls'[l] = pulls[l]
    BY <1>1 DEF TypeOK, Images
<1>3. TypeOK'
    BY <1>1, <1>2 DEF TypeOK, Places, Images
<1>4. Pulling(L)' = {s} /\ \A l \in Languages \ {L} : Pulling(l)' = Pulling(l)
    BY <1>1 DEF Pulling, TypeOK
<1>5. PulledOnce'
    BY <1>1, <1>2, <1>4 DEF PulledOnce, Images
<1>6. OnceDiscipline'
    <2> SUFFICES ASSUME NEW l \in Languages PROVE OnceDiscipline!(l)'
        BY DEF OnceDiscipline
    <2>1. CASE l = L
        <3>1. once'[l] = "running" /\ failed'[l] = {} /\ Pulling(l)' # {}
            BY <1>1, <1>4, <2>1 DEF TypeOK
        <3>2. pullErr'[l] = "nil"
            BY <1>1, <2>1 DEF OnceDiscipline
        <3> QED
            BY <3>1, <3>2
    <2>2. CASE l # L
        BY <1>2, <1>4, <2>2 DEF TypeOK, OnceDiscipline, Needs
    <2> QED
        BY <2>1, <2>2
<1>7. PlaceDiscipline'
    <2> SUFFICES ASSUME NEW t \in Scripts PROVE PlaceDiscipline!(t)'
        BY DEF PlaceDiscipline
    <2>1. CASE t = s
        BY <1>1, <1>2, <2>1 DEF TypeOK
    <2>2. CASE t # s /\ language[t] = L
        BY <1>1, <2>2 DEF TypeOK, PlaceDiscipline, Pulling
    <2>3. CASE t # s /\ language[t] # L
        BY <1>2, <2>3 DEF TypeOK, PlaceDiscipline
    <2> QED
        BY <2>1, <2>2, <2>3
<1> QED
    BY <1>3, <1>5, <1>6, <1>7

\* The pull of the build image is over and the run image is asked for.
LEMMA AskRunIndInv ==
    ASSUME IndInv, NEW s \in Scripts, BuildPulled(s), "run" \in Needs(language[s])
    PROVE  IndInv'
<1> USE DEF IndInv, BuildPulled, config, Ask
<1> DEFINE L == language[s]
<1>1. /\ L \in Languages /\ Pulling(L) = {s} /\ once[L] = "running" /\ failed[L] = {}
      /\ pulls[L]["build"] = 1 /\ pulls[L]["run"] = 0 /\ L \in separate
    BY PullingAlone DEF PlaceDiscipline, Needs
<1>2. /\ pulls'[L]["build"] = 1 /\ pulls'[L]["run"] = 1
      /\ \A l \in Languages \ {L} : pulls'[l] = pulls[l]
      /\ pulls' \in [Languages -> [Images -> Nat]]
    BY <1>1 DEF TypeOK, Images
<1>3. TypeOK'
    BY <1>2 DEF TypeOK, Places
<1>4. \A l \in Languages : Pulling(l)' = Pulling(l)
    BY DEF Pulling, TypeOK
<1>5. PulledOnce'
    BY <1>1, <1>2, <1>4 DEF PulledOnce, Images
<1>6. OnceDiscipline'
    BY <1>1, <1>2, <1>4 DEF OnceDiscipline, Needs
<1>7. PlaceDiscipline'
    <2> SUFFICES ASSUME NEW t \in Scripts PROVE PlaceDiscipline!(t)'
        BY DEF PlaceDiscipline
    <2>1. CASE t = s
        BY <1>1, <1>2, <2>1 DEF TypeOK, Images
    <2>2. CASE t # s /\ language[t] = L
        <3>1. t \notin Pulling(L)
            BY <1>1, <2>2
        <3> QED
            BY <1>1, <2>2, <3>1 DEF TypeOK, PlaceDiscipline, Pulling
    <2>3. CASE t # s /\ language[t] # L
        BY <1>2, <2>3 DEF TypeOK, PlaceDiscipline
    <2> QED
        BY <2>1, <2>2, <2>3
<1> QED
    BY <1>3, <1>5, <1>6, <1>7

\* The function of the once returns, with its pulls ended well or not.
LEMMA FinishIndInv ==
    ASSUME IndInv, NEW s \in Scripts,
           \/ BuildPulled(s) /\ "run" \notin Needs(language[s])
           \/ RunPulled(s)
           \/ PullAborted(s)
           \/ PullRefused(s)
    PROVE  IndInv'
<1> USE DEF IndInv
<1> DEFINE L == language[s]
<1>1. /\ pc[s] \in {"pullBuild", "pullRun"}
      /\ pc' = [pc EXCEPT ![s] = "leave"]
      /\ once' = [once EXCEPT ![L] = "done"]
      /\ UNCHANGED <<language, separate, cancelled, pulls>>
    BY DEF BuildPulled, RunPulled, PullAborted, PullRefused, PullFails, Finish, config
<1>2. /\ L \in Languages /\ Pulling(L) = {s} /\ once[L] = "running" /\ failed[L] = {}
    BY <1>1, PullingAlone
<1>3. \/ /\ UNCHANGED <<failed, pullErr>>
         /\ \A i \in Needs(L) : pulls[L][i] = 1
      \/ /\ failed' = [failed EXCEPT ![L] = @ \cup {ImageAt(s)}]
         /\ \E why \in {"context", "daemon"} : pullErr' = [pullErr EXCEPT ![L] = why]
    <2>1. CASE BuildPulled(s) /\ "run" \notin Needs(L)
        BY <2>1 DEF BuildPulled, Needs, Images, PlaceDiscipline, config
    <2>2. CASE RunPulled(s)
        BY <2>2 DEF RunPulled, Needs, Images, PlaceDiscipline, config
    <2>3. CASE PullAborted(s)
        BY <2>3 DEF PullAborted, PullFails, KeepError
    <2>4. CASE PullRefused(s)
        BY <2>4 DEF PullRefused, PullFails, KeepError
    <2> QED
        BY <2>1, <2>2, <2>3, <2>4
<1>4. ImageAt(s) \in Images /\ (pulls[L]["run"] = 1 => ImageAt(s) = "run")
    BY <1>1, <1>2 DEF ImageAt, Images, PlaceDiscipline
<1>5. TypeOK'
    <2>1. failed' \in [Languages -> SUBSET Images]
        BY <1>2, <1>3, <1>4 DEF TypeOK
    <2>2. pullErr' \in [Languages -> {"nil", "context", "daemon"}]
        BY <1>2, <1>3 DEF TypeOK
    <2>3. once' \in [Languages -> {"fresh", "running", "done"}] /\ pc' \in [Scripts -> Places]
        BY <1>1, <1>2 DEF TypeOK, Places
    <2> QED
        BY <1>1, <2>1, <2>2, <2>3 DEF TypeOK
<1>6. Pulling(L)' = {} /\ \A l \in Languages \ {L} : Pulling(l)' = Pulling(l)
    BY <1>1, <1>2 DEF Pulling, TypeOK
<1>7. \A l \in Languages \ {L} :
          failed'[l] = failed[l] /\ pullErr'[l] = pullErr[l] /\ once'[l] = once[l]
    BY <1>1, <1>2, <1>3 DEF TypeOK
<1>8. /\ once'[L] = "done"
      /\ pullErr'[L] = "nil" <=> failed'[L] = {}
      /\ failed'[L] = {} => \A i \in Needs(L) : pulls[L][i] = 1
      /\ failed'[L] \subseteq {ImageAt(s)}
    <2>1. once'[L] = "done" /\ pullErr[L] = "nil"
        BY <1>1, <1>2 DEF TypeOK, OnceDiscipline
    <2>2. CASE UNCHANGED <<failed, pullErr>> /\ \A i \in Needs(L) : pulls[L][i] = 1
        BY <1>2, <2>1, <2>2
    <2>3. CASE /\ failed' = [failed EXCEPT ![L] = @ \cup {ImageAt(s)}]
               /\ \E why \in {"context", "daemon"} : pullErr' = [pullErr EXCEPT ![L] = why]
        <3>1. failed'[L] = {ImageAt(s)}
            BY <1>2, <2>3 DEF TypeOK
        <3>2. pullErr'[L] # "nil"
            BY <1>2, <2>3 DEF TypeOK
        <3>3. failed'[L] # {} /\ failed'[L] \subseteq {ImageAt(s)}
            BY <3>1
        <3> QED
            BY <2>1, <3>2, <3>3
    <2> QED
        BY <1>3, <2>2, <2>3
<1>9. PulledOnce'
    <2> SUFFICES ASSUME NEW l \in Languages PROVE PulledOnce!(l)'
        BY DEF PulledOnce
    <2>1. CASE l = L
        BY <1>1, <1>4, <1>6, <1>8, <2>1 DEF PulledOnce
    <2>2. CASE l # L
        BY <1>1, <1>6, <1>7, <2>2 DEF PulledOnce
    <2> QED
        BY <2>1, <2>2
<1>10. OnceDiscipline'
    <2> SUFFICES ASSUME NEW l \in Languages PROVE OnceDiscipline!(l)'
        BY DEF OnceDiscipline
    <2>1. CASE l = L
        BY <1>1, <1>6, <1>8, <2>1 DEF Needs
    <2>2. CASE l # L
        BY <1>1, <1>6, <1>7, <2>2 DEF OnceDiscipline, Needs
    <2> QED
        BY <2>1, <2>2
<1>11. PlaceDiscipline'
    <2> SUFFICES ASSUME NEW t \in Scripts PROVE PlaceDiscipline!(t)'
        BY DEF PlaceDiscipline
    <2>1. CASE t = s
        BY <1>1, <1>2, <1>8, <2>1 DEF TypeOK
    <2>2. CASE t # s /\ language[t] = L
        <3>1. t \notin Pulling(L)
            BY <1>2, <2>2
        <3> QED
            BY <1>1, <1>2, <2>2, <3>1 DEF TypeOK, PlaceDiscipline, Pulling
    <2>3. CASE t # s /\ language[t] # L
        BY <1>1, <1>7, <2>3 DEF TypeOK, PlaceDiscipline
    <2> QED
        BY <2>1, <2>2, <2>3
<1> QED
    BY <1>5, <1>9, <1>10, <1>11

LEMMA FrameIndInv ==
    ASSUME IndInv, Cancel \/ AllThrough \/ UNCHANGED vars
    PROVE  IndInv'
<1>1. /\ UNCHANGED <<language, separate, once, pullErr, pulls, failed, pc>>
      /\ cancelled' \in BOOLEAN
    BY DEF Cancel, AllThrough, vars, config, IndInv, TypeOK
<1>2. \A l \in Languages : Pulling(l)' = Pulling(l)
    BY <1>1 DEF Pulling
<1> QED
    BY <1>1, <1>2 DEF IndInv, TypeOK, PulledOnce, OnceDiscipline, PlaceDiscipline, Needs

LEMMA NextIndInv == IndInv /\ [Next]_vars => IndInv'
<1> SUFFICES ASSUME IndInv, [Next]_vars PROVE IndInv'
    OBVIOUS
<1>1. CASE Cancel \/ AllThrough \/ UNCHANGED vars
    BY <1>1, FrameIndInv
<1>2. ASSUME NEW s \in Scripts, LocalStep(s) PROVE IndInv'
    BY <1>2, DispatchIndInv, EnterIndInv, PassIndInv DEF LocalStep
<1>3. ASSUME NEW s \in Scripts, PullStep(s) PROVE IndInv'
    BY <1>3, AskRunIndInv, FinishIndInv DEF PullStep
<1> QED
    BY <1>1, <1>2, <1>3 DEF Next

\* IndInv holds of every reachable state, for any scripts and languages.
THEOREM InductiveInvariant == Spec => []IndInv
BY InitIndInv, NextIndInv, PTL DEF Spec

-----------------------------------------------------------------------------
(* What it implies.                                                          *)

\* Each image of a language is pulled at most once, however many scripts come
\* together.
THEOREM EachImagePulledOnce == Spec => []PulledOnce
<1>1. IndInv => PulledOnce
    BY DEF IndInv
<1> QED
    BY <1>1, InductiveInvariant, PTL

\* A script is prepared with all its images pulled, and refused for its own
\* language's sake only.
THEOREM PreparedHasImages == Spec => []PreparedFromOwnPulls
<1>1. IndInv => PreparedFromOwnPulls
    <2> SUFFICES ASSUME IndInv, NEW s \in Scripts PROVE PreparedFromOwnPulls!(s)
        BY DEF PreparedFromOwnPulls
    <2>1. CASE pc[s] = "prepared"
        <3>1. /\ language[s] \in Languages /\ once[language[s]] = "done"
              /\ failed[language[s]] = {}
            BY <2>1 DEF IndInv, PlaceDiscipline
        <3>2. /\ \A i \in Needs(language[s]) : pulls[language[s]][i] = 1
              /\ Pulling(language[s]) = {}
            BY <3>1 DEF IndInv, OnceDiscipline
        <3> QED
            BY <2>1, <3>1, <3>2 DEF Needs
    <2>2. CASE pc[s] # "prepared"
        BY <2>2 DEF IndInv, PlaceDiscipline
    <2> QED
        BY <2>1, <2>2
<1> QED
    BY <1>1, InductiveInvariant, PTL

\* No language ever has both a script that was let through and one that was
\* refused.
THEOREM OneAnswer == Spec => []SameAnswer
<1>1. IndInv => SameAnswer
    BY DEF IndInv, PlaceDiscipline, SameAnswer
<1> QED
    BY <1>1, InductiveInvariant, PTL
==============================================================================
