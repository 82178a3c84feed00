------------------------------ MODULE ImagePull ------------------------------
(* Prepare on its way to a language strategy: the registry finds the module  *)
(* of the script's language, and the module has the images of the language   *)
(* pulled once, under a sync.Once whose error it keeps. The goroutines of    *)
(* several scripts pass through at the same time. The daemon's pulls are     *)
(* external and appear as their outcomes.                                    *)
EXTENDS Naturals, FiniteSets

CONSTANTS
    Scripts,      \* the scripts, one goroutine each
    Languages,    \* the languages with a module
    NoLanguage    \* stands for any language without one

ASSUME ImagePullAssumption == NoLanguage \notin Languages

VARIABLES
    language,   \* the language of each script
    separate,   \* the languages whose run image differs from the build image
    cancelled,  \* main's context is done
    once,       \* the sync.Once of each language
    pullErr,    \* the error kept with it
    pulls,      \* how often each image was asked for
    failed,     \* the images whose pull returned an error
    pc          \* where the goroutine of each script is

vars == <<language, separate, cancelled, once, pullErr, pulls, failed, pc>>

config == <<language, separate>>

Images == {"build", "run"}
Places == {"dispatch", "ensure", "pullBuild", "pullRun", "leave", "prepared", "failed"}

Init ==
    /\ language \in [Scripts -> Languages \cup {NoLanguage}]
    /\ separate \in SUBSET Languages
    /\ cancelled = FALSE
    /\ once = [l \in Languages |-> "fresh"]
    /\ pullErr = [l \in Languages |-> "nil"]
    /\ pulls = [l \in Languages |-> [i \in Images |-> 0]]
    /\ failed = [l \in Languages |-> {}]
    /\ pc = [s \in Scripts |-> "dispatch"]

-----------------------------------------------------------------------------
Cancel ==
    /\ ~cancelled
    /\ cancelled' = TRUE
    /\ UNCHANGED <<config, once, pullErr, pulls, failed, pc>>

Goto(s, here, next) ==
    /\ pc[s] = here
    /\ pc' = [pc EXCEPT ![s] = next]

\* The registry has a module for the language, or Prepare returns an error.
Dispatch(s) ==
    /\ Goto(s, "dispatch", IF language[s] \in Languages THEN "ensure" ELSE "failed")
    /\ UNCHANGED <<config, cancelled, once, pullErr, pulls, failed>>

Ask(l, image) == pulls' = [pulls EXCEPT ![l][image] = @ + 1]

\* Mutant of Unclaimed: the check and the claim are not one step.
UnclaimedStill(l) == once[l] # "done"

Unclaimed(l) == once[l] = "fresh"

\* The first caller runs the function, which asks for the build image.
EnterOnce(s) ==
    /\ Goto(s, "ensure", "pullBuild")
    /\ Unclaimed(language[s])
    /\ once' = [once EXCEPT ![language[s]] = "running"]
    /\ Ask(language[s], "build")
    /\ UNCHANGED <<config, cancelled, pullErr, failed>>

\* Mutant of Over: a later caller does not wait for the first.
OverAtOnce(l) == once[l] # "fresh"

Over(l) == once[l] = "done"

\* Every later caller waits, whatever its context, until the first is done.
PassOnce(s) ==
    /\ Goto(s, "ensure", "leave")
    /\ Over(language[s])
    /\ UNCHANGED <<config, cancelled, once, pullErr, pulls, failed>>

\* Mutant of Finish: the once is not released.
FinishHeld(s) ==
    /\ pc' = [pc EXCEPT ![s] = "leave"]
    /\ UNCHANGED once

Finish(s) ==
    /\ pc' = [pc EXCEPT ![s] = "leave"]
    /\ once' = [once EXCEPT ![language[s]] = "done"]

\* Mutant of Needs: the run image is forgotten.
NeedsBuildOnly(l) == {"build"}

\* The run image is pulled too when it is another one.
Needs(l) == IF l \in separate THEN Images ELSE {"build"}

\* The pull of the build image has ended without an error, that is, its output
\* has been read to the end; what the output says is not looked at.
BuildPulled(s) ==
    /\ pc[s] = "pullBuild"
    /\ IF "run" \in Needs(language[s])
       THEN /\ pc' = [pc EXCEPT ![s] = "pullRun"]
            /\ Ask(language[s], "run")
            /\ UNCHANGED once
       ELSE Finish(s) /\ UNCHANGED pulls
    /\ UNCHANGED <<config, cancelled, pullErr, failed>>

RunPulled(s) ==
    /\ pc[s] = "pullRun"
    /\ Finish(s)
    /\ UNCHANGED <<config, cancelled, pullErr, pulls, failed>>

ImageAt(s) == IF pc[s] = "pullBuild" THEN "build" ELSE "run"

\* Mutant of KeepError: the error is dropped.
DropError(l, why) == UNCHANGED pullErr

KeepError(l, why) == pullErr' = [pullErr EXCEPT ![l] = why]

\* The pull fails: its error is kept and the function returns.
PullFails(s, why) ==
    /\ pc[s] \in {"pullBuild", "pullRun"}
    /\ failed' = [failed EXCEPT ![language[s]] = @ \cup {ImageAt(s)}]
    /\ KeepError(language[s], why)
    /\ Finish(s)
    /\ UNCHANGED <<config, cancelled, pulls>>

\* A pull is given the context of the script that came first.
PullAborted(s) == cancelled /\ PullFails(s, "context")

PullRefused(s) == PullFails(s, "daemon")

\* ensureImage returns the kept error, and only without one the strategy goes
\* on (ContainerRun).
LeaveOnce(s) ==
    /\ Goto(s, "leave", IF pullErr[language[s]] = "nil" THEN "prepared" ELSE "failed")
    /\ UNCHANGED <<config, cancelled, once, pullErr, pulls, failed>>

-----------------------------------------------------------------------------
LocalStep(s) == Dispatch(s) \/ EnterOnce(s) \/ PassOnce(s) \/ LeaveOnce(s)

PullStep(s) == BuildPulled(s) \/ RunPulled(s) \/ PullAborted(s) \/ PullRefused(s)

\* Every script is through.
AllThrough ==
    /\ \A s \in Scripts : pc[s] \in {"prepared", "failed"}
    /\ UNCHANGED vars

Next ==
    \/ Cancel
    \/ \E s \in Scripts : LocalStep(s) \/ PullStep(s)
    \/ AllThrough

Spec == Init /\ [][Next]_vars

\* Goroutines are scheduled, and a request with a done context returns. A pull
\* by itself may take for ever.
Fairness == \A s \in Scripts : WF_vars(LocalStep(s)) /\ WF_vars(PullAborted(s))

LiveSpec == Spec /\ Fairness

-----------------------------------------------------------------------------
(* Properties.                                                               *)

Pulling(l) == {s \in Scripts : language[s] = l /\ pc[s] \in {"pullBuild", "pullRun"}}

\* Every variable stays in its type.
TypeOK ==
    /\ language \in [Scripts -> Languages \cup {NoLanguage}]
    /\ separate \in SUBSET Languages
    /\ cancelled \in BOOLEAN
    /\ once \in [Languages -> {"fresh", "running", "done"}]
    /\ pullErr \in [Languages -> {"nil", "context", "daemon"}]
    /\ pulls \in [Languages -> [Images -> Nat]]
    /\ failed \in [Languages -> SUBSET Images]
    /\ pc \in [Scripts -> Places]

\* However many scripts of a language come together, each of its images is
\* pulled at most once, one after the other, and the run image only when it is
\* another one and the build image did not fail (language_runtime.go 38-53).
PulledOnce ==
    \A l \in Languages :
        /\ \A i \in Images : pulls[l][i] <= 1
        /\ pulls[l]["run"] = 1 => l \in separate /\ "build" \notin failed[l]
        /\ \A s, t \in Pulling(l) : s = t

\* A script reaches its strategy only with the pull of every image its language
\* uses ended without an error, and is refused only when its own language has
\* no module or a pull for its own language failed (registry.go 48-54,
\* module.go 42-52, language_runtime.go 38-53).
PreparedFromOwnPulls ==
    \A s \in Scripts :
        /\ pc[s] = "prepared" =>
              \A i \in (IF language[s] \in separate THEN Images ELSE {"build"}) :
                  pulls[language[s]][i] > 0 /\ i \notin failed[language[s]]
                      /\ Pulling(language[s]) = {}
        /\ pc[s] = "failed" =>
              language[s] \notin Languages \/ failed[language[s]] # {}

\* All scripts of a language get the same answer, whenever they come: the
\* answer of the first pull is never asked for again (language_runtime.go 16-17
\* and 39-52).
SameAnswer ==
    \A s, t \in Scripts :
        language[s] = language[t] /\ pc[s] = "prepared" => pc[t] # "failed"

\* Once the context is done, every script gets out of Prepare's wait for the
\* images: the pull under way is given up, and the waiting follow it
\* (language_runtime.go 39-52, container_engine.go 30-41).
CancelEndsPull ==
    \A s \in Scripts : cancelled ~> pc[s] \in {"prepared", "failed"}

-----------------------------------------------------------------------------
(* The inductive invariant of the proofs in ImagePullProofs.                 *)

\* A language's once tells how far its pulls have come, and one script at most
\* is at them.
OnceDiscipline ==
    \A l \in Languages :
        /\ once[l] = "fresh" => pulls[l] = [i \in Images |-> 0] /\ failed[l] = {}
        /\ once[l] = "running" => failed[l] = {} /\ Pulling(l) # {}
        /\ once[l] # "running" => Pulling(l) = {}
        /\ once[l] = "done" /\ failed[l] = {} => \A i \in Needs(l) : pulls[l][i] = 1
        /\ pullErr[l] = "nil" <=> failed[l] = {}

\* Where a script is tells what was asked for on its behalf.
PlaceDiscipline ==
    \A s \in Scripts :
        /\ pc[s] \notin {"dispatch", "failed"} => language[s] \in Languages
        /\ pc[s] = "pullBuild" =>
              pulls[language[s]]["build"] = 1 /\ pulls[language[s]]["run"] = 0
        /\ pc[s] = "pullRun" => \A i \in Images : pulls[language[s]][i] = 1
        /\ pc[s] = "leave" => once[language[s]] = "done"
        /\ pc[s] = "prepared" =>
              once[language[s]] = "done" /\ failed[language[s]] = {}
        /\ pc[s] = "failed" /\ language[s] \in Languages =>
              once[language[s]] = "done" /\ failed[language[s]] # {}

\* What the once of each language and the places of the goroutines satisfy
\* together in every reachable state of language_runtime.go 38-53.
IndInv == TypeOK /\ PulledOnce /\ OnceDiscipline /\ PlaceDiscipline
==============================================================================
