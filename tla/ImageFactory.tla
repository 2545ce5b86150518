---------------------------- MODULE ImageFactory ----------------------------
(***************************************************************************)
(* The client of the Image Factory (internal/imagefactory) and the         *)
(* schematics it authors (httpapi/handlers/schematics.go).                 *)
(*                                                                         *)
(* One half is a cache: which of two repository names carries the          *)
(* installer of one version, asked of the registry for whatever schematic  *)
(* a request is about, shared by every schematic, filled by one caller at  *)
(* a time and asked again when an answer was had without ruling out the    *)
(* preferred name.  The other is the record of a schematic and the verdict *)
(* of the build probe that is kept on it.                                  *)
(***************************************************************************)
EXTENDS Naturals, Sequences, SequencesExt, FiniteSets

CONSTANTS
  Askers,       \* requests that need an installer reference
  SchematicIds, \* the schematics they ask for
  Posters,      \* requests that author the one customisation
  Arches, TalosVersions,
  MaxAsks,      \* bound: installer requests
  MaxPosts,     \* bound: authoring requests
  MaxExpiries   \* bound: retry intervals that pass

ASSUME FactoryAssumption == MaxAsks \in Nat /\ MaxPosts \in Nat /\ MaxExpiries \in Nat

VARIABLES
  carries,    \* repositories that have this version's installer
  buildable,  \* schematics the registry can build it for
  repoCache,  \* the cached answer: name, names never ruled out, age
  flight,     \* who is resolving the cold key, or nobody
  asker,      \* per request, where it is
  asks, expiries,
  builds,     \* pairs of architecture and version the customisation builds for
  record,     \* the stored schematic
  poster,     \* per authoring request, where it is
  posts       \* authoring requests made, which also orders the probes

installerVars == <<carries, buildable, repoCache, flight, asker, asks, expiries>>
schematicVars == <<builds, record, poster, posts>>
factoryVars == <<installerVars, schematicVars>>

(***************************************************************************)
(* Which repository.                                                       *)
(***************************************************************************)
installerCandidates == <<"metal-installer", "installer">>
NoEntry == [repo |-> "none", unresolved |-> <<>>, fresh |-> FALSE]
NoFlight == "nobody"

proven(entry) == entry.repo # "none" /\ entry.unresolved = <<>>

AskerIdle == [at |-> "idle"]
Pending(cands) == [c \in ToSet(cands) |-> "pending"]

(* What a walk of the candidates in order learned: the first that answers    *)
(* yes once everything before it is in, with what it passed over; all        *)
(* refused; or nothing usable.                                               *)
Heard(answers, cands, i) == \A j \in 1..i : answers[cands[j]] # "pending"
resolveInstallerRepo(answers, cands) ==
  LET yes == {i \in 1..Len(cands) : answers[cands[i]] = "yes"}
      first == CHOOSE i \in yes : \A j \in yes : i <= j
      silent == {c \in ToSet(cands) : answers[c] = "silent"}
  IN IF yes # {} /\ Heard(answers, cands, first)
     THEN [is |-> "found", repo |-> cands[first],
           unresolved |-> SelectSeq(SubSeq(cands, 1, first), LAMBDA c : answers[c] = "silent")]
     ELSE IF ~Heard(answers, cands, Len(cands)) THEN [is |-> "waiting"]
     ELSE IF silent = {} THEN [is |-> "refused"] ELSE [is |-> "unanswered"]

(* A request for an installer: the cache, the resolution somebody else is     *)
(* making, or one's own.                                                      *)
schematicAssets(a) ==
  /\ asker[a].at = "idle" /\ asks < MaxAsks
  /\ \E s \in SchematicIds : asker' = [asker EXCEPT ![a] = [at |-> "look", s |-> s, gone |-> "no"]]
  /\ asks' = asks + 1
  /\ UNCHANGED <<carries, buildable, repoCache, flight, expiries, schematicVars>>

installerRepo(a) ==
  /\ asker[a].at = "look"
  /\ \/ /\ repoCache.repo # "none"
        /\ asker' = [asker EXCEPT ![a] =
              IF proven(repoCache) \/ repoCache.fresh THEN AskerIdle
              ELSE [at |-> "requestion", s |-> asker[a].s, gone |-> asker[a].gone,
                    entry |-> repoCache, cands |-> repoCache.unresolved,
                    answers |-> Pending(repoCache.unresolved)]]
        /\ UNCHANGED flight
     \/ /\ repoCache.repo = "none" /\ flight # NoFlight
        /\ asker' = [asker EXCEPT ![a] = [@ EXCEPT !.at = "following"]]
        /\ UNCHANGED flight
     \/ /\ repoCache.repo = "none" /\ flight = NoFlight
        /\ flight' = a
        /\ asker' = [asker EXCEPT ![a] =
              [at |-> "leading", s |-> asker[a].s, gone |-> asker[a].gone,
               cands |-> installerCandidates, answers |-> Pending(installerCandidates)]]
  /\ UNCHANGED <<carries, buildable, repoCache, asks, expiries, schematicVars>>

Asking(a) == asker[a].at \in {"leading", "requestion"}

(* The registry on one candidate: it has the manifest of this schematic under *)
(* the name or it refuses, or nothing usable comes back.                      *)
registryRefused(s, repo) == repo \notin carries \/ s \notin buildable

probeStatus(a, c) ==
  /\ Asking(a) /\ c \in DOMAIN asker[a].answers /\ asker[a].answers[c] = "pending"
  /\ \E answer \in {"silent", IF registryRefused(asker[a].s, c) THEN "no" ELSE "yes"} :
       asker' = [asker EXCEPT ![a].answers[c] = answer]
  /\ UNCHANGED <<carries, buildable, repoCache, flight, asks, expiries, schematicVars>>

(* The request is cancelled, or its route's deadline passes: what is still     *)
(* out comes back as an error.                                                 *)
RequestGivesUp(a) ==
  /\ asker[a].at \in {"leading", "requestion", "following"} /\ asker[a].gone = "no"
  /\ \E why \in {"cancelled", "late"} :
       IF asker[a].at = "following" THEN asker' = [asker EXCEPT ![a] = AskerIdle]
       ELSE asker' = [asker EXCEPT ![a] =
              [@ EXCEPT !.gone = why,
                        !.answers = [c \in DOMAIN @ |-> IF @[c] = "pending" THEN "silent" ELSE @[c]]]]
  /\ UNCHANGED <<carries, buildable, repoCache, flight, asks, expiries, schematicVars>>

(* A proven entry is never overwritten; the caller is given what is kept. *)
storeInstallerRepo(next) ==
  IF proven(repoCache) THEN UNCHANGED repoCache ELSE repoCache' = next

Outcome(a) == resolveInstallerRepo(asker[a].answers, asker[a].cands)

(* The leader publishes its answer, and only then retires its flight. *)
leadInstallerFlight(a) ==
  /\ asker[a].at = "leading" /\ Outcome(a).is = "found"
  /\ LET next == [repo |-> Outcome(a).repo, unresolved |-> Outcome(a).unresolved, fresh |-> TRUE]
     IN storeInstallerRepo(next)
  /\ asker' = [asker EXCEPT ![a] = [at |-> "landing", callerGone |-> FALSE]]
  /\ UNCHANGED <<carries, buildable, flight, asks, expiries, schematicVars>>

LeaderFails(a) ==
  /\ asker[a].at = "leading" /\ Outcome(a).is \in {"refused", "unanswered"}
  /\ asker' = [asker EXCEPT ![a] = [at |-> "landing", callerGone |-> asker[a].gone = "cancelled"]]
  /\ UNCHANGED <<carries, buildable, repoCache, flight, asks, expiries, schematicVars>>

\* Mutant: a follower of a flight whose caller went away is left waiting.
retireFlightForgetting(a) ==
  /\ asker[a].at = "landing"
  /\ flight' = NoFlight
  /\ asker' = [b \in Askers |->
       IF b = a THEN AskerIdle
       ELSE IF asker[b].at = "following" /\ ~asker[a].callerGone THEN AskerIdle
       ELSE asker[b]]
  /\ UNCHANGED <<carries, buildable, repoCache, asks, expiries, schematicVars>>

(* Retiring the flight wakes whoever followed it: they share its answer and   *)
(* its error, but not an error that was its caller's own leaving.             *)
retireFlight(a) ==
  /\ asker[a].at = "landing"
  /\ flight' = NoFlight
  /\ asker' = [b \in Askers |->
       IF b = a THEN AskerIdle
       ELSE IF asker[b].at # "following" THEN asker[b]
       ELSE IF asker[a].callerGone THEN [asker[b] EXCEPT !.at = "look"]
       ELSE AskerIdle]
  /\ UNCHANGED <<carries, buildable, repoCache, asks, expiries, schematicVars>>

(* Asking again about the names an entry never ruled out. *)
requestionInstallerRepo(a) ==
  /\ asker[a].at = "requestion" /\ Outcome(a).is # "waiting"
  /\ LET entry == asker[a].entry
     IN CASE Outcome(a).is = "found" ->
               storeInstallerRepo([repo |-> Outcome(a).repo, unresolved |-> Outcome(a).unresolved,
                                   fresh |-> TRUE])
          [] Outcome(a).is = "refused" ->
               storeInstallerRepo([repo |-> entry.repo, unresolved |-> <<>>, fresh |-> TRUE])
          [] Outcome(a).is = "unanswered" /\ asker[a].gone = "cancelled" -> UNCHANGED repoCache
          [] OTHER -> storeInstallerRepo([entry EXCEPT !.fresh = TRUE])
  /\ asker' = [asker EXCEPT ![a] = AskerIdle]
  /\ UNCHANGED <<carries, buildable, flight, asks, expiries, schematicVars>>

RetryIntervalPasses ==
  /\ repoCache.fresh /\ ~proven(repoCache) /\ expiries < MaxExpiries
  /\ repoCache' = [repoCache EXCEPT !.fresh = FALSE] /\ expiries' = expiries + 1
  /\ UNCHANGED <<carries, buildable, flight, asker, asks, schematicVars>>

(***************************************************************************)
(* A schematic and its verdict.  The identity is the hash of what it       *)
(* customises, so every request below is about one record.                 *)
(***************************************************************************)
NoRecord == [rev |-> 0]
PosterIdle == [at |-> "idle"]

(* A request names an architecture and a version; a body, a name or a version *)
(* that does not validate goes no further.                                    *)
createSchematic(p) ==
  /\ poster[p].at = "idle" /\ posts < MaxPosts
  /\ \E ar \in Arches, v \in TalosVersions :
       poster' = [poster EXCEPT ![p] = [at |-> "author", arch |-> ar, ver |-> v]]
  /\ posts' = posts + 1
  /\ UNCHANGED <<builds, record, installerVars>>

validate(p) ==
  /\ poster[p].at = "author"
  /\ \E ok \in BOOLEAN :
       poster' = [poster EXCEPT ![p] = IF ok THEN [@ EXCEPT !.at = "catalog"] ELSE PosterIdle]
  /\ UNCHANGED <<builds, record, posts, installerVars>>

(* Author asks the version's catalog, and refuses an extension it lacks; ...   *)
ValidateExtensions(p) ==
  /\ poster[p].at = "catalog"
  /\ \E ok \in BOOLEAN :
       poster' = [poster EXCEPT ![p] = IF ok THEN [@ EXCEPT !.at = "create"] ELSE PosterIdle]
  /\ UNCHANGED <<builds, record, posts, installerVars>>

Probed(p, usable, stamp) ==
  [at |-> "put", arch |-> poster[p].arch, ver |-> poster[p].ver, usable |-> usable, probed |-> stamp]

(* ... creates it at the Factory, where an id that is not the computed one is  *)
(* kept without a verdict; ...                                                 *)
CreateSchematic(p) ==
  /\ poster[p].at = "create"
  /\ poster' \in {[poster EXCEPT ![p] = x] :
                   x \in {PosterIdle, [poster[p] EXCEPT !.at = "probe"], Probed(p, FALSE, 0)}}
  /\ UNCHANGED <<builds, record, posts, installerVars>>

(* ... and asks for an image of it.  Silence leaves the verdict open.          *)
ProbeBuildable(p) ==
  /\ poster[p].at = "probe"
  /\ \E answered \in BOOLEAN :
       poster' = [poster EXCEPT ![p] =
          Probed(p, answered /\ <<@.arch, @.ver>> \in builds, IF answered THEN posts ELSE 0)]
  /\ UNCHANGED <<builds, record, posts, installerVars>>

Verdict(p) == [usable |-> poster[p].usable, probed |-> poster[p].probed,
               about |-> <<poster[p].arch, poster[p].ver>>]

StoreSchematic(p) ==
  /\ poster[p].at = "put"
  /\ IF record = NoRecord
     THEN /\ record' = [rev |-> 1, arch |-> poster[p].arch, ver |-> poster[p].ver,
                        verdict |-> Verdict(p)]
          /\ poster' = [poster EXCEPT ![p] = PosterIdle]
     ELSE /\ poster' = [poster EXCEPT ![p].at = "refresh"]
          /\ UNCHANGED record
  /\ UNCHANGED <<builds, posts, installerVars>>

(* The record is read back, and the fresh verdict kept only if the probe      *)
(* answered and was about the architecture and version of the record.         *)
refreshTheStoredVerdict(p) ==
  /\ poster[p].at = "refresh"
  /\ poster' = [poster EXCEPT ![p] =
        IF record = NoRecord \/ poster[p].probed = 0 \/ record.arch # poster[p].arch
             \/ record.ver # poster[p].ver
        THEN PosterIdle ELSE [at |-> "swap", read |-> record, verdict |-> Verdict(p)]]
  /\ UNCHANGED <<builds, record, posts, installerVars>>

(* The whole record as it was read goes back, if nobody wrote in between. *)
SwapVerdict(p) ==
  /\ poster[p].at = "swap"
  /\ record' = IF record.rev = poster[p].read.rev
               THEN [poster[p].read EXCEPT !.rev = @ + 1, !.verdict = poster[p].verdict]
               ELSE record
  /\ poster' = [poster EXCEPT ![p] = PosterIdle]
  /\ UNCHANGED <<builds, posts, installerVars>>

deleteSchematic ==
  /\ record # NoRecord /\ record.rev = 1
  /\ record' = NoRecord
  /\ UNCHANGED <<builds, poster, posts, installerVars>>

(* The Factory comes to build, or ceases to build, for a pair. *)
FactoryMoves ==
  /\ posts = 1
  /\ \E b \in Arches \X TalosVersions :
       builds' = IF b \in builds THEN builds \ {b} ELSE builds \union {b}
  /\ UNCHANGED <<record, poster, posts, installerVars>>

(***************************************************************************)
(* The specification.                                                      *)
(***************************************************************************)
InstallerInit ==
  /\ carries \in SUBSET ToSet(installerCandidates) /\ buildable \in SUBSET SchematicIds
  /\ repoCache = NoEntry /\ flight = NoFlight /\ asker = [a \in Askers |-> AskerIdle]
  /\ asks = 0 /\ expiries = 0

SchematicInit ==
  /\ builds \in {{}, Arches \X TalosVersions}
  /\ record = NoRecord /\ poster = [p \in Posters |-> PosterIdle] /\ posts = 0

AskerSteps(a) ==
  \/ installerRepo(a) \/ leadInstallerFlight(a) \/ LeaderFails(a) \/ retireFlight(a)
  \/ requestionInstallerRepo(a) \/ \E c \in ToSet(installerCandidates) : probeStatus(a, c)

InstallerNext ==
  \/ \E a \in Askers : schematicAssets(a) \/ AskerSteps(a) \/ RequestGivesUp(a)
  \/ RetryIntervalPasses

SchematicNext ==
  \/ \E p \in Posters : \/ createSchematic(p) \/ validate(p) \/ ValidateExtensions(p)
                        \/ CreateSchematic(p) \/ ProbeBuildable(p) \/ StoreSchematic(p)
                        \/ refreshTheStoredVerdict(p) \/ SwapVerdict(p)
  \/ deleteSchematic \/ FactoryMoves

(***************************************************************************)
(* Properties.                                                             *)
(***************************************************************************)

(* Every request for an installer ends: a follower is answered, or takes over  *)
(* a flight whose own caller went away; it is never left on a channel nobody   *)
(* will close.                                                                 *)
AskersAreAnswered == \A a \in Askers : asker[a].at # "idle" ~> asker[a].at = "idle"

=============================================================================
