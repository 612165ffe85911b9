------------------------------ MODULE PlaceIndex ------------------------------
(***************************************************************************)
(* Gazetteer snapshots and their hot reload (rag/snapshot.py): a builder   *)
(* process writes snapshot.json and then version.txt, a worker boots from  *)
(* them and polls the marker. Neither file is written atomically: opening  *)
(* it for writing empties it. The resolver of PlaceResolution answers from *)
(* whichever gazetteer the worker holds.                                   *)
(*                                                                         *)
(* Kept: every file operation of both processes as a step, the order of    *)
(* the two files on each side, a builder that dies, a worker that          *)
(* restarts, a version that is the second of the build.                    *)
(***************************************************************************)
EXTENDS PlaceResolution, FiniteSets

CONSTANTS
    Corpora,      \* Corpora[n]: the curated places that the n-th build serialises
    Fragments,    \* what callers say, for the properties of the resolver
    Priors,       \* what is known of the caller's whereabouts
    MaxSeconds,   \* bound: seconds the clock counts
    MaxCrashes,   \* bound: builders that die
    MaxRestarts   \* bound: worker restarts

ASSUME IndexBounds ==
    /\ "district" \in Kinds
    /\ MaxSeconds \in Nat \ {0}
    /\ MaxCrashes \in Nat /\ MaxRestarts \in Nat

VARIABLES
    disk,     \* the two files; 0 is a missing or empty file
    builder,  \* the build in progress
    worker,   \* the SnapshotLoader of a worker process
    second,   \* the clock
    stamp,    \* stamp[n]: the version of build n (history)
    crashes, restarts  \* bound counters

vars == <<disk, builder, worker, second, stamp, crashes, restarts>>

\* Mutant: the marker is written first.
Files_MarkerFirst == <<"marker", "snapshot">>

\* The files of a build, in the order in which they are written.
Files == <<"snapshot", "marker">>

\* booted: the last build that had begun when the worker had booted (history).
Down == [at |-> "down", content |-> 0, version |-> 0, seen |-> 0, booted |-> 0]

Init ==
    /\ disk = [snapshot |-> 0, marker |-> 0]
    /\ builder = [at |-> 0, build |-> 0]
    /\ worker = Down
    /\ second = 1
    /\ stamp = [n \in 1 .. Len(Corpora) |-> 0]
    /\ crashes = 0 /\ restarts = 0

-----------------------------------------------------------------------------
(* The content of a snapshot. *)

\* Mutant: the rows forget their variants.
Rows_Bare(g) ==
    LET first == Kept(g, {i \in DOMAIN g : \A j \in 1 .. i - 1 :
                    ~(SameKey(g[j], g[i]) /\ g[j].kind = g[i].kind)})
    IN  [i \in DOMAIN first |-> [first[i] EXCEPT !.variants = <<>>]]

\* What build_snapshot writes: the canonical rows, one of a key and kind.
Rows(g) ==
    Kept(g, {i \in DOMAIN g : \A j \in 1 .. i - 1 :
                ~(SameKey(g[j], g[i]) /\ g[j].kind = g[i].kind)})

\* load_snapshot builds the index again. Build n serialised Corpora[n].
Served(n) == Exploded(Rows(Exploded(Corpora[n])))

-----------------------------------------------------------------------------
(* The builder. *)

\* build_snapshot takes its version from the clock and opens the first file.
StartBuild ==
    /\ builder.at = 0 /\ builder.build < Len(Corpora)
    /\ builder' = [at |-> 1, build |-> builder.build + 1]
    /\ stamp' = [stamp EXCEPT ![builder.build + 1] = second]
    /\ disk' = [disk EXCEPT ![Files[1]] = 0]
    /\ UNCHANGED <<worker, second, crashes, restarts>>

\* What the build writes into a file.
Content == [snapshot |-> builder.build, marker |-> stamp[builder.build]]

\* An opened file is empty; a written one is closed and the next is opened.
ContinueBuild ==
    /\ builder.at > 0
    /\ LET file == Files[builder.at \div 2 + 1] IN
        disk' = [disk EXCEPT ![file] = IF builder.at % 2 = 1 THEN Content[file] ELSE 0]
    /\ builder' = [builder EXCEPT !.at = (@ + 1) % 4]
    /\ UNCHANGED <<worker, second, stamp, crashes, restarts>>

BuilderDies ==
    /\ builder.at # 0 /\ crashes < MaxCrashes
    /\ builder' = [builder EXCEPT !.at = 0]
    /\ crashes' = crashes + 1
    /\ UNCHANGED <<disk, worker, second, stamp, restarts>>

Tick ==
    /\ second < MaxSeconds
    /\ second' = second + 1
    /\ UNCHANGED <<disk, builder, worker, stamp, crashes, restarts>>

-----------------------------------------------------------------------------
(* The worker. *)

\* from_dir reads the snapshot; without one, or with half of one, the boot fails
\* and is tried again.
BootLoad ==
    /\ worker.at = "down" /\ disk.snapshot # 0
    /\ worker' = [worker EXCEPT !.at = "booting", !.content = disk.snapshot]
    /\ UNCHANGED <<disk, builder, second, stamp, crashes, restarts>>

\* ... and then the marker.
BootMark ==
    /\ worker.at = "booting"
    /\ worker' = [worker EXCEPT !.at = "up", !.version = disk.marker,
                                !.booted = builder.build]
    /\ UNCHANGED <<disk, builder, second, stamp, crashes, restarts>>

\* poll_and_swap reads the marker; an absent, empty or known one ends the poll.
PollMarker ==
    /\ worker.at = "up"
    /\ disk.marker \notin {0, worker.version}
    /\ worker' = [worker EXCEPT !.at = "polling", !.seen = disk.marker]
    /\ UNCHANGED <<disk, builder, second, stamp, crashes, restarts>>

\* The load of the new snapshot: on failure the old one goes on serving, under
\* its old version.
AfterLoad(w) ==
    IF disk.snapshot = 0 THEN [w EXCEPT !.at = "up", !.seen = 0]
    ELSE [w EXCEPT !.at = "up", !.content = disk.snapshot, !.version = w.seen, !.seen = 0]

PollLoad ==
    /\ worker.at = "polling"
    /\ worker' = AfterLoad(worker)
    /\ UNCHANGED <<disk, builder, second, stamp, crashes, restarts>>

Restart ==
    /\ worker.at # "down" /\ restarts < MaxRestarts
    /\ worker' = Down
    /\ restarts' = restarts + 1
    /\ UNCHANGED <<disk, builder, second, stamp, crashes>>

-----------------------------------------------------------------------------

Building == StartBuild \/ ContinueBuild
Serving == BootLoad \/ BootMark \/ PollMarker \/ PollLoad

Next == Building \/ BuilderDies \/ Tick \/ Serving \/ Restart

Spec == Init /\ [][Next]_vars

-----------------------------------------------------------------------------
(* Properties. *)

InService == worker.at \in {"up", "polling"}
Serves(n) == InService /\ n = worker.content /\ n # 0

TypeOK ==
    /\ disk.snapshot \in 0 .. Len(Corpora) /\ disk.marker \in 0 .. MaxSeconds
    /\ builder.at \in 0 .. 3 /\ builder.build \in 0 .. Len(Corpora)
    /\ stamp \in [1 .. Len(Corpora) -> 0 .. MaxSeconds]
    /\ worker.at \in {"down", "booting", "up", "polling"}
    /\ {worker.content, worker.booted} \subseteq 0 .. Len(Corpora) /\ worker.version \in 0 .. MaxSeconds
    /\ InService => worker.content # 0

\* A worker in service answers every fragment as the curated files of some build
\* would: nothing of a place, its variants or its rank is lost on the way through
\* the snapshot, and never is half a snapshot served.
ServedAsCurated ==
    \A n \in 1 .. Len(Corpora) : Serves(n) => \A f \in Fragments, p \in Priors :
        Resolution(Served(n), f, p)
            = Resolution(Exploded(Corpora[n]), f, p)

\* A caller who says exactly a place's name or variant gets that place, whatever
\* the other signals make of it, as long as nothing is known of the caller. Of two
\* places of one name it is the one of the wider tier, which is listed first.
ExactNameWins ==
    \A n \in 1 .. Len(Corpora) : Serves(n) => \A f \in Fragments :
        LET g == Served(n)
            r == Resolution(g, f, NoPrior)
            named == {i \in DOMAIN g : Clean(g[i].matched) = Clean(f) /\ f # <<>>}
        IN  named # {} =>
                LET first == CHOOSE i \in named : \A j \in named : i <= j
                IN  SameKey(r[1].entry, g[first]) /\ r[1].score = 10000

\* No reload is missed: to a worker that was in service before a build began in a second
\* of its own, the complete build is either what it serves or a marker it does not know,
\* so that its next poll loads it. The snapshot is complete before its marker is, and a
\* poll that met half of it keeps the old version. A worker that boots meanwhile is not
\* covered: it reads the files in the order in which they are written, and may take the
\* new marker for the version of the old snapshot.
Complete(n) == disk = [snapshot |-> n, marker |-> stamp[n]]
NoReloadIsMissed ==
    \A n \in 1 .. Len(Corpora) :
        /\ InService /\ worker.booted < n
        /\ Complete(n) /\ \A m \in 1 .. n - 1 : stamp[m] # stamp[n]
        => Serves(n) \/ worker.version # disk.marker

=============================================================================
