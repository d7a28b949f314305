-------------------------------- MODULE Agent --------------------------------
(***************************************************************************)
(* One local agent (cmd/agent, internal/agent) against an abstract backend:*)
(* it registers once when it starts, then polls the data plane, validates  *)
(* and saves what it receives over a last-known-good file, keeps it in     *)
(* memory for the applications, and acknowledges it to the control plane.  *)
(*                                                                         *)
(* Save replaces the cache file through a temporary file and two renames.  *)
(* Each of them is a step here, at which the process may stop or the file  *)
(* system refuse, because the next process finds what the files hold then. *)
(* The backend's credentials (internal/agentregistry) are reduced to the   *)
(* one the agent holds; the clock appears as the moment it expires.        *)
(*                                                                         *)
(* A snapshot carries checksums of the texts of its values.  Encoding JSON *)
(* rewrites such a text: the response of the data plane has no spaces and  *)
(* escapes <, > and &, the file of the cache is indented.  What a file, a  *)
(* response or the memory holds is therefore a document, a snapshot with   *)
(* the layout of its values, and the checksums match in one layout only.   *)
(***************************************************************************)
EXTENDS Naturals

CONSTANTS
    Flat,           \* snapshots with numbers, plain strings, {} and [] only
    Compact,        \* some value is composite, and stored without spaces: [1]
    Spaced,         \* some value is stored as no encoder writes it: {"a": 1}, "<"
    None,           \* no file, no snapshot, no etag
    Partial,        \* a file that was opened and not written to its end
    Configs,        \* the configs of a snapshot
    MaxFaults       \* bound on process stops and refused file operations

Snapshots == Flat \cup Compact \cup Spaced

Layouts   == {"flat", "compact", "spaced", "indented", "damaged"}
Documents == [snapshot : Snapshots, layout : Layouts]

ASSUME AgentNames ==
    /\ Flat \cap Compact = {} /\ Flat \cap Spaced = {} /\ Compact \cap Spaced = {}
    /\ None \notin Snapshots \cup Documents
    /\ Partial \notin Documents
    /\ None # Partial

ASSUME AgentBounds == MaxFaults \in Nat

VARIABLES
    path, previous, tmp,   \* contents of the three files of the cache
    snapshot,      \* SnapshotCache.snapshot, what applications are served
    etag,          \* Syncer.etag, as the snapshot it was computed from
    step,          \* where main and SyncOnce stand
    fetched,       \* the document SyncOnce is working on
    unacked,       \* its configs that SyncOnce has still to acknowledge
    credential,    \* the instance credential the agent holds
    acknowledged,  \* the registry's acknowledgement rows <<snapshot, config>>
    current,       \* what the data plane answers now
    up,            \* whether the backend is reachable
    saved,         \* the last snapshot Save returned nil for, by any process
    faults

files == <<path, previous, tmp>>
agentVars == <<files, snapshot, etag, step, fetched, unacked, credential>>
backend   == <<acknowledged, current, up>>
vars      == <<agentVars, backend, saved, faults>>

-----------------------------------------------------------------------------
(* Checksums and layouts *)

\* The layout in which the store keeps the values, which the data plane
\* computes the checksums from.
Stored(s) == IF s \in Flat THEN "flat" ELSE IF s \in Compact THEN "compact" ELSE "spaced"

\* json.Encoder, which compacts and escapes a RawMessage.
Encode(document) == [document EXCEPT !.layout = IF @ = "spaced" THEN "compact" ELSE @]

\* json.MarshalIndent, which does so and then indents it.
MarshalIndent(document) == [document EXCEPT !.layout = IF @ = "flat" THEN @ ELSE "indented"]

\* What the data plane answers for a snapshot.
Response(s) == Encode([snapshot |-> s, layout |-> Stored(s)])

\* A response with a value that is not the one the checksum was computed from.
Damaged(s) == [snapshot |-> s, layout |-> "damaged"]

ValidateSnapshot(document) == document.layout = Stored(document.snapshot)

-----------------------------------------------------------------------------
(* Startup *)

Running == step # "down"

Complete(file) == file \notin {None, Partial}

\* loadCache: a file that is missing, partial or invalid is only logged.
Load == snapshot' = IF Complete(path) /\ ValidateSnapshot(path) THEN path ELSE None

Start ==
    /\ step = "down"
    /\ Load
    /\ step' = "starting"
    /\ UNCHANGED <<files, etag, fetched, unacked, credential, backend, saved, faults>>

\* resolveIdentity and Register: one attempt, a fresh credential.
Register ==
    /\ step = "starting"
    /\ up
    /\ credential' = "live"
    /\ step' = "idle"
    /\ UNCHANGED <<files, snapshot, etag, fetched, unacked, backend, saved, faults>>

\* The request fails or times out.  startRemoteSync returns when there is no
\* credential, and no attempt follows.
RegisterFails ==
    /\ step = "starting"
    /\ step' = "disabled"
    /\ UNCHANGED <<files, snapshot, etag, fetched, unacked, credential, backend, saved, faults>>

-----------------------------------------------------------------------------
(* SyncOnce *)

\* Verify of the agent registry, on a fetch and on an acknowledgement.
Verify == credential = "live"

\* Mutant: the acknowledgements go out before the snapshot is saved.
FetchAcksFirst(response) ==
    /\ step = "idle"
    /\ up /\ Verify
    /\ ValidateSnapshot(response)
    /\ fetched' = response
    /\ unacked' = Configs
    /\ step' = "acking"
    /\ UNCHANGED <<files, snapshot, etag, credential, backend, saved, faults>>

\* Mutant: the etag is remembered before the snapshot is saved.
FetchRemembersEtag(response) ==
    /\ step = "idle"
    /\ up /\ Verify
    /\ ValidateSnapshot(response)
    /\ fetched' = response
    /\ etag' = response.snapshot
    /\ step' = "fetched"
    /\ UNCHANGED <<files, snapshot, unacked, credential, backend, saved, faults>>

\* Mutant: checksums are not compared before the snapshot is taken over.
FetchUnchecked(response) ==
    /\ step = "idle"
    /\ up /\ Verify
    /\ fetched' = response
    /\ step' = "fetched"
    /\ UNCHANGED <<files, snapshot, etag, unacked, credential, backend, saved, faults>>

\* A response of the data plane with status 200.  A 304, an error status, an
\* unreachable server and a response that fails validation change nothing.
Fetch(response) ==
    /\ step = "idle"
    /\ up /\ Verify
    /\ ValidateSnapshot(response)
    /\ fetched' = response
    /\ step' = "fetched"
    /\ UNCHANGED <<files, snapshot, etag, unacked, credential, backend, saved, faults>>

OpenTmp ==
    /\ step = "fetched"
    /\ tmp' = Partial
    /\ step' = "opened"
    /\ UNCHANGED <<path, previous, snapshot, etag, fetched, unacked, credential, backend, saved, faults>>

\* Write, Sync and Close of the indented snapshot
WriteTmp ==
    /\ step = "opened"
    /\ tmp' = MarshalIndent(fetched)
    /\ step' = "written"
    /\ UNCHANGED <<path, previous, snapshot, etag, fetched, unacked, credential, backend, saved, faults>>

\* The error of Remove is ignored, so the file may also stay.
RemovePrevious ==
    /\ step = "written"
    /\ previous' \in {None, previous}
    /\ step' = "cleared"
    /\ UNCHANGED <<path, tmp, snapshot, etag, fetched, unacked, credential, backend, saved, faults>>

\* Mutant: the old snapshot is deleted instead of moved aside.
MoveAsideDeletes ==
    /\ step = "cleared"
    /\ path' = None
    /\ step' = "moved"
    /\ UNCHANGED <<previous, tmp, snapshot, etag, fetched, unacked, credential, backend, saved, faults>>

\* Stat, and Rename(path, previous) if there is a file.
MoveAside ==
    /\ step = "cleared"
    /\ \/ path = None /\ UNCHANGED <<path, previous>>
       \/ path # None /\ previous' = path /\ path' = None
    /\ step' = "moved"
    /\ UNCHANGED <<tmp, snapshot, etag, fetched, unacked, credential, backend, saved, faults>>

\* Rename(tmp, path); the memory and the etag follow in the same process.
Install ==
    /\ step = "moved"
    /\ path' = tmp
    /\ tmp' = None
    /\ snapshot' = fetched
    /\ etag' = fetched.snapshot
    /\ saved' = fetched.snapshot
    /\ unacked' = Configs
    /\ step' = "acking"
    /\ UNCHANGED <<previous, fetched, credential, backend, faults>>

\* Acknowledge of the agent registry for the next config of the snapshot.
Acknowledge(c) ==
    /\ step = "acking"
    /\ c \in unacked
    /\ up /\ Verify
    /\ acknowledged' = acknowledged \cup {<<fetched.snapshot, c>>}
    /\ unacked' = unacked \ {c}
    /\ UNCHANGED <<files, snapshot, etag, step, fetched, credential, current, up, saved, faults>>

\* SyncOnce returns after the last acknowledgement, or at the first one that
\* fails or is not answered in time; the next poll begins a new SyncOnce.
SyncEnds ==
    /\ step = "acking"
    /\ step' = "idle"
    /\ unacked' = {}
    /\ UNCHANGED <<files, snapshot, etag, fetched, credential, backend, saved, faults>>

-----------------------------------------------------------------------------
(* Faults *)

Fault == faults < MaxFaults /\ faults' = faults + 1

\* The file system refuses an operation of Save, which returns the error.
SaveFails ==
    /\ Fault
    /\ \/ step \in {"fetched", "opened", "cleared"} /\ UNCHANGED files
       \/ /\ step = "moved"      \* Rename(previous, path), which may fail as well
          /\ \/ UNCHANGED files
             \/ /\ previous # None
                /\ path' = previous
                /\ previous' = None
                /\ UNCHANGED tmp
    /\ step' = "idle"
    /\ UNCHANGED <<snapshot, etag, fetched, unacked, credential, backend, saved>>

\* The process stops; only the files survive it.
Stop ==
    /\ Fault
    /\ Running
    /\ step' = "down"
    /\ snapshot' = None
    /\ etag' = None
    /\ fetched' = None
    /\ unacked' = {}
    /\ credential' = "none"
    /\ UNCHANGED <<files, backend, saved>>

CredentialExpires ==
    /\ credential = "live"
    /\ credential' = "expired"
    /\ UNCHANGED <<files, snapshot, etag, step, fetched, unacked, backend, saved, faults>>

\* The data plane's answer changes with the rollouts; the backend goes down and
\* comes back.
Backend ==
    /\ \/ current' \in Snapshots /\ UNCHANGED up
       \/ up' = ~up /\ UNCHANGED current
    /\ UNCHANGED <<agentVars, acknowledged, saved, faults>>

-----------------------------------------------------------------------------
(* Specification *)

Init ==
    /\ path = None /\ previous = None /\ tmp = None
    /\ snapshot = None /\ etag = None /\ fetched = None
    /\ step = "down"
    /\ unacked = {}
    /\ credential = "none"
    /\ acknowledged = {}
    /\ current \in Snapshots
    /\ up \in BOOLEAN
    /\ saved = None
    /\ faults = 0

Save == OpenTmp \/ WriteTmp \/ RemovePrevious \/ MoveAside \/ Install

Next ==
    \/ Start \/ Register \/ RegisterFails
    \/ \E response \in {Response(current), Damaged(current)} : Fetch(response)
    \/ Save
    \/ \E c \in Configs : Acknowledge(c)
    \/ SyncEnds
    \/ SaveFails \/ Stop \/ CredentialExpires
    \/ Backend

Spec == Init /\ [][Next]_vars

\* If-None-Match names what the data plane would send: it may answer 304.
NotModified == etag = current

\* SyncOnce goes on with what it has begun; the poll loop asks again and again,
\* and a backend that keeps coming back answers one of the polls.
Fairness ==
    /\ WF_vars(Save)
    /\ WF_vars(SyncEnds)
    /\ SF_vars(~NotModified /\ Fetch(Response(current)))

FairSpec == Spec /\ Fairness

-----------------------------------------------------------------------------
(* Properties *)

TypeOK ==
    /\ {path, previous} \subseteq Documents \cup {None}
    /\ tmp \in Documents \cup {None, Partial}
    /\ {snapshot, fetched} \subseteq Documents \cup {None}
    /\ {etag, saved} \subseteq Snapshots \cup {None}
    /\ step \in {"down", "starting", "disabled", "idle", "fetched", "opened",
                 "written", "cleared", "moved", "acking"}
    /\ unacked \subseteq Configs
    /\ credential \in {"none", "live", "expired"}
    /\ acknowledged \subseteq Snapshots \X Configs
    /\ current \in Snapshots
    /\ up \in BOOLEAN
    /\ faults \in Nat

\* A completely written snapshot, which Load accepts if its values are flat.
\* One with a composite value is complete, but Load refuses its indented text.
Usable(file) == Complete(file) /\ (file.snapshot \in Flat => ValidateSnapshot(file))

\* Once a snapshot was saved, one stop of the process or one refused file
\* operation never leaves the disk without a completely written snapshot,
\* wherever in Save it happens and whatever later polls do; and what Load is to
\* make of it depends on its values only.
OneFaultKeepsACopy ==
    saved # None /\ faults <= 1 => \E file \in {path, previous, tmp} : Usable(file)

Serves(s) == snapshot # None /\ snapshot.snapshot = s

\* The control plane hears of a snapshot only when the agent has it in memory,
\* where it is served, with matching checksums, and completely written at the
\* path where the next process looks, which accepts it if its values are flat.
AcknowledgedIsInstalled ==
    [][\A s \in Snapshots, c \in Configs :
          <<s, c>> \in acknowledged' \ acknowledged =>
              /\ Usable(path) /\ path.snapshot = s
              /\ Serves(s) /\ ValidateSnapshot(snapshot)]_vars

\* A running agent that has a snapshot keeps serving one with matching checksums
\* through outages, damaged responses, refused file operations and expired
\* credentials.
KeepsServing ==
    [][Running /\ Running' /\ snapshot # None =>
          snapshot' # None /\ ValidateSnapshot(snapshot')]_vars

Polling == step \notin {"down", "starting", "disabled"}

\* An agent that is polling with a valid credential ends up serving what a
\* reachable data plane keeps answering, provided that encoding the response
\* leaves its values as they were stored, although polls answered with a 304
\* bring nothing and saving may have failed before.
CatchesUp ==
    \A s \in Flat \cup Compact :
        <>[](up /\ current = s /\ Polling /\ Verify) => <>[]Serves(s)

\* An agent that is polling ends up serving what a reachable data plane keeps
\* answering.
PollersCatchUp ==
    \A s \in Snapshots :
        <>[](up /\ current = s /\ Polling) => <>[]Serves(s)

\* A process that starts after a snapshot was saved serves a snapshot.
RestartServes ==
    saved # None /\ Running => snapshot # None
=============================================================================
