----------------------------- MODULE AgentProofs -----------------------------
(***************************************************************************)
(* Proofs about the agent's cache, for every set of snapshots and configs  *)
(* and any number of faults.                                               *)
(***************************************************************************)
EXTENDS Agent, TLAPS

Installing == {"written", "cleared", "moved"}

\* What SyncOnce is working on is a document it has validated; the temporary
\* file holds it, indented, from its last write until it is renamed.
WorkingCopy ==
    /\ step \in {"fetched", "opened", "acking"} \cup Installing =>
          fetched \in Documents /\ ValidateSnapshot(fetched)
    /\ step \in Installing => tmp = MarshalIndent(fetched)

\* Between the installation and the last acknowledgement nothing but SyncOnce
\* touches the file and the memory.
InstalledCopy == step = "acking" => path = MarshalIndent(fetched) /\ snapshot = fetched

\* The memory and the complete files hold what was validated before.
ValidCopies ==
    /\ snapshot # None => ValidateSnapshot(snapshot)
    /\ path # None => Usable(path)
    /\ previous # None => Usable(previous)

\* Before the first fault the old snapshot is at path or, while it is being
\* replaced, at previous.
UntouchedCopy ==
    saved # None /\ faults = 0 =>
        IF step = "moved" THEN previous # None ELSE path # None

\* After one fault one of the two files holds a snapshot whenever the temporary
\* file may be partial.
SurvivingCopy ==
    saved # None /\ faults <= 1 /\ step \notin Installing => path # None \/ previous # None

CacheInv ==
    TypeOK /\ WorkingCopy /\ InstalledCopy /\ ValidCopies /\ UntouchedCopy /\ SurvivingCopy

-----------------------------------------------------------------------------
\* Indenting a validated document gives a document of the same snapshot, one
\* that is still valid if its values are flat.
LEMMA IndentedCopy ==
    ASSUME NEW document \in Documents, ValidateSnapshot(document)
    PROVE  /\ MarshalIndent(document) \in Documents
           /\ MarshalIndent(document).snapshot = document.snapshot
           /\ Usable(MarshalIndent(document))
  <1>1. document.snapshot \in Snapshots /\ document.layout \in Layouts
    BY DEF Documents
  <1>2. /\ MarshalIndent(document) \in Documents
        /\ MarshalIndent(document).snapshot = document.snapshot
        /\ document.layout = "flat" => MarshalIndent(document).layout = "flat"
    BY <1>1 DEF MarshalIndent, Documents, Layouts
  <1> QED
    BY <1>2, AgentNames DEF Usable, Complete, ValidateSnapshot, Stored

\* What the data plane may answer is a document.
LEMMA AnswerIsDocument ==
    ASSUME TypeOK
    PROVE  {Response(current), Damaged(current)} \subseteq Documents
  <1>1. [snapshot |-> current, layout |-> Stored(current)] \in Documents
    BY DEF TypeOK, Documents, Layouts, Stored
  <1> QED
    BY <1>1 DEF TypeOK, Documents, Layouts, Response, Encode, Damaged

LEMMA InitCache == Init => CacheInv
  BY AgentNames DEF Init, CacheInv, TypeOK, WorkingCopy, InstalledCopy, ValidCopies,
     UntouchedCopy, SurvivingCopy, Installing

\* The steps that move no file and leave SyncOnce outside Save.
LEMMA QuietSteps ==
    CacheInv /\ (Start \/ Register \/ RegisterFails \/ SyncEnds \/ CredentialExpires
                 \/ Backend \/ \E c \in Configs : Acknowledge(c))
        => CacheInv'
  <1> USE AgentNames DEF CacheInv, TypeOK, WorkingCopy, InstalledCopy, ValidCopies,
          UntouchedCopy, SurvivingCopy, Installing, files, agentVars, backend
  <1>1. CacheInv /\ Start => CacheInv'
    BY DEF Start, Load, Complete
  <1>2. CacheInv /\ (Register \/ RegisterFails) => CacheInv'
    BY DEF Register, RegisterFails
  <1>3. CacheInv /\ SyncEnds => CacheInv'
    BY DEF SyncEnds
  <1>4. CacheInv /\ (CredentialExpires \/ Backend) => CacheInv'
    <2>1. CacheInv /\ CredentialExpires => CacheInv'
      BY DEF CredentialExpires
    <2>2. CacheInv /\ Backend => CacheInv'
      <3> SUFFICES ASSUME CacheInv, Backend PROVE CacheInv'
        OBVIOUS
      <3>1. current' \in Snapshots /\ up' \in BOOLEAN
        BY DEF Backend
      <3>2. UNCHANGED <<path, previous, tmp, snapshot, etag, step, fetched, unacked, credential,
                        acknowledged, saved, faults>>
        BY DEF Backend
      <3> QED
        BY <3>1, <3>2
    <2> QED
      BY <2>1, <2>2
  <1>5. ASSUME CacheInv, NEW c \in Configs, Acknowledge(c) PROVE CacheInv'
    <2>1. fetched.snapshot \in Snapshots
      BY <1>5 DEF Acknowledge, Documents
    <2> QED
      BY <1>5, <2>1 DEF Acknowledge
  <1> QED
    BY <1>1, <1>2, <1>3, <1>4, <1>5

\* The steps of SyncOnce up to the installation.
LEMMA SaveSteps ==
    CacheInv /\ (Save \/ \E response \in {Response(current), Damaged(current)} : Fetch(response)) => CacheInv'
  <1> USE AgentNames DEF CacheInv, TypeOK, WorkingCopy, InstalledCopy, ValidCopies,
          UntouchedCopy, SurvivingCopy, Installing, files, agentVars, backend
  <1>1. ASSUME CacheInv, NEW response \in {Response(current), Damaged(current)}, Fetch(response)
        PROVE  CacheInv'
    <2>1. response \in Documents
      BY <1>1, AnswerIsDocument
    <2>2. ValidateSnapshot(response) /\ fetched' = response
      BY <1>1 DEF Fetch
    <2> QED
      BY <1>1, <2>1, <2>2 DEF Fetch
  <1>2. CacheInv /\ OpenTmp => CacheInv'
    BY DEF OpenTmp
  <1>3. CacheInv /\ WriteTmp => CacheInv'
    BY IndentedCopy DEF WriteTmp
  <1>4. CacheInv /\ RemovePrevious => CacheInv'
    BY DEF RemovePrevious
  <1>5. CacheInv /\ MoveAside => CacheInv'
    BY DEF MoveAside
  <1>6. CacheInv /\ Install => CacheInv'
    <2> SUFFICES ASSUME CacheInv, Install PROVE CacheInv'
      OBVIOUS
    <2>1. fetched \in Documents /\ ValidateSnapshot(fetched) /\ tmp = MarshalIndent(fetched)
      BY DEF Install
    <2>2. fetched.snapshot \in Snapshots
      BY <2>1 DEF Documents
    <2>3. MarshalIndent(fetched) \in Documents /\ Usable(MarshalIndent(fetched))
      BY <2>1, IndentedCopy
    <2> QED
      BY <2>1, <2>2, <2>3 DEF Install
  <1> QED
    BY <1>1, <1>2, <1>3, <1>4, <1>5, <1>6 DEF Save

\* A stop or a refused file operation.
LEMMA FaultSteps == CacheInv /\ (SaveFails \/ Stop) => CacheInv'
  <1> USE AgentNames, AgentBounds DEF CacheInv, TypeOK, WorkingCopy, InstalledCopy, ValidCopies,
          UntouchedCopy, SurvivingCopy, Installing, files, agentVars, backend, Fault
  <1>1. CacheInv /\ SaveFails => CacheInv'
    BY DEF SaveFails
  <1>2. CacheInv /\ Stop => CacheInv'
    BY DEF Stop, Running
  <1> QED
    BY <1>1, <1>2

LEMMA CacheInvariant == Spec => []CacheInv
  <1>1. CacheInv /\ UNCHANGED vars => CacheInv'
    BY DEF CacheInv, TypeOK, WorkingCopy, InstalledCopy, ValidCopies, UntouchedCopy,
       SurvivingCopy, Installing, vars, files, agentVars, backend
  <1>2. CacheInv /\ [Next]_vars => CacheInv'
    BY <1>1, QuietSteps, SaveSteps, FaultSteps DEF Next
  <1> QED
    BY InitCache, <1>2, PTL DEF Spec

-----------------------------------------------------------------------------
\* Once a snapshot was saved, one stop or one refused file operation of Save
\* never leaves the disk without a completely written snapshot, one that Load
\* accepts if its values are flat.
THEOREM CopySurvives == Spec => []OneFaultKeepsACopy
  <1>1. CacheInv => OneFaultKeepsACopy
    <2> SUFFICES ASSUME CacheInv, saved # None, faults <= 1
                 PROVE  \E file \in {path, previous, tmp} : Usable(file)
      BY DEF OneFaultKeepsACopy
    <2>1. CASE step \in Installing
      BY <2>1, IndentedCopy DEF CacheInv, WorkingCopy
    <2>2. CASE step \notin Installing
      BY <2>2 DEF CacheInv, SurvivingCopy, ValidCopies
    <2> QED
      BY <2>1, <2>2
  <1> QED
    BY CacheInvariant, <1>1, PTL

\* Only the next acknowledgement of SyncOnce adds to the acknowledgements.
LEMMA AcknowledgementsAdded ==
    ASSUME [Next]_vars, acknowledged' # acknowledged
    PROVE  \E c \in Configs : Acknowledge(c)
  BY DEF Next, vars, Start, Register, RegisterFails, Fetch, Save, OpenTmp, WriteTmp,
     RemovePrevious, MoveAside, Install, SyncEnds, SaveFails, Stop, CredentialExpires,
     Backend, backend

\* SyncOnce acknowledges only what Save has put in memory, validated, and
\* completely on disk at the path Load reads.
THEOREM InstalledBeforeAcknowledged == Spec => AcknowledgedIsInstalled
  <1> DEFINE Installed(s) == /\ Usable(path) /\ path.snapshot = s
                             /\ Serves(s) /\ ValidateSnapshot(snapshot)
             Step == \A s \in Snapshots, c \in Configs :
                        <<s, c>> \in acknowledged' \ acknowledged => Installed(s)
  <1>1. CacheInv /\ [Next]_vars => Step
    <2> SUFFICES ASSUME CacheInv, [Next]_vars,
                        NEW s \in Snapshots, NEW c \in Configs,
                        <<s, c>> \in acknowledged' \ acknowledged
                 PROVE  Installed(s)
      OBVIOUS
    <2>1. PICK d \in Configs : Acknowledge(d)
      BY AcknowledgementsAdded
    <2>2. step = "acking" /\ s = fetched.snapshot
      BY <2>1 DEF Acknowledge
    <2>3. fetched \in Documents /\ ValidateSnapshot(fetched)
      BY <2>2 DEF CacheInv, WorkingCopy
    <2>4. path = MarshalIndent(fetched) /\ snapshot = fetched
      BY <2>2 DEF CacheInv, InstalledCopy
    <2>5. fetched # None
      BY <2>3, AgentNames
    <2> QED
      BY <2>2, <2>3, <2>4, <2>5, IndentedCopy DEF Serves
  <1>2. Step => \A s \in Snapshots, c \in Configs :
                    <<s, c>> \in acknowledged' \ acknowledged =>
                        /\ Usable(path) /\ path.snapshot = s
                        /\ Serves(s) /\ ValidateSnapshot(snapshot)
    OBVIOUS
  <1> HIDE DEF Step
  <1> QED
    BY CacheInvariant, <1>1, <1>2, PTL DEF Spec, AcknowledgedIsInstalled

\* A running agent that serves a snapshot goes on serving a valid one.
THEOREM ServingContinues == Spec => KeepsServing
  <1> DEFINE Step == Running /\ Running' /\ snapshot # None =>
                        snapshot' # None /\ ValidateSnapshot(snapshot')
  <1>1. CacheInv /\ [Next]_vars => Step
    <2> SUFFICES ASSUME CacheInv, [Next]_vars, Running, Running', snapshot # None
                 PROVE  snapshot' # None /\ ValidateSnapshot(snapshot')
      OBVIOUS
    <2>1. ValidateSnapshot(snapshot)
      BY DEF CacheInv, ValidCopies
    <2>2. snapshot' = snapshot \/ (snapshot' = fetched /\ step = "moved")
      BY DEF Next, vars, Running, agentVars, Start, Register, RegisterFails, Fetch, Save, OpenTmp,
         WriteTmp, RemovePrevious, MoveAside, Install, Acknowledge, SyncEnds, SaveFails, Stop,
         CredentialExpires, Backend
    <2>3. step = "moved" => fetched \in Documents /\ ValidateSnapshot(fetched)
      BY DEF CacheInv, WorkingCopy, Installing
    <2>4. None \notin Documents
      BY AgentNames
    <2> QED
      BY <2>1, <2>2, <2>3, <2>4
  <1> QED
    BY CacheInvariant, <1>1, PTL DEF Spec, KeepsServing
=============================================================================
