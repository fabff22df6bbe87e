------------------------------ MODULE ModelStore ------------------------------
(* `encro organize` up to the start of the analysis: the model files are       *)
(* fetched on invoked, each through a .part file that is checked before it is  *)
(* renamed, the cuDNN libraries are unpacked from an archive, and nothing is   *)
(* organized before every model is there. Runs end, or crash, and are started  *)
(* again.                                                                      *)
(* Code: src/src/tagger/model_store.cpp, src/src/organize/organize_command.cpp.*)
EXTENDS Naturals

CONSTANTS
  ModelFiles,        \* the pinned model files
  Dlls,              \* libraries of the archive, the marker apart
  MaxVerifyRetries,  \* fetches after a wrong checksum (2 in the code)
  MaxModelRuns       \* bound: runs of the command

ASSUME ModelAssumption == MaxVerifyRetries \in Nat /\ MaxModelRuns \in Nat

Archive == "archive"
Marker == "marker"        \* cudnn64_9.dll
Remote == ModelFiles \union {Archive}
Libs == Dlls \union {Marker}

VARIABLES
  msPc,       \* where the run is
  invoked,    \* machine and command line of this run
  installed,  \* per file: "absent", "short", "wrong" (its size, not its content), "whole"
  partFile,   \* what the .part file of the current download holds
  todo,       \* model files still to fetch
  current,    \* the file being fetched
  attempt,    \* fetches whose checksum was wrong
  mirror,     \* the second endpoint is asked
  libs,       \* libraries in their place
  unpacked,   \* libraries unpacked and not yet in their place
  msExit,     \* exit status of the last run
  fetched,    \* history: this run asked the network for something
  complete,   \* history: nothing was missing when this run began
  modelRuns   \* runs begun

msVars == <<msPc, invoked, installed, partFile, todo, current, attempt, mirror, libs, unpacked,
            msExit, fetched, complete, modelRuns>>

\* available: the build has an inference backend; driver: an NVIDIA driver is there.
Invocations == [download: BOOLEAN, dir: BOOLEAN, available: BOOLEAN, driver: BOOLEAN]

MsInit ==
  /\ msPc = "idle" /\ modelRuns = 0
  /\ invoked = [download |-> FALSE, dir |-> FALSE, available |-> FALSE, driver |-> FALSE]
  /\ installed = [f \in Remote |-> "absent"]
  /\ libs = {} /\ unpacked = {}
  /\ partFile = "absent" /\ todo = {} /\ current = Archive /\ attempt = 0 /\ mirror = FALSE
  /\ msExit = 0 /\ fetched = FALSE /\ complete = FALSE

\* A file of another size counts as missing.
IsMissing_Exists(content) == content = "absent"
IsMissing(content) == content \in {"absent", "short"}

MissingFiles == {f \in ModelFiles : IsMissing(installed[f])}
CudnnThere == Marker \in libs

MsExitWith(code) == msPc' = "idle" /\ msExit' = code

\* Before the first run a model file may be there, cut short by its author's copy.
FoundShort ==
  /\ modelRuns = 0 /\ msPc = "idle"
  /\ \E f \in ModelFiles : installed' = [installed EXCEPT ![f] = "short"]
  /\ UNCHANGED <<msPc, invoked, partFile, todo, current, attempt, mirror, libs, unpacked, msExit,
                 fetched, complete, modelRuns>>

\* organizeDirError refuses a run with neither; the backend is asked for before
\* anything else.
BeginModels ==
  /\ msPc = "idle" /\ modelRuns < MaxModelRuns
  /\ modelRuns' = modelRuns + 1
  /\ \E r \in Invocations :
       /\ r.download \/ r.dir
       /\ modelRuns > 0 => r.available = invoked.available /\ r.driver = invoked.driver
       /\ invoked' = r
       /\ IF ~r.available THEN MsExitWith(1)
          ELSE msPc' = (IF r.download THEN "next" ELSE "check") /\ UNCHANGED msExit
       /\ todo' = IF r.download THEN MissingFiles ELSE {}
       /\ complete' = (MissingFiles = {} /\ (r.driver => CudnnThere))
  /\ fetched' = FALSE /\ unpacked' = {}
  /\ UNCHANGED <<installed, partFile, current, attempt, mirror, libs>>

StartFetch(f) ==
  /\ msPc' = "fetch" /\ current' = f
  /\ attempt' = 0 /\ mirror' = FALSE

\* downloadMissing: the model files, then the archive where there is a driver and
\* no marker.
NextFile ==
  /\ msPc = "next"
  /\ IF todo # {}
       THEN \E f \in todo : StartFetch(f) /\ todo' = todo \ {f}
     ELSE IF invoked.driver /\ ~CudnnThere THEN StartFetch(Archive) /\ UNCHANGED todo
     ELSE msPc' = "check" /\ UNCHANGED <<todo, current, attempt, mirror>>
  /\ UNCHANGED <<invoked, installed, partFile, libs, unpacked, msExit, fetched, complete, modelRuns>>

\* fetchOnce: curl fills a fresh .part file, and a failed one is removed.
Fetch ==
  /\ msPc = "fetch"
  /\ fetched' = TRUE
  /\ partFile' \in {"absent", "short", "wrong", "whole"}
  /\ IF partFile' # "absent" THEN msPc' = "verify" /\ UNCHANGED <<mirror, msExit>>
     ELSE IF ~mirror THEN mirror' = TRUE /\ UNCHANGED <<msPc, msExit>>
     ELSE MsExitWith(1) /\ UNCHANGED mirror
  /\ UNCHANGED <<invoked, installed, todo, current, attempt, libs, unpacked, complete, modelRuns>>

\* verifyDownload: the size, then the checksum.
Accepted_Size(content) == content # "short"
Accepted(content) == content = "whole"

\* A wrong size is final; a wrong checksum is fetched again, from the first
\* endpoint, a few times.
Verify ==
  /\ msPc = "verify"
  /\ IF Accepted(partFile) THEN msPc' = "rename" /\ UNCHANGED <<attempt, mirror, msExit>>
     ELSE IF partFile = "wrong" /\ attempt < MaxVerifyRetries
       THEN /\ msPc' = "fetch" /\ attempt' = attempt + 1 /\ mirror' = FALSE
            /\ UNCHANGED msExit
     ELSE MsExitWith(1) /\ UNCHANGED <<attempt, mirror>>
  /\ UNCHANGED <<invoked, installed, partFile, todo, current, libs, unpacked, fetched, complete,
                 modelRuns>>

RenamePart ==
  /\ msPc = "rename"
  /\ \/ /\ installed' = [installed EXCEPT ![current] = partFile]
        /\ partFile' = "absent"
        /\ msPc' = IF current = Archive THEN "unpack" ELSE "next"
        /\ UNCHANGED msExit
     \/ MsExitWith(1) /\ UNCHANGED <<installed, partFile>>
  /\ UNCHANGED <<invoked, todo, current, attempt, mirror, libs, unpacked, fetched, complete,
                 modelRuns>>

\* ensureCudnn: every library goes to a .part file first; one that cannot be written
\* discards them all.
Unpack ==
  /\ msPc = "unpack"
  /\ \/ unpacked' = Libs /\ msPc' = "install" /\ UNCHANGED msExit
     \/ MsExitWith(1) /\ UNCHANGED unpacked
  /\ UNCHANGED <<invoked, installed, partFile, todo, current, attempt, mirror, libs, fetched,
                 complete, modelRuns>>

\* The marker is moved into place after all the others.
Movable_Any(lib) == TRUE
Movable(lib) == lib # Marker \/ unpacked = {Marker}

Install ==
  /\ msPc = "install"
  /\ IF unpacked = {} THEN msPc' = "check" /\ UNCHANGED <<libs, unpacked, msExit>>
     ELSE \/ /\ \E lib \in {l \in unpacked : Movable(l)} :
                  libs' = libs \union {lib} /\ unpacked' = unpacked \ {lib}
             /\ UNCHANGED <<msPc, msExit>>
          \/ MsExitWith(1) /\ UNCHANGED <<libs, unpacked>>
  /\ UNCHANGED <<invoked, installed, partFile, todo, current, attempt, mirror, fetched, complete,
                 modelRuns>>

\* requireModels, after a download too; without a directory the run is over.
CheckModels ==
  /\ msPc = "check"
  /\ IF MissingFiles # {} THEN MsExitWith(1)
     ELSE IF ~invoked.dir THEN MsExitWith(0)
     ELSE msPc' = "engines" /\ UNCHANGED msExit
  /\ UNCHANGED <<invoked, installed, partFile, todo, current, attempt, mirror, libs, unpacked,
                 fetched, complete, modelRuns>>

\* Both engines are built, an error of each is reported; then runOrganize goes on.
BuildEngines ==
  /\ msPc = "engines"
  /\ \/ MsExitWith(1)
     \/ msPc' = "organizing" /\ UNCHANGED msExit
  /\ UNCHANGED <<invoked, installed, partFile, todo, current, attempt, mirror, libs, unpacked,
                 fetched, complete, modelRuns>>

\* The run of the pipeline ends: done, failed, or canceled (130).
OrganizeEnds ==
  /\ msPc = "organizing"
  /\ \E code \in {0, 1, 130} : MsExitWith(code)
  /\ UNCHANGED <<invoked, installed, partFile, todo, current, attempt, mirror, libs, unpacked,
                 fetched, complete, modelRuns>>

\* The process ends where it is; files in their place and .part files stay.
ModelCrash ==
  /\ msPc \notin {"idle", "organizing"}
  /\ MsExitWith(2)
  /\ UNCHANGED <<invoked, installed, partFile, todo, current, attempt, mirror, libs, unpacked,
                 fetched, complete, modelRuns>>

MsNext ==
  \/ FoundShort \/ BeginModels \/ NextFile \/ Fetch \/ Verify \/ RenamePart \/ Unpack
  \/ Install \/ CheckModels \/ BuildEngines \/ OrganizeEnds \/ ModelCrash

MsSpec == MsInit /\ [][MsNext]_msVars

Whole == \A f \in ModelFiles : installed[f] = "whole"

\* What is under its final name is what was pinned: no file of the right size has
\* other content, and the marker means that every library is there.
PinsHold ==
  /\ \A f \in Remote : installed[f] # "wrong"
  /\ CudnnThere => Libs \subseteq libs

\* Images are organized with every model whole. A download that succeeds leaves
\* nothing missing, one that had nothing to fetch asks the network for nothing, and
\* so does a run that was not told to download or cannot classify.
ProvisioningIsHonest ==
  /\ msPc \in {"engines", "organizing"} => Whole /\ invoked.dir /\ invoked.available
  /\ (msPc = "idle" /\ msExit = 0 /\ modelRuns > 0) =>
       Whole /\ (invoked.download /\ invoked.driver => CudnnThere)
  /\ fetched => invoked.download /\ invoked.available /\ ~complete

ModelsAreSound == PinsHold /\ ProvisioningIsHonest
=============================================================================
