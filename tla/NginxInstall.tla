---------------------------- MODULE NginxInstall ----------------------------
(***************************************************************************)
(* integrations/nginx/install.go and github.go: InstallModule, run again   *)
(* and again as its user follows the remedies, upgrades NGINX between two  *)
(* runs, or interrupts one.                                                *)
(*                                                                         *)
(* The module directory holds one file per NGINX version and a link to one *)
(* of them; the download goes to a temporary directory, which is removed   *)
(* when InstallModule returns unless its file is the remedy.  temp is that *)
(* of the last run; a run makes a new one.  GitHub is asked without a      *)
(* timeout.                                                                *)
(***************************************************************************)
EXTENDS Integers

CONSTANTS
  Versions,   \* NGINX versions
  NoVersion,  \* none of them
  MaxRuns     \* bound on the runs of the command

ASSUME InstallAssumption == MaxRuns \in Nat /\ NoVersion \notin Versions

VARIABLES
  runs,      \* runs begun
  install,   \* InstallModule: pc, dryRun, version, platform, destDir, saveDir, error,
             \* and the pc at which it was interrupted
  nginx,     \* the NGINX version there is, if any
  temp,      \* the temporary directory of the run: none, empty or file
  files,     \* modules in the module directory
  link,      \* the version ngx_http_akita_module.so points to
  litter,    \* runs before the last one whose temporary directory is still there
  before,    \* history: files and link when the run began
  excused    \* history: runs that were interrupted or left a file to copy

dirVars     == <<temp, files, link, litter, excused>>
installVars == <<runs, install, nginx, before, dirVars>>

Ready == [pc |-> "off", dryRun |-> FALSE, version |-> NoVersion, platform |-> "none",
          destDir |-> FALSE, saveDir |-> FALSE, error |-> "none", stage |-> "none"]

InstallInit ==
  /\ runs = 0
  /\ install = Ready
  /\ nginx \in Versions \cup {NoVersion}
  /\ temp = "none" /\ files = {} /\ link = NoVersion
  /\ litter = {} /\ excused = {}
  /\ before = <<files, link>>

Continue(pc) == install' = [install EXCEPT !.pc = pc]

(* The deferred RemoveAll runs in the same step as the return. *)
Return(error, save) ==
  /\ install' = [install EXCEPT !.pc = "returned", !.error = error, !.saveDir = save]
  /\ IF save THEN UNCHANGED temp ELSE temp' = "none"
  /\ excused' = IF error = "copy" THEN excused \cup {runs} ELSE excused

Step(pc) == install.pc = pc

-----------------------------------------------------------------------------
(* Between the runs *)

Begin(dry) ==
  /\ install.pc = "off" /\ runs < MaxRuns
  /\ runs' = runs + 1
  /\ install' = [Ready EXCEPT !.pc = "version", !.dryRun = dry]
  /\ before' = <<files, link>>
  /\ litter' = IF temp = "none" THEN litter ELSE litter \cup {runs}
  /\ temp' = "none"
  /\ UNCHANGED <<nginx, files, link, excused>>

(* The user interrupts the command: the deferred removal does not run, and *)
(* everything stays as it is at that moment.                               *)
Interrupt ==
  /\ install.pc \notin {"off", "returned", "interrupted"}
  /\ install' = [install EXCEPT !.pc = "interrupted", !.stage = install.pc]
  /\ excused' = excused \cup {runs}
  /\ UNCHANGED <<runs, nginx, before, temp, files, link, litter>>

-----------------------------------------------------------------------------
(* InstallModule *)

(* FindNginxVersion: no nginx, or an answer that cannot be used. *)
FindVersion ==
  /\ Step("version")
  /\ \/ Return(IF nginx = NoVersion THEN "uninstalled" ELSE "unknown", FALSE)
     \/ /\ nginx # NoVersion
        /\ install' = [install EXCEPT !.pc = "platform", !.version = nginx]
        /\ UNCHANGED <<temp, excused>>
  /\ UNCHANGED <<runs, nginx, before, files, link, litter>>

(* FindPlatform: an identification, from lsb_release or a release file;    *)
(* none; or, when the output of the first that can be read is not          *)
(* understood, the empty one (errors.Wrap of a nil error is nil).          *)
FindPlatform ==
  /\ Step("platform")
  /\ \/ Return("unknown", FALSE)
     \/ \E id \in {"identified", "empty"} :
          /\ install' = [install EXCEPT !.pc = "assets", !.platform = id]
          /\ UNCHANGED <<temp, excused>>
  /\ UNCHANGED <<runs, nginx, before, files, link, litter>>

(* GetLatestReleaseAssets, which may wait for ever, and the search for the *)
(* one that fits.                                                          *)
SelectAsset ==
  /\ Step("assets")
  /\ \/ Return("download", FALSE)
     \/ Return("unsupported", FALSE)
     \/ Continue("hung") /\ UNCHANGED <<temp, excused>>
     \/ /\ install.platform = "identified"
        /\ Continue("directory")
        /\ UNCHANGED <<temp, excused>>
  /\ UNCHANGED <<runs, nginx, before, files, link, litter>>

(* FindNginxModuleDir; a dry run ends here. *)
FindModuleDir ==
  /\ Step("directory")
  /\ \E found \in BOOLEAN :
       IF install.dryRun THEN Return("none", FALSE)
       ELSE /\ install' = [install EXCEPT !.pc = "mkdir", !.destDir = found]
            /\ UNCHANGED <<temp, excused>>
  /\ UNCHANGED <<runs, nginx, before, files, link, litter>>

MkdirTemp ==
  /\ Step("mkdir")
  /\ \/ Return("download", FALSE)
     \/ temp' = "empty" /\ Continue("download") /\ UNCHANGED excused
  /\ UNCHANGED <<runs, nginx, before, files, link, litter>>

(* DownloadReleaseAsset: creates the file first, whatever comes then. *)
Download ==
  /\ Step("download")
  /\ \/ Return("download", FALSE)
     \/ temp' = "file" /\ Continue("move") /\ UNCHANGED excused
     \/ temp' = "file" /\ Continue("hung") /\ UNCHANGED excused
  /\ UNCHANGED <<runs, nginx, before, files, link, litter>>

(* Mutant: the directory is not saved when the move fails. *)
MoveNotSaved ==
  /\ Step("move")
  /\ \/ Return("copy", ~install.destDir) /\ UNCHANGED files
     \/ /\ install.destDir
        /\ files' = files \cup {install.version}
        /\ temp' = "empty" /\ Continue("unlink") /\ UNCHANGED excused
  /\ UNCHANGED <<runs, nginx, before, link, litter>>

(* Rename into the module directory; without one, or if it fails, the      *)
(* download is kept for the user to copy.                                  *)
Move ==
  /\ Step("move")
  /\ \/ Return("copy", TRUE) /\ UNCHANGED files
     \/ /\ install.destDir
        /\ files' = files \cup {install.version}
        /\ temp' = "empty" /\ Continue("unlink") /\ UNCHANGED excused
  /\ UNCHANGED <<runs, nginx, before, link, litter>>

(* Remove the old link; an error is logged. *)
RemoveLink ==
  /\ Step("unlink")
  /\ link' \in {link, NoVersion}
  /\ Continue("symlink")
  /\ UNCHANGED <<runs, nginx, before, temp, files, litter, excused>>

(* Symlink fails if the link is there, and may fail otherwise. *)
Symlink ==
  /\ Step("symlink")
  /\ \/ Return("symlink", FALSE) /\ UNCHANGED link
     \/ link = NoVersion /\ link' = install.version /\ Return("none", FALSE)
  /\ UNCHANGED <<runs, nginx, before, files, litter>>

InstallStep ==
  \/ FindVersion \/ FindPlatform \/ SelectAsset \/ FindModuleDir \/ MkdirTemp
  \/ Download \/ Move \/ RemoveLink \/ Symlink

-----------------------------------------------------------------------------
(* Properties *)

(* Whatever earlier runs left behind, and also of a run that is            *)
(* interrupted: the link never dangles, no module is removed, and a dry    *)
(* run changes nothing.  A run that announces success has linked the       *)
(* version it found, and a remedy names a file that is there.  The link is *)
(* as it was before the run, or to the new version, or it is gone; gone it *)
(* is only if Symlink failed, or between Remove and Symlink, where NGINX   *)
(* has nothing to load and an interrupt leaves it so, with the new module  *)
(* in place.  Temporary directories are left only by runs that were        *)
(* interrupted or whose remedy is to copy the file (InstallModule).        *)
InstallInv ==
  LET i == install
      returned == i.pc = "returned"
      unlinked == /\ link = NoVersion /\ i.version \in files
                  /\ i.error = "symlink" \/ "symlink" \in {i.pc, i.stage} IN
  /\ link # NoVersion => link \in files
  /\ before[1] \subseteq files
  /\ i.dryRun => <<files, link>> = before
  /\ returned /\ ~i.dryRun /\ i.error = "none" => link = i.version
  /\ returned => temp = (IF i.error = "copy" THEN "file" ELSE "none")
  /\ i.pc # "off" => link \in {before[2], i.version} \/ unlinked
  /\ litter \subseteq excused
  /\ i.pc \in {"returned", "interrupted"} /\ temp # "none" => runs \in excused
=============================================================================
