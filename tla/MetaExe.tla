------------------------------- MODULE MetaExe -------------------------------
(***************************************************************************)
(* kdbus_meta_append_exe (src/metadata.c 196-235) against another thread  *)
(* of the sending process that replaces the process's executable file.    *)
(*                                                                         *)
(* The producer takes mm->mmap_sem for reading, keeps a pointer to the    *)
(* struct path inside mm->exe_file (path_get pins the dentry and mount,   *)
(* not the file), drops the semaphore and the mm, and then uses the       *)
(* pointer for d_path and path_put.  The other thread runs the kernel's   *)
(* munmap of the executable's text mapping and prctl(PR_SET_MM,           *)
(* PR_SET_MM_EXE_FILE), each under mmap_sem held for writing; the last    *)
(* fput of a struct file frees it.  Those kernel paths are not part of    *)
(* this repository: they are modelled from their documented effect, and   *)
(* spec.md 5 ("fully parallel execution model") is what lets them run     *)
(* between two steps of a metadata append.                                *)
(*                                                                         *)
(* What d_path writes is not modelled (MetaAppend has the record it       *)
(* appends); this module is about which file object each step reads.     *)
(***************************************************************************)
EXTENDS Naturals

CONSTANTS
  ExeFile,   (* the struct file of the executable the process runs         *)
  NewFile,   (* the file the other thread passes to prctl by its fd       *)
  NoFile     (* NULL                                                      *)

Files == {ExeFile, NewFile}

VARIABLES
  exeFile,   (* mm->exe_file                                               *)
  fref,      (* struct file reference counts                              *)
  freed,     (* file objects released by their last fput                  *)
  mapped,    (* the executable's text mapping still references ExeFile     *)
  readers,   (* mmap_sem readers; writers hold it within one step         *)
  apc,       (* the appending thread's step                               *)
  exePath,   (* the file whose f_path exe_path points into, or NoFile     *)
  page,      (* the temporary page is allocated                           *)
  bpc        (* the other thread's step                                   *)

vars == <<exeFile, fref, freed, mapped, readers, apc, exePath, page, bpc>>

TypeOK ==
  /\ exeFile \in Files \cup {NoFile}
  /\ fref \in [Files -> Nat] /\ freed \subseteq Files
  /\ mapped \in BOOLEAN /\ readers \in Nat
  /\ apc \in {"start", "read", "unlock", "page", "dpath", "put", "done"}
  /\ exePath \in Files \cup {NoFile} /\ page \in BOOLEAN
  /\ bpc \in {"munmap", "prctl", "done"}

(* fput: the last reference frees the struct file.                        *)
Fput(f) ==
  /\ fref' = [fref EXCEPT ![f] = @ - 1]
  /\ freed' = IF fref[f] = 1 THEN freed \cup {f} ELSE freed

Init ==
  /\ exeFile = ExeFile
  /\ fref = [f \in Files |-> IF f = ExeFile THEN 2 ELSE 1]
  /\ freed = {}
  /\ mapped = TRUE
  /\ readers = 0
  /\ apc = "start" /\ exePath = NoFile /\ page = FALSE
  /\ bpc = "munmap"

-----------------------------------------------------------------------------
(* The appending thread: kdbus_meta_append_exe.                            *)

(* get_task_mm(current); a task without an mm skips to the end.  With an  *)
(* mm: down_read(&mm->mmap_sem).                                          *)
ExeGetMm ==
  /\ apc = "start"
  /\ \/ apc' = "done" /\ UNCHANGED readers
     \/ readers' = readers + 1 /\ apc' = "read"
  /\ UNCHANGED <<exeFile, fref, freed, mapped, exePath, page, bpc>>

(* if (mm->exe_file) { path_get(&mm->exe_file->f_path);                   *)
(*                     exe_path = &mm->exe_file->f_path; }                *)
ExeRead ==
  /\ apc = "read"
  /\ exePath' = exeFile
  /\ apc' = "unlock"
  /\ UNCHANGED <<exeFile, fref, freed, mapped, readers, page, bpc>>

(* up_read(&mm->mmap_sem); mmput(mm).  The task keeps its own mm.          *)
ExeUnlock ==
  /\ apc = "unlock"
  /\ readers' = readers - 1
  /\ apc' = "page"
  /\ UNCHANGED <<exeFile, fref, freed, mapped, exePath, page, bpc>>

(* if (exe_path): __get_free_page, on failure path_put(exe_path) and      *)
(* -ENOMEM; without exe_path the producer returns 0.                      *)
ExePage ==
  /\ apc = "page"
  /\ IF exePath = NoFile
       THEN apc' = "done" /\ UNCHANGED page
       ELSE \E ok \in BOOLEAN :
              /\ page' = ok
              /\ apc' = IF ok THEN "dpath" ELSE "done"
  /\ UNCHANGED <<exeFile, fref, freed, mapped, readers, exePath, bpc>>

(* d_path(exe_path, tmp, PAGE_SIZE) and the append of its result.          *)
ExeDPath ==
  /\ apc = "dpath"
  /\ apc' = "put"
  /\ UNCHANGED <<exeFile, fref, freed, mapped, readers, exePath,
                 page, bpc>>

(* free_page(tmp); path_put(exe_path).                                     *)
ExePut ==
  /\ apc = "put"
  /\ page' = FALSE
  /\ apc' = "done"
  /\ UNCHANGED <<exeFile, fref, freed, mapped, readers, exePath, bpc>>

-----------------------------------------------------------------------------
(* Another thread of the sending process (kernel code, not in this        *)
(* repository).                                                            *)

(* munmap of the executable's text mapping, under mmap_sem for writing:   *)
(* the mapping's reference on the file is dropped.                        *)
Munmap ==
  /\ bpc = "munmap"
  /\ readers = 0
  /\ mapped' = FALSE
  /\ Fput(ExeFile)
  /\ bpc' = "prctl"
  /\ UNCHANGED <<exeFile, readers, apc, exePath, page>>

(* prctl(PR_SET_MM, PR_SET_MM_EXE_FILE, fd) under mmap_sem for writing:   *)
(* refused while the old executable is still mapped; otherwise            *)
(* set_mm_exe_file takes a reference on the new file and fputs the old.   *)
SetExeFile ==
  /\ bpc = "prctl"
  /\ readers = 0
  /\ ~mapped
  /\ exeFile' = NewFile
  /\ fref' = [fref EXCEPT ![NewFile] = @ + 1, ![exeFile] = @ - 1]
  /\ freed' = IF fref[exeFile] = 1 THEN freed \cup {exeFile} ELSE freed
  /\ bpc' = "done"
  /\ UNCHANGED <<mapped, readers, apc, exePath, page>>

Terminated ==
  /\ apc = "done" /\ bpc = "done"
  /\ UNCHANGED vars

Next ==
  \/ ExeGetMm \/ ExeRead \/ ExeUnlock \/ ExePage \/ ExeDPath \/ ExePut
  \/ Munmap \/ SetExeFile
  \/ Terminated

Spec == Init /\ [][Next]_vars

-----------------------------------------------------------------------------
(* The steps after the semaphore is dropped that dereference exe_path:    *)
(* path_put on the page-allocation failure, d_path, and the final         *)
(* path_put.  Each reads the struct file that exe_path points into.       *)
DerefSteps == {"page", "dpath", "put"}

(* kdbus_meta_append_exe never reads a struct file that has been freed:   *)
(* the path it resolves and puts belongs to a live file object, whatever  *)
(* the process's other threads do to its executable meanwhile.            *)
NoExePathUseAfterFree ==
  apc \in DerefSteps /\ exePath # NoFile => exePath \notin freed
=============================================================================
