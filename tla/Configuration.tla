----------------------------- MODULE Configuration -----------------------------
(***************************************************************************)
(* The YAML folders a gateway is configured by, and the loaders that read  *)
(* them once, at startup: ConfigLoader, PolicyLoader, WorkflowLoader with  *)
(* its three folders, and PipelineLoader.  Each reads the files of its     *)
(* folder in the order of their paths and gives up at the first error,     *)
(* which ends the startup.  A folder is a sequence of files that is made   *)
(* up while it is read.                                                    *)
(*                                                                         *)
(* A file is a record: the text of its `enabled` field before validation,  *)
(* its fault, the name it validates to (its stem when it has none), and    *)
(* the rest of it as a body.  The fault is text that cannot be read as a   *)
(* YAML mapping, or one that does not validate, for an unset ${VAR} or a   *)
(* wrong field.  PipelineDag models how the graph of a pipeline is         *)
(* validated.                                                              *)
(***************************************************************************)
EXTENDS Naturals, Sequences

CONSTANTS Files,     \* the files there may be in each folder
          MaxFiles   \* the most files of a folder (a bound)

\* The folders in the order in which GatewayApplication.build reads them.
Sections == <<"servers", "policies", "sources", "outputs", "workflows", "pipelines">>

Folders == {Sections[i] : i \in 1..6}

\* `enabled` is missing, is false, is another false value, or is a text: one
\* that says "false" only after its ${VAR} is expanded.
EnabledTexts == {"absent", "no", "falsy", "text"}

Faults == {"none", "unreadable", "invalid"}

ASSUME ConfigurationAssumption ==
    /\ MaxFiles \in Nat
    /\ DOMAIN Files = Folders
    /\ \A s \in Folders : \A f \in Files[s] :
         f.enabled \in EnabledTexts /\ f.fault \in Faults

VARIABLES stage,    \* how far the process has come
          section,  \* the position of the folder that is read
          files,    \* its files that have been read
          catalog   \* the definitions of each folder that have been loaded

loading == <<section, files, catalog>>

LoadingInit ==
    /\ stage = "loading"
    /\ section = 1
    /\ files = <<>>
    /\ catalog = [s \in Folders |-> {}]

------------------------------------------------------------------------------
Folder == Sections[section]

\* Servers and policies must have a folder.
Required(s) == s \in {"servers", "policies"}

\* The file is left out before it is validated: a false value in most folders,
\* only false itself for a pipeline.  Policies have no such field.
Skipped(s, file) ==
    \/ s \in {"servers", "sources", "outputs", "workflows"} /\ file.enabled \in {"no", "falsy"}
    \/ s = "pipelines" /\ file.enabled = "no"

\* Validation refuses the file.
Refused(s, file) ==
    \/ file.fault = "invalid"
    \/ s = "policies" /\ file.enabled # "absent"

Definition(file) == [name |-> file.name, body |-> file.body]

Loaded(s, name) == \E d \in catalog[s] : d.name = name

Abandon == stage' = "failed" /\ UNCHANGED loading

\* Variant: a name that comes again replaces the first.
ReadFileAgain(file) ==
    /\ stage = "loading" /\ Len(files) < MaxFiles
    /\ \/ /\ \/ file.fault = "unreadable"
             \/ ~Skipped(Folder, file) /\ Refused(Folder, file)
          /\ Abandon
       \/ /\ file.fault # "unreadable" /\ Skipped(Folder, file)
          /\ files' = Append(files, file)
          /\ UNCHANGED <<stage, section, catalog>>
       \/ /\ file.fault # "unreadable" /\ ~Skipped(Folder, file) /\ ~Refused(Folder, file)
          /\ files' = Append(files, file)
          /\ catalog' = [catalog EXCEPT ![Folder] =
                           {d \in @ : d.name # file.name} \cup {Definition(file)}]
          /\ UNCHANGED <<stage, section>>

\* One turn of a loader's loop: the file is read, left out, refused or kept.
ReadFile(file) ==
    /\ stage = "loading" /\ Len(files) < MaxFiles
    /\ \/ /\ \/ file.fault = "unreadable"
             \/ /\ ~Skipped(Folder, file)
                /\ Refused(Folder, file) \/ Loaded(Folder, file.name)
          /\ Abandon
       \/ /\ file.fault # "unreadable" /\ Skipped(Folder, file)
          /\ files' = Append(files, file)
          /\ UNCHANGED <<stage, section, catalog>>
       \/ /\ file.fault # "unreadable" /\ ~Skipped(Folder, file) /\ ~Refused(Folder, file)
          /\ ~Loaded(Folder, file.name)
          /\ files' = Append(files, file)
          /\ catalog' = [catalog EXCEPT ![Folder] = @ \cup {Definition(file)}]
          /\ UNCHANGED <<stage, section>>

\* Variant: the next loader goes on with what this one has read.
FinishFolderKeeping ==
    /\ stage = "loading"
    /\ section' = IF section < 6 THEN section + 1 ELSE section
    /\ stage' = IF section < 6 THEN "loading" ELSE "loaded"
    /\ UNCHANGED <<files, catalog>>

\* The loader returns; the next one starts.
FinishFolder ==
    /\ stage = "loading"
    /\ files' = <<>>
    /\ section' = IF section < 6 THEN section + 1 ELSE section
    /\ stage' = IF section < 6 THEN "loading" ELSE "loaded"
    /\ UNCHANGED catalog

\* A folder that is not there is an error, or empty.
MissingFolder ==
    /\ stage = "loading" /\ files = <<>>
    /\ IF Required(Folder) THEN Abandon ELSE FinishFolder

Loading ==
    \/ \E file \in Files[Folder] : ReadFile(file)
    \/ FinishFolder
    \/ MissingFolder

------------------------------------------------------------------------------
LoadingTypeOK ==
    /\ section \in 1..6
    /\ files \in Seq(Files[Folder])
    /\ DOMAIN catalog = Folders
    /\ \A s \in Folders : catalog[s] \subseteq {Definition(f) : f \in Files[s]}

\* Whatever else a loader takes for switched off, a file that does not speak of
\* it is on and one that says false is off: while a folder is read, every file
\* that is on has been kept, none of them faulty and no two under one name, and
\* none that is off has (config_loader.py:45-72, loaders alike).
KeptAsWritten ==
    stage = "loading" =>
      LET on == {i \in DOMAIN files : files[i].enabled = "absent"}
          off == {i \in DOMAIN files : files[i].enabled = "no"} IN
      /\ \A i \in on : files[i].fault = "none" /\ Definition(files[i]) \in catalog[Folder]
      /\ \A i, j \in on : files[i].name = files[j].name => i = j
      /\ catalog[Folder] \subseteq {Definition(files[i]) : i \in DOMAIN files \ off}

\* A folder never has two definitions of one name.
OneDefinitionPerName ==
    \A s \in Folders : \A d, e \in catalog[s] : d.name = e.name => d = e
===============================================================================
