------------------------------- MODULE Texify -------------------------------
(***************************************************************************)
(* texify, the compiler driver (Programs/MiKTeX/texify/mcd.cpp): runs      *)
(* BibTeX, MakeIndex and LaTeX on a document until the auxiliary files do  *)
(* not change any more, or MaxIterations times.  It starts from whatever   *)
(* earlier calls, failed ones too, and the user's own LaTeX runs have left *)
(* in the directory.                                                       *)
(*                                                                         *)
(* The programs it runs are external; they are modelled by what of their   *)
(* output the driver and the next run depend on.  A document cites keys,   *)
(* marks index entries, and has a label it refers to.  Page numbers depend *)
(* on what is printed, not on how: whether references are known, which     *)
(* citations are resolved, the items of the bibliography and the index.    *)
(* They never move in a document with a fixed layout, and with every run   *)
(* in a restless one.                                                      *)
(***************************************************************************)
EXTENDS Integers, FiniteSets

CONSTANTS
  Cite,          \* keys that can be cited
  Entry,         \* index entries
  MaxIterations  \* --max-iterations (5 by default)

ASSUME ConstantsAssumption == MaxIterations \in Nat \ {0}

VARIABLES
  doc,        \* what the user has written: the document and its .bib file
  files,      \* the job's files in the user's directory and in the scratch directory
  output,     \* the .dvi or .pdf file this call has produced
  clean,      \* --clean: work in the scratch directory
  iteration,  \* i
  idxFiles,   \* an .idx file was found by GetAuxFiles
  previous,   \* previousAuxFiles
  backup,     \* auxDirectory
  pc,         \* where the driver is
  fits,       \* history: the user's .log was written by the run that wrote the .aux
  misled      \* history: RunBibTeX last looked at a .log that does not fit

callVars == <<clean, iteration, idxFiles, previous, backup>>
historyVars == <<fits, misled>>
vars == <<doc, files, output, callVars, pc, historyVars>>

Directory == {"start", "work"}

\* The contents of files that do not exist or have no bytes.  A .bbl file is
\* the set of its lists of items: one, or none if there is no file.
NoAux == [citations |-> {}, bibcites |-> {}, labels |-> {}]
NoOutput == [resolved |-> {}, bibliography |-> {}, index |-> {}, references |-> {}]
NoFiles ==
  [aux |-> NoAux, idx |-> {}, ind |-> {}, bbl |-> {}, log |-> {}]

Document ==
  [cites : SUBSET Cite, bib : SUBSET Cite, entries : SUBSET Entry,
   layout : {"fixed", "flowing", "restless"}]

Init ==
  /\ doc \in {d \in Document : d.bib = Cite}
  /\ files = [d \in Directory |-> NoFiles]
  /\ output = NoOutput
  /\ clean = FALSE /\ iteration = 0 /\ idxFiles = FALSE
  /\ previous = {} /\ backup = NoFiles
  /\ pc = "idle"
  /\ fits = TRUE /\ misled = FALSE

-----------------------------------------------------------------------------
(* The programs.                                                           *)

\* The directory the programs run in; TeX also finds files in the user's.
Current == IF clean THEN "work" ELSE "start"

Visible(d) ==
  LET here == files[d]
      there == files["start"]
  IN [aux |-> IF here.aux # NoAux THEN here.aux ELSE there.aux,
      bbl |-> IF here.bbl # {} THEN here.bbl ELSE there.bbl,
      ind |-> IF here.ind # {} THEN here.ind ELSE there.ind]

\* What LaTeX prints, given the files it can see.
Printed(f) ==
  [resolved |-> doc.cites \cap f.aux.bibcites,
   bibliography |-> IF doc.cites = {} THEN {} ELSE UNION f.bbl,
   index |-> f.ind,
   references |-> f.aux.labels]

FirstPage ==
  [resolved |-> {}, bibliography |-> {}, index |-> {}, known |-> FALSE, odd |-> FALSE]

\* The label's page, as far as it depends on what is printed.
Page(f) ==
  IF doc.layout = "fixed" THEN FirstPage
  ELSE [resolved |-> Printed(f).resolved,
        bibliography |-> Printed(f).bibliography,
        index |-> {item.entry : item \in f.ind},
        known |-> f.aux.labels # {},
        odd |-> doc.layout = "restless" /\ \E label \in f.aux.labels : ~ label.odd]

\* LaTeX misses a citation, or the whole bibliography ("No file *.bbl").
Misses(f) == \/ ~ (doc.cites \subseteq f.aux.bibcites)
             \/ doc.cites # {} /\ f.bbl = {}

\* It compares the labels and the items of the bibliography with those that it
\* has read, but does not notice that items are gone.
Moved(f) == \/ f.aux.labels # {Page(f)}
            \/ ~ (Printed(f).bibliography \subseteq f.aux.bibcites)

\* The .log file, as far as the driver looks for it.
Messages(f) ==
  (IF Misses(f) THEN {"undefined"} ELSE {}) \cup (IF Moved(f) THEN {"rerun"} ELSE {})

\* What a complete run of LaTeX leaves behind.
Typeset(d) ==
  LET f == Visible(d)
  IN [aux |-> [citations |-> doc.cites,
               bibcites |-> Printed(f).bibliography,
               labels |-> {Page(f)}],
      idx |-> [entry : doc.entries, page : {Page(f)}],
      ind |-> files[d].ind,
      bbl |-> files[d].bbl,
      log |-> Messages(f)]

\* What a run that is stopped by an error leaves behind: the error comes
\* before \begin{document}, or later, when .aux and .idx have been opened.
Stopped(d) ==
  {[files[d] EXCEPT !.log = {}],
   [files[d] EXCEPT !.aux = NoAux, !.idx = {}, !.log = {}]}

\* A .bbl file with the items that were found, perhaps none.
BibTeX(aux) == {aux.citations \cap doc.bib}
MakeIndex(idx) == idx

-----------------------------------------------------------------------------
(* The user, while the driver is not running.                              *)

\* The document and its .bib file are edited.
Edit ==
  /\ pc = "idle"
  /\ doc' \in {d \in Document : d.layout = doc.layout}
  /\ UNCHANGED <<files, output, callVars, pc, historyVars>>

\* LaTeX is run without texify; the log tells of the run that wrote .aux
\* unless the run was stopped before it got there.
RunByHand ==
  /\ pc = "idle"
  /\ \/ files' = [files EXCEPT !["start"] = Typeset("start")] /\ fits' = TRUE
     \/ \E f \in Stopped("start") :
          files' = [files EXCEPT !["start"] = f] /\ fits' = (f.aux = NoAux)
  /\ UNCHANGED <<doc, output, callVars, pc, misled>>

DeleteFiles ==
  /\ pc = "idle"
  /\ files' = [files EXCEPT !["start"] = NoFiles]
  /\ fits' = TRUE
  /\ UNCHANGED <<doc, output, callVars, pc, misled>>

-----------------------------------------------------------------------------
(* Driver::Run.                                                            *)

\* The call ends: the Driver object and its temporary directories are gone.
Return(start) ==
  /\ pc' = "idle"
  /\ files' = [start |-> start, work |-> NoFiles] /\ output' = NoOutput
  /\ clean' = FALSE /\ iteration' = 0 /\ idxFiles' = FALSE
  /\ previous' = {} /\ backup' = NoFiles /\ misled' = FALSE
  /\ UNCHANGED doc

\* Driver::Initialize: new temporary directories.
Call(c) ==
  /\ pc = "idle" /\ pc' = "collect"
  /\ clean' = c
  /\ UNCHANGED <<doc, files, output, iteration, idxFiles, previous, backup, historyVars>>

\* Driver::GetAuxFiles: the files that are not empty.  The tables and lists
\* (.toc, .lof, ...) are handled like .aux and are not told apart from it.
AuxFiles(f) == {n \in {"aux", "idx"} : f[n] # NoFiles[n]}

\* The files that are there are copied to auxDirectory.
Collect ==
  /\ pc = "collect" /\ pc' = "bibtex"
  /\ previous' = AuxFiles(files[Current])
  /\ idxFiles' = ("idx" \in previous')
  /\ backup' = [n \in DOMAIN backup |->
                  IF n \in previous' THEN files[Current][n] ELSE backup[n]]
  /\ UNCHANGED <<doc, files, output, clean, iteration, historyVars>>

\* The .aux file asks for a bibliography and the last run missed citations.
WantsBibTeX(f) == f.aux.citations # {} /\ "undefined" \in f.log

\* Mutant: BibTeX is run in the first iteration only.
RunBibTeXOnce ==
  /\ pc = "bibtex" /\ pc' = "index"
  /\ LET f == files[Current] IN
       files' = IF WantsBibTeX(f) /\ iteration = 0
                THEN [files EXCEPT ![Current].bbl = BibTeX(f.aux)]
                ELSE files
  /\ misled' = (~ clean /\ ~ fits)
  /\ UNCHANGED <<doc, output, callVars, fits>>

\* Driver::RunBibTeX.
RunBibTeX ==
  /\ pc = "bibtex" /\ pc' = "index"
  /\ LET f == files[Current] IN
       files' = IF WantsBibTeX(f)
                THEN [files EXCEPT ![Current].bbl = BibTeX(f.aux)]
                ELSE files
  /\ misled' = (~ clean /\ ~ fits)
  /\ UNCHANGED <<doc, output, callVars, fits>>

\* Mutant: MakeIndex is run once.
RunIndexGeneratorOnce ==
  /\ pc = "index" /\ pc' = "tex"
  /\ files' = IF idxFiles /\ iteration = 1
              THEN [files EXCEPT ![Current].ind = MakeIndex(files[Current].idx)]
              ELSE files
  /\ UNCHANGED <<doc, output, callVars, historyVars>>

\* Driver::RunIndexGenerator, if GetAuxFiles has found an .idx file.
RunIndexGenerator ==
  /\ pc = "index" /\ pc' = "tex"
  /\ files' = IF idxFiles
              THEN [files EXCEPT ![Current].ind = MakeIndex(files[Current].idx)]
              ELSE files
  /\ UNCHANGED <<doc, output, callVars, historyVars>>

\* Driver::RunTeX.
RunTeX ==
  /\ pc = "tex" /\ pc' = "decide"
  /\ files' = [files EXCEPT ![Current] = Typeset(Current)]
  /\ output' = Printed(Visible(Current))
  /\ fits' = (fits \/ ~ clean)
  /\ UNCHANGED <<doc, callVars, misled>>

\* TeX exits with an error, with or without having written everything.  In
\* clean mode the log file is saved.
TeXFails ==
  /\ pc = "tex"
  /\ \E f \in Stopped(Current) \cup {Typeset(Current)} :
       \/ clean /\ Return([files["start"] EXCEPT !.log = f.log]) /\ fits' = FALSE
       \/ ~ clean /\ Return(f) /\ fits' = (f = Typeset(Current) \/ f.aux = NoAux)

\* What a run of BibTeX or MakeIndex that fails leaves behind: the old file, or
\* as much as it has written of the new one.
Unfinished(f) ==
  {f}
  \cup {[f EXCEPT !.bbl = items] :
          items \in IF pc = "bibtex" /\ WantsBibTeX(f)
                   THEN {{}} \cup {{some} : some \in SUBSET (f.aux.citations \cap doc.bib)}
                   ELSE {}}
  \cup {[f EXCEPT !.ind = some] :
          some \in IF pc = "index" /\ idxFiles THEN SUBSET MakeIndex(f.idx) ELSE {}}

\* BibTeX or MakeIndex exits with an error, or Ctrl-C has been pressed.
GiveUp ==
  /\ pc \in {"collect", "bibtex", "index", "tex"}
  /\ \/ clean /\ Return(files["start"])
     \/ ~ clean /\ \E f \in Unfinished(files["start"]) : Return(f)
  /\ UNCHANGED fits

\* Mutant: only the names of the files are compared.
ReadyByName ==
  LET f == files[Current] IN
    /\ "rerun" \notin f.log
    /\ previous = AuxFiles(f)

\* Driver::Ready: LaTeX does not ask for another run, and the auxiliary files
\* are the same as before, by name and content.
Ready ==
  LET f == files[Current] IN
    /\ "rerun" \notin f.log
    /\ previous = AuxFiles(f)
    /\ \A n \in previous : f[n] = backup[n]

\* Mutants: the limit is off by one, to either side.
DecideOneTooEarly ==
  /\ pc = "decide"
  /\ iteration' = iteration + 1
  /\ pc' = CASE Ready -> "converged"
             [] ~ Ready /\ iteration' + 1 < MaxIterations -> "collect"
             [] OTHER -> "limit"
  /\ UNCHANGED <<doc, files, output, clean, idxFiles, previous, backup, historyVars>>

DecideOneTooLate ==
  /\ pc = "decide"
  /\ iteration' = iteration + 1
  /\ pc' = CASE Ready -> "converged"
             [] ~ Ready /\ iteration < MaxIterations -> "collect"
             [] OTHER -> "limit"
  /\ UNCHANGED <<doc, files, output, clean, idxFiles, previous, backup, historyVars>>

\* The end of the loop: for (int i = 0; i < maxIterations; i++), break if Ready().
Decide ==
  /\ pc = "decide"
  /\ iteration' = iteration + 1
  /\ pc' = CASE Ready -> "converged"
             [] ~ Ready /\ iteration' < MaxIterations -> "collect"
             [] OTHER -> "limit"
  /\ UNCHANGED <<doc, files, output, clean, idxFiles, previous, backup, historyVars>>

\* Driver::InstallOutputFile and ~Driver.
Finish ==
  /\ pc \in {"converged", "limit"}
  /\ Return(files["start"])
  /\ UNCHANGED fits

User == Edit \/ RunByHand \/ DeleteFiles
Driver ==
  \/ \E c \in BOOLEAN : Call(c)
  \/ Collect \/ RunBibTeX \/ RunIndexGenerator \/ RunTeX
  \/ TeXFails \/ GiveUp \/ Decide \/ Finish

Next == User \/ Driver

Spec == Init /\ [][Next]_vars

-----------------------------------------------------------------------------
Label ==
  [resolved : SUBSET Cite, bibliography : SUBSET Cite, index : SUBSET Entry,
   known : BOOLEAN, odd : BOOLEAN]
Item == [entry : Entry, page : Label]
Files ==
  [aux : [citations : SUBSET Cite, bibcites : SUBSET Cite, labels : SUBSET Label],
   idx : SUBSET Item, ind : SUBSET Item, bbl : SUBSET SUBSET Cite,
   log : SUBSET {"undefined", "rerun"}]

\* Every variable stays in its range; the scratch directory is used by the
\* call that has created it only.
TypeOK ==
  /\ doc \in Document
  /\ files \in [Directory -> Files] /\ backup \in Files
  /\ output \in [resolved : SUBSET Cite, bibliography : SUBSET Cite,
                 index : SUBSET Item, references : SUBSET Label]
  /\ clean \in BOOLEAN /\ idxFiles \in BOOLEAN /\ fits \in BOOLEAN /\ misled \in BOOLEAN
  /\ iteration \in 0..MaxIterations
  /\ previous \subseteq {"aux", "idx"}
  /\ pc \in {"idle", "collect", "bibtex", "index", "tex", "decide", "converged", "limit"}
  /\ pc = "idle" => iteration = 0 /\ ~ clean
  /\ ~ clean => files["work"] = NoFiles

\* The driver has stopped because nothing changes any more.
Converged == pc = "converged"

\* "All cross-references resolved": another run of LaTeX would change neither
\* the output nor any file.
OutputIsFixpoint ==
  Converged => /\ Typeset(Current) = files[Current]
               /\ Printed(Visible(Current)) = output

\* Every citation that the .bib file has an entry for is resolved, whatever
\* earlier calls have left behind; unless the .log file that RunBibTeX went by
\* was not the one of the run that wrote the .aux file.  Nothing is claimed of
\* documents with a fixed layout: if a run resolves citations that it has read
\* and loses them because the .bbl file lacks them, only the pages that move
\* lead to the round in which BibTeX would be run.
CitationsResolved ==
  Converged /\ ~ misled /\ doc.layout # "fixed" =>
    doc.cites \cap doc.bib \subseteq output.resolved

\* "Sorted indices": the index that was printed is the one of this document.
IndexIsOfDocument ==
  Converged => output.index = files[Current].idx

\* It is, as long as the document has an index.
IndexIsCurrent == doc.entries # {} => IndexIsOfDocument

\* The default limit of five iterations is enough for every document that
\* comes to rest, whatever was there when the call began.
SettlesInTime == pc = "limit" => doc.layout = "restless"

=============================================================================
