---------------------------- MODULE TexifyProofs ----------------------------
(***************************************************************************)
(* What texify promises of the output when it has stopped because nothing  *)
(* changed any more, for all sets of keys and entries and every limit; and *)
(* that it stops for that reason, if the limit is five or higher.          *)
(***************************************************************************)
EXTENDS Texify, TLAPS

\* What LaTeX prints, in its ranges.
Prints ==
  [resolved : SUBSET Cite, bibliography : SUBSET Cite, index : SUBSET Item,
   references : SUBSET Label]

\* The files LaTeX reads, in their ranges.
Inputs ==
  [aux : [citations : SUBSET Cite, bibcites : SUBSET Cite, labels : SUBSET Label],
   bbl : SUBSET SUBSET Cite, ind : SUBSET Item]

-----------------------------------------------------------------------------
(* Lemmas about the programs.                                              *)

\* What the programs see is of the right kind.
LEMMA VisibleType ==
  ASSUME TypeOK, NEW d \in Directory
  PROVE  Visible(d) \in Inputs
<1>1. files[d] \in Files /\ files["start"] \in Files
  BY DEF TypeOK, Directory
<1> QED
  BY <1>1 DEF Visible, Inputs, Files

\* So is what LaTeX prints and what it writes.
LEMMA PrintedType ==
  ASSUME TypeOK, NEW f \in Inputs
  PROVE  /\ Printed(f) \in Prints
         /\ Page(f) \in Label
         /\ Messages(f) \in SUBSET {"undefined", "rerun"}
<1>1. Printed(f) \in Prints
  BY DEF Printed, Prints, Inputs, TypeOK, Document
<1>2. {item.entry : item \in f.ind} \in SUBSET Entry
  BY DEF Inputs, Item
<1>3. (doc.layout = "restless" /\ \E label \in f.aux.labels : ~ label.odd) \in BOOLEAN
  OBVIOUS
<1>4. Page(f) \in Label
  <2>1. CASE doc.layout = "fixed"
    BY <2>1 DEF Page, FirstPage, Label
  <2>2. CASE doc.layout # "fixed"
    BY <1>1, <1>2, <1>3, <2>2 DEF Page, Label, Prints
  <2> QED
    BY <2>1, <2>2
<1> QED
  BY <1>1, <1>4 DEF Messages

LEMMA TypesetType ==
  ASSUME TypeOK, NEW d \in Directory
  PROVE  Typeset(d) \in Files
<1> DEFINE f == Visible(d)
<1>1. f \in Inputs
  BY VisibleType
<1>2. Printed(f) \in Prints /\ Page(f) \in Label /\ Messages(f) \in SUBSET {"undefined", "rerun"}
  BY <1>1, PrintedType
<1>3. files[d].ind \in SUBSET Item /\ files[d].bbl \in SUBSET SUBSET Cite
  BY DEF TypeOK, Files, Directory
<1>4. [entry : doc.entries, page : {Page(f)}] \in SUBSET Item
  BY <1>2 DEF Item, TypeOK, Document
<1>5. doc.cites \in SUBSET Cite
  BY DEF TypeOK, Document
<1>6. Printed(f).bibliography \in SUBSET Cite
  BY <1>2 DEF Prints
<1> HIDE DEF f
<1>7. Typeset(d) = [aux |-> [citations |-> doc.cites,
                             bibcites |-> Printed(f).bibliography,
                             labels |-> {Page(f)}],
                    idx |-> [entry : doc.entries, page : {Page(f)}],
                    ind |-> files[d].ind,
                    bbl |-> files[d].bbl,
                    log |-> Messages(f)]
  BY DEF Typeset, f
<1> QED
  BY <1>2, <1>3, <1>4, <1>5, <1>6, <1>7 DEF Files

\* An interrupted run leaves files of the same kind.
LEMMA StoppedType ==
  ASSUME TypeOK, NEW d \in Directory, NEW f \in Stopped(d)
  PROVE  f \in Files
<1>1. files[d] \in Files
  BY DEF TypeOK
<1>2. [files[d] EXCEPT !.log = {}] \in Files
  BY <1>1 DEF Files
<1>3. [files[d] EXCEPT !.aux = NoAux, !.idx = {}, !.log = {}] \in Files
  BY <1>1 DEF Files, NoAux
<1> QED
  BY <1>2, <1>3 DEF Stopped

\* A run of BibTeX or MakeIndex that fails does not touch what LaTeX has written.
LEMMA UnfinishedType ==
  ASSUME NEW f \in Files, NEW g \in Unfinished(f)
  PROVE  g \in Files /\ g.aux = f.aux /\ g.log = f.log
<1>1. CASE g = f
  BY <1>1
<1>2. ASSUME NEW items \in {{}} \cup {{some} : some \in SUBSET (f.aux.citations \cap doc.bib)},
             g = [f EXCEPT !.bbl = items]
      PROVE  g \in Files /\ g.aux = f.aux /\ g.log = f.log
  <2>1. items \in SUBSET SUBSET Cite
    BY DEF Files
  <2> QED
    BY <1>2, <2>1 DEF Files
<1>3. ASSUME NEW some \in SUBSET MakeIndex(f.idx), g = [f EXCEPT !.ind = some]
      PROVE  g \in Files /\ g.aux = f.aux /\ g.log = f.log
  <2>1. some \in SUBSET Item
    BY DEF Files, MakeIndex
  <2> QED
    BY <1>3, <2>1 DEF Files
<1> QED
  BY <1>1, <1>2, <1>3 DEF Unfinished

\* Files that do not exist are of the right kind, too.
LEMMA NoFilesType == NoFiles \in Files /\ NoOutput \in Prints
  BY DEF NoFiles, NoAux, Files, NoOutput, Prints

-----------------------------------------------------------------------------
(* Type correctness.                                                       *)

\* Inside of the loop the limit has not been reached.
Counted ==
  pc \in {"collect", "bibtex", "index", "tex", "decide"} => iteration < MaxIterations

TypeInv == TypeOK /\ Counted

\* A call that ends leaves a state as at the beginning, with the given files.
LEMMA ReturnType ==
  ASSUME TypeInv, NEW f \in Files, Return(f), fits' \in BOOLEAN
  PROVE  TypeInv'
<1>1. files' \in [Directory -> Files]
  BY NoFilesType DEF Return, Directory
<1>2. files'["work"] = NoFiles
  BY DEF Return
<1>3. backup' \in Files /\ output' \in Prints
  BY NoFilesType DEF Return
<1>4. iteration' \in 0..MaxIterations /\ previous' \subseteq {"aux", "idx"}
  BY ConstantsAssumption DEF Return
<1>5. pc' = "idle" /\ iteration' = 0 /\ clean' = FALSE /\ idxFiles' = FALSE /\ misled' = FALSE
  BY DEF Return
<1>6. doc' \in Document
  BY DEF Return, TypeInv, TypeOK
<1> QED
  BY <1>1, <1>2, <1>3, <1>4, <1>5, <1>6 DEF TypeInv, TypeOK, Counted, Prints

LEMMA TypeInvStep ==
  ASSUME TypeInv, [Next]_vars
  PROVE  TypeInv'
<1> USE DEF TypeInv
<1>1. Current \in Directory
  BY DEF Current, Directory
<1>2. files["start"] \in Files /\ "start" \in Directory
  BY DEF TypeOK, Directory
<1>3. CASE Edit
  BY <1>3 DEF Edit, TypeOK, Counted, callVars, historyVars
<1>4. CASE RunByHand
  <2>1. Typeset("start") \in Files /\ \A f \in Stopped("start") : f \in Files
    BY <1>2, TypesetType, StoppedType
  <2> QED
    BY <1>4, <2>1 DEF RunByHand, TypeOK, Counted, callVars, Directory
<1>5. CASE DeleteFiles
  BY <1>5, NoFilesType DEF DeleteFiles, TypeOK, Counted, callVars, Directory
<1>6. ASSUME NEW c \in BOOLEAN, Call(c) PROVE TypeInv'
  BY <1>6, ConstantsAssumption DEF Call, TypeOK, Counted, historyVars
<1>7. CASE Collect
  <2>1. AuxFiles(files[Current]) \in SUBSET {"aux", "idx"}
    BY DEF AuxFiles
  <2>2. backup' \in Files
    <3>1. files[Current] \in Files /\ backup \in Files
      BY <1>1 DEF TypeOK
    <3> QED
      BY <1>7, <3>1 DEF Collect, Files
  <2> QED
    BY <1>7, <2>1, <2>2 DEF Collect, TypeOK, Counted, historyVars
<1>8. CASE RunBibTeX
  <2>1. BibTeX(files[Current].aux) \in SUBSET SUBSET Cite
    BY <1>1 DEF TypeOK, Files, BibTeX
  <2>2. files' \in [Directory -> Files]
    BY <1>1, <1>8, <2>1 DEF RunBibTeX, TypeOK, Files
  <2>3. ~ clean => files'["work"] = files["work"]
    BY <1>8 DEF RunBibTeX, TypeOK, Current, Directory
  <2> QED
    BY <1>8, <2>2, <2>3 DEF RunBibTeX, TypeOK, Counted, callVars
<1>9. CASE RunIndexGenerator
  <2>1. files' \in [Directory -> Files]
    BY <1>1, <1>9 DEF RunIndexGenerator, TypeOK, Files, MakeIndex
  <2>2. ~ clean => files'["work"] = files["work"]
    BY <1>9 DEF RunIndexGenerator, TypeOK, Current, Directory
  <2> QED
    BY <1>9, <2>1, <2>2 DEF RunIndexGenerator, TypeOK, Counted, callVars, historyVars
<1>10. CASE RunTeX
  <2>1. files' \in [Directory -> Files]
    BY <1>1, <1>10, TypesetType DEF RunTeX, TypeOK
  <2>2. ~ clean => files'["work"] = files["work"]
    BY <1>10 DEF RunTeX, TypeOK, Current, Directory
  <2>3. output' \in Prints
    BY <1>1, <1>10, VisibleType, PrintedType DEF RunTeX
  <2> QED
    BY <1>10, <2>1, <2>2, <2>3 DEF RunTeX, TypeOK, Counted, callVars, Prints
<1>11. CASE TeXFails
  <2>1. PICK f \in Stopped(Current) \cup {Typeset(Current)} :
          \/ clean /\ Return([files["start"] EXCEPT !.log = f.log]) /\ fits' = FALSE
          \/ ~ clean /\ Return(f) /\ fits' = (f = Typeset(Current) \/ f.aux = NoAux)
    BY <1>11 DEF TeXFails
  <2>2. f \in Files
    BY <1>1, <2>1, TypesetType, StoppedType
  <2>3. [files["start"] EXCEPT !.log = f.log] \in Files
    BY <1>2, <2>2 DEF Files
  <2> QED
    BY <2>1, <2>2, <2>3, ReturnType
<1>12. CASE GiveUp
  BY <1>2, <1>12, ReturnType, UnfinishedType DEF GiveUp, TypeOK
<1>13. CASE Decide
  BY <1>13, ConstantsAssumption DEF Decide, TypeOK, Counted, historyVars
<1>14. CASE Finish
  BY <1>2, <1>14, ReturnType DEF Finish, TypeOK
<1>15. CASE UNCHANGED vars
  BY <1>15 DEF vars, callVars, historyVars, TypeOK, Counted
<1> QED
  BY <1>3, <1>4, <1>5, <1>6, <1>7, <1>8, <1>9, <1>10, <1>11, <1>12, <1>13, <1>14, <1>15
  DEF Next, User, Driver

LEMMA TypeInvInit ==
  ASSUME Init
  PROVE  TypeInv
<1>1. files \in [Directory -> Files] /\ files["work"] = NoFiles
  BY NoFilesType DEF Init, Directory
<1>2. backup \in Files /\ output \in Prints
  BY NoFilesType DEF Init
<1>3. iteration \in 0..MaxIterations /\ doc \in Document
  BY ConstantsAssumption DEF Init
<1> QED
  BY <1>1, <1>2, <1>3 DEF Init, TypeInv, TypeOK, Counted, Prints

\* Every variable stays in its range, and the scratch directory is used by the
\* call that has created it only.
THEOREM TypeCorrect == Spec => []TypeOK
<1>1. TypeInv => TypeOK
  BY DEF TypeInv
<1> QED
  BY <1>1, TypeInvInit, TypeInvStep, PTL DEF Spec

-----------------------------------------------------------------------------
(* The invariant behind the other theorems.                                *)

\* The file in auxDirectory is the one that there was before the iteration,
\* if previousAuxFiles names it; if not there was none.
Before(n) == IF n \in previous THEN backup[n] ELSE NoFiles[n]

\* What the last run of LaTeX has read: it does not write .bbl and .ind.
HasRead ==
  [aux |-> IF Before("aux") # NoAux THEN Before("aux")
           ELSE IF clean THEN files["start"].aux ELSE NoAux,
   bbl |-> Visible(Current).bbl,
   ind |-> Visible(Current).ind]

\* Until LaTeX is run, the backup is up to date.
BackedUp ==
  pc \in {"bibtex", "index", "tex"} =>
    /\ previous = AuxFiles(files[Current])
    /\ \A n \in previous : backup[n] = files[Current][n]

IndexWanted ==
  pc \in {"bibtex", "index", "tex", "decide", "converged"} =>
    idxFiles = ("idx" \in previous)

\* MakeIndex has worked on the .idx file of before.
IndexMade ==
  /\ pc = "tex" /\ idxFiles => files[Current].ind = files[Current].idx
  /\ pc \in {"decide", "converged"} /\ idxFiles => files[Current].ind = backup.idx

\* After LaTeX, the files and the output are what it makes of what it has read.
MadeFromRead ==
  pc \in {"decide", "converged"} =>
    /\ files[Current].aux = [citations |-> doc.cites,
                             bibcites |-> Printed(HasRead).bibliography,
                             labels |-> {Page(HasRead)}]
    /\ files[Current].idx = [entry : doc.entries, page : {Page(HasRead)}]
    /\ files[Current].log = Messages(HasRead)
    /\ output = Printed(HasRead)

\* What Ready has found.
Unchanged ==
  pc = "converged" =>
    /\ previous = AuxFiles(files[Current])
    /\ \A n \in previous : files[Current][n] = backup[n]

\* The citations of an .aux file were resolved on the pages it tells of; pages
\* that do not move tell nothing.
Resolved(aux) ==
  doc.layout # "fixed" => \A label \in aux.labels : aux.citations \subseteq label.resolved

\* A .log file of the run that wrote the .aux file says if they were not.
LogFits ==
  \A d \in Directory :
    (d = "start" => fits) /\ "undefined" \notin files[d].log => Resolved(files[d].aux)

\* RunBibTeX has seen that there was nothing to do, or has done it.
BibliographyMade(aux, bbl) == Resolved(aux) \/ bbl = {aux.citations \cap doc.bib}

CitationsSeen ==
  /\ pc \in {"index", "tex"} /\ ~ misled =>
       BibliographyMade(files[Current].aux, files[Current].bbl)
  /\ pc \in {"decide", "converged"} /\ ~ misled =>
       BibliographyMade(Before("aux"), files[Current].bbl)

IInv ==
  TypeInv /\ BackedUp /\ IndexWanted /\ IndexMade /\ MadeFromRead /\ Unchanged
  /\ LogFits /\ CitationsSeen

-----------------------------------------------------------------------------
(* Lemmas about what the invariant speaks of.                              *)

\* The log of a complete run tells whether all citations were resolved.
LEMMA TypesetFits ==
  ASSUME TypeOK, NEW d \in Directory, "undefined" \notin Typeset(d).log
  PROVE  Resolved(Typeset(d).aux)
<1> DEFINE f == Visible(d)
<1>1. doc.cites \subseteq f.aux.bibcites
  BY DEF Typeset, Messages, Misses
<1>2. doc.layout # "fixed" => Page(f).resolved = doc.cites \cap f.aux.bibcites
  BY DEF Page, Printed
<1>3. /\ Typeset(d).aux.labels = {Page(f)}
      /\ Typeset(d).aux.citations = doc.cites
  BY DEF Typeset
<1> HIDE DEF f
<1> QED
  BY <1>1, <1>2, <1>3 DEF Resolved

\* If the backup is up to date it is the .aux and .idx files themselves.
LEMMA BeforeIsNow ==
  ASSUME TypeOK, previous = AuxFiles(files[Current]),
         \A n \in previous : backup[n] = files[Current][n]
  PROVE  /\ Before("aux") = files[Current].aux
         /\ "idx" \in previous => backup.idx = files[Current].idx
  BY DEF Before, AuxFiles

\* And then a run of LaTeX would read what the last one has read.
LEMMA HasReadIsVisible ==
  ASSUME TypeOK, Before("aux") = files[Current].aux
  PROVE  HasRead = Visible(Current)
  BY DEF HasRead, Visible, Current

\* A step that touches none of the files leaves alone what was read and what
\* LaTeX would make of it.
LEMMA SameRead ==
  ASSUME UNCHANGED <<doc, files, clean, previous, backup>>
  PROVE  /\ Printed(HasRead)' = Printed(HasRead)
         /\ Page(HasRead)' = Page(HasRead)
         /\ Messages(HasRead)' = Messages(HasRead)
<1> DEFINE r == HasRead
<1>1. HasRead' = r
  BY DEF HasRead, Before, Visible, Current
<1> HIDE DEF r
<1>2. /\ Printed(HasRead)' = Printed(r)
      /\ Page(HasRead)' = Page(r)
      /\ Messages(HasRead)' = Messages(r)
  BY <1>1 DEF Printed, Page, FirstPage, Messages, Misses, Moved
<1> QED
  BY <1>2 DEF r

\* A call that ends has nothing to keep but that the user's .log file fits.
LEMMA ReturnKeeps ==
  ASSUME IInv, NEW f \in Files, Return(f), fits' \in BOOLEAN,
         fits' /\ "undefined" \notin f.log => Resolved(f.aux)
  PROVE  IInv'
<1>1. TypeInv'
  BY ReturnType DEF IInv
<1>2. pc' = "idle"
  BY DEF Return
<1>3. LogFits'
  <2>1. files'["start"] = f /\ files'["work"] = NoFiles /\ doc' = doc
    BY DEF Return
  <2>2. Resolved(NoFiles.aux)
    BY DEF Resolved, NoFiles, NoAux
  <2> QED
    BY <2>1, <2>2 DEF LogFits, Directory, Resolved
<1> QED
  BY <1>1, <1>2, <1>3
  DEF IInv, BackedUp, IndexWanted, IndexMade, MadeFromRead, Unchanged, CitationsSeen

\* An interrupted run without a fitting .aux file does not claim to fit.
LEMMA StoppedFits ==
  ASSUME TypeOK, NEW d \in Directory, NEW f \in Stopped(d) \cup {Typeset(d)},
         f = Typeset(d) \/ f.aux = NoAux, "undefined" \notin f.log
  PROVE  Resolved(f.aux)
<1>1. Resolved(NoAux)
  BY DEF Resolved, NoAux
<1> QED
  BY <1>1, TypesetFits

-----------------------------------------------------------------------------
(* The steps.                                                              *)

\* What the user does while the driver is not running.
LEMMA UserStep ==
  ASSUME IInv, User
  PROVE  IInv'
<1>1. TypeInv'
  BY TypeInvStep DEF IInv, Next
<1>2. pc' = "idle"
  BY DEF User, Edit, RunByHand, DeleteFiles
<1>3. LogFits'
  <2>1. CASE Edit
    BY <2>1 DEF Edit, historyVars, IInv, LogFits, Resolved
  <2>2. CASE RunByHand
    <3> USE DEF IInv, TypeInv
    <3>1. files'["work"] = files["work"] /\ doc' = doc
      BY <2>2 DEF RunByHand, TypeOK, Directory
    <3>2. fits' /\ "undefined" \notin files'["start"].log => Resolved(files'["start"].aux)
      <4>1. "start" \in Directory
        BY DEF Directory
      <4>2. CASE files' = [files EXCEPT !["start"] = Typeset("start")]
        BY <4>1, <4>2, TypesetFits DEF TypeOK
      <4>3. ASSUME NEW f \in Stopped("start"),
                   files' = [files EXCEPT !["start"] = f], fits' = (f.aux = NoAux)
            PROVE  fits' => Resolved(files'["start"].aux)
        <5>1. files'["start"] = f
          BY <4>1, <4>3 DEF TypeOK
        <5>2. Resolved(NoAux)
          BY DEF Resolved, NoAux
        <5>3. fits' => f.aux = NoAux
          BY <4>3
        <5> QED
          BY <5>1, <5>2, <5>3
      <4> QED
        BY <2>2, <4>2, <4>3 DEF RunByHand
    <3> QED
      BY <3>1, <3>2 DEF LogFits, Directory, Resolved
  <2>3. CASE DeleteFiles
    <3>1. Resolved(NoFiles.aux)
      BY DEF Resolved, NoFiles, NoAux
    <3>2. files'["start"] = NoFiles /\ files'["work"] = files["work"] /\ doc' = doc
      BY <2>3 DEF DeleteFiles, IInv, TypeInv, TypeOK, Directory
    <3> QED
      BY <3>1, <3>2 DEF IInv, LogFits, Directory, Resolved
  <2> QED
    BY <2>1, <2>2, <2>3 DEF User
<1> QED
  BY <1>1, <1>2, <1>3
  DEF IInv, BackedUp, IndexWanted, IndexMade, MadeFromRead, Unchanged, CitationsSeen

\* Collect brings the backup up to date.
LEMMA CollectStep ==
  ASSUME IInv, Collect
  PROVE  IInv'
<1>1. TypeInv'
  BY TypeInvStep DEF IInv, Next, Driver
<1>2. pc' = "bibtex" /\ UNCHANGED <<doc, files, clean, fits>>
  BY DEF Collect, historyVars
<1>3. BackedUp'
  <2>1. files[Current] \in Files /\ backup \in Files
    BY DEF IInv, TypeInv, TypeOK, Current, Directory
  <2>2. \A n \in previous' : backup'[n] = files[Current][n]
    BY <2>1 DEF Collect, AuxFiles, Files
  <2> QED
    BY <1>2, <2>2 DEF Collect, BackedUp, AuxFiles, Current
<1>4. IndexWanted'
  BY DEF Collect, IndexWanted
<1>5. LogFits'
  BY <1>2 DEF IInv, LogFits, Resolved
<1> QED
  BY <1>1, <1>2, <1>3, <1>4, <1>5
  DEF IInv, IndexMade, MadeFromRead, Unchanged, CitationsSeen

\* RunBibTeX looks at the .aux and .log files; if the citations of the former
\* are not known to be resolved it makes the bibliography.
LEMMA RunBibTeXStep ==
  ASSUME IInv, RunBibTeX
  PROVE  IInv'
<1> USE DEF IInv, TypeInv
<1>1. TypeInv'
  BY TypeInvStep DEF Next, Driver
<1>2. /\ pc = "bibtex" /\ pc' = "index"
      /\ UNCHANGED <<doc, clean, idxFiles, previous, backup, fits>>
      /\ Current' = Current /\ Current \in Directory
  BY DEF RunBibTeX, callVars, Current, Directory
<1>3. \A d \in Directory : /\ files'[d].aux = files[d].aux
                           /\ files'[d].idx = files[d].idx
                           /\ files'[d].log = files[d].log
  BY <1>2 DEF RunBibTeX, TypeOK, Files
<1>4. BackedUp'
  BY <1>2, <1>3 DEF BackedUp, AuxFiles, NoFiles
<1>5. IndexWanted'
  BY <1>2 DEF IndexWanted
<1>6. LogFits'
  BY <1>2, <1>3 DEF LogFits, Resolved
<1>7. CitationsSeen'
  <2> DEFINE f == files[Current]
  <2> SUFFICES ASSUME ~ misled'
               PROVE  BibliographyMade(f.aux, files'[Current].bbl)
    BY <1>2, <1>3 DEF CitationsSeen, BibliographyMade, Resolved
  <2>1. Current = "start" => fits
    BY DEF RunBibTeX, Current
  <2>2. CASE WantsBibTeX(f)
    <3>1. files'[Current].bbl = BibTeX(f.aux)
      BY <1>2, <2>2 DEF RunBibTeX, TypeOK, Files
    <3> QED
      BY <3>1 DEF BibTeX, BibliographyMade
  <2>3. CASE f.aux.citations = {}
    BY <2>3 DEF BibliographyMade, Resolved
  <2>4. CASE "undefined" \notin f.log
    BY <1>2, <2>1, <2>4 DEF LogFits, BibliographyMade
  <2> QED
    BY <2>2, <2>3, <2>4 DEF WantsBibTeX
<1> QED
  BY <1>1, <1>2, <1>4, <1>5, <1>6, <1>7 DEF IndexMade, MadeFromRead, Unchanged

\* MakeIndex brings the .ind file up to date.
LEMMA RunIndexGeneratorStep ==
  ASSUME IInv, RunIndexGenerator
  PROVE  IInv'
<1> USE DEF IInv, TypeInv
<1>1. TypeInv'
  BY TypeInvStep DEF Next, Driver
<1>2. /\ pc = "index" /\ pc' = "tex"
      /\ UNCHANGED <<doc, clean, idxFiles, previous, backup, fits, misled>>
      /\ Current' = Current /\ Current \in Directory
  BY DEF RunIndexGenerator, callVars, historyVars, Current, Directory
<1>3. \A d \in Directory : /\ files'[d].aux = files[d].aux
                           /\ files'[d].idx = files[d].idx
                           /\ files'[d].bbl = files[d].bbl
                           /\ files'[d].log = files[d].log
  BY <1>2 DEF RunIndexGenerator, TypeOK, Files
<1>4. BackedUp'
  BY <1>2, <1>3 DEF BackedUp, AuxFiles, NoFiles
<1>5. IndexWanted'
  BY <1>2 DEF IndexWanted
<1>6. IndexMade'
  BY <1>2, <1>3 DEF IndexMade, RunIndexGenerator, MakeIndex, TypeOK, Files
<1>7. LogFits'
  BY <1>2, <1>3 DEF LogFits, Resolved
<1>8. CitationsSeen'
  BY <1>2, <1>3 DEF CitationsSeen, BibliographyMade, Resolved
<1> QED
  BY <1>1, <1>2, <1>4, <1>5, <1>6, <1>7, <1>8 DEF MadeFromRead, Unchanged

\* LaTeX works on the files that were backed up.
LEMMA RunTeXStep ==
  ASSUME IInv, RunTeX
  PROVE  IInv'
<1> USE DEF IInv, TypeInv
<1>1. TypeInv'
  BY TypeInvStep DEF Next, Driver
<1>2. /\ pc = "tex" /\ pc' = "decide"
      /\ UNCHANGED <<doc, clean, idxFiles, previous, backup, misled>>
      /\ Current' = Current /\ Current \in Directory
  BY DEF RunTeX, callVars, Current, Directory
<1>3. /\ files'[Current] = Typeset(Current)
      /\ \A d \in Directory \ {Current} : files'[d] = files[d]
  BY <1>2 DEF RunTeX, TypeOK
<1>4. /\ Before("aux") = files[Current].aux
      /\ "idx" \in previous => backup.idx = files[Current].idx
  BY <1>2, BeforeIsNow DEF BackedUp
<1>5. Before("aux")' = Before("aux")
  BY <1>2 DEF Before
<1>6. /\ files'[Current].ind = files[Current].ind
      /\ files'[Current].bbl = files[Current].bbl
  BY <1>3 DEF Typeset
<1>7. HasRead' = Visible(Current)
  <2>1. Visible(Current)'.bbl = Visible(Current).bbl /\ Visible(Current)'.ind = Visible(Current).ind
    BY <1>2, <1>3, <1>6 DEF Visible, Current, Directory
  <2>2. clean => files'["start"].aux = files["start"].aux
    BY <1>3 DEF Current, Directory
  <2>3. HasRead'.aux = HasRead.aux
    BY <1>2, <1>5, <2>2 DEF HasRead
  <2>4. HasRead' = HasRead
    BY <2>1, <2>3 DEF HasRead
  <2> QED
    BY <1>4, <2>4, HasReadIsVisible
<1>8. IndexWanted'
  BY <1>2 DEF IndexWanted
<1>9. IndexMade'
  BY <1>2, <1>4, <1>6 DEF IndexMade, IndexWanted
<1>10. MadeFromRead'
  <2> DEFINE f == Visible(Current)
  <2>1. /\ Typeset(Current).aux = [citations |-> doc.cites,
                                 bibcites |-> Printed(f).bibliography,
                                 labels |-> {Page(f)}]
        /\ Typeset(Current).idx = [entry : doc.entries, page : {Page(f)}]
        /\ Typeset(Current).log = Messages(f)
    BY DEF Typeset
  <2>2. output' = Printed(f)
    BY DEF RunTeX
  <2> HIDE DEF f
  <2>3. HasRead' = f
    BY <1>7 DEF f
  <2>4. /\ Printed(HasRead)' = Printed(f)
        /\ Page(HasRead)' = Page(f)
        /\ Messages(HasRead)' = Messages(f)
    BY <1>2, <2>3 DEF Printed, Page, FirstPage, Messages, Misses, Moved
  <2> QED
    BY <1>2, <1>3, <2>1, <2>2, <2>4 DEF MadeFromRead
<1>11. LogFits'
  <2>1. "undefined" \notin files'[Current].log => Resolved(files'[Current].aux)
    BY <1>2, <1>3, TypesetFits
  <2>2. clean => fits' = fits
    BY DEF RunTeX, TypeOK
  <2> QED
    BY <1>2, <1>3, <2>1, <2>2 DEF LogFits, Resolved, Current, Directory
<1>12. CitationsSeen'
  BY <1>2, <1>4, <1>5, <1>6 DEF CitationsSeen, BibliographyMade, Resolved
<1> QED
  BY <1>1, <1>2, <1>8, <1>9, <1>10, <1>11, <1>12 DEF BackedUp, Unchanged

\* Ready has compared what LaTeX has read with what it has written.
LEMMA DecideStep ==
  ASSUME IInv, Decide
  PROVE  IInv'
<1> USE DEF IInv, TypeInv
<1>1. TypeInv'
  BY TypeInvStep DEF Next, Driver
<1>2. /\ pc = "decide" /\ pc' \in {"converged", "collect", "limit"}
      /\ UNCHANGED <<doc, files, output, clean, idxFiles, previous, backup, fits, misled>>
  BY DEF Decide, historyVars
<1>3. Unchanged'
  BY <1>2 DEF Decide, Unchanged, Ready, AuxFiles, Current
<1>4. IndexWanted'
  BY <1>2 DEF IndexWanted
<1>5. IndexMade'
  BY <1>2 DEF IndexMade, Current
<1>6. MadeFromRead'
  BY <1>2, SameRead DEF MadeFromRead, Current
<1>7. LogFits'
  BY <1>2 DEF LogFits, Resolved
<1>8. CitationsSeen'
  BY <1>2 DEF CitationsSeen, BibliographyMade, Resolved, Before, Current
<1> QED
  BY <1>1, <1>2, <1>3, <1>4, <1>5, <1>6, <1>7, <1>8 DEF BackedUp

\* The steps that end a call.
LEMMA EndStep ==
  ASSUME IInv, TeXFails \/ GiveUp \/ Finish
  PROVE  IInv'
<1> USE DEF IInv, TypeInv
<1>1. files["start"] \in Files /\ "start" \in Directory
  BY DEF TypeOK, Directory
<1>2. fits /\ "undefined" \notin files["start"].log => Resolved(files["start"].aux)
  BY <1>1 DEF LogFits
<1>3. CASE TeXFails
  <2>1. PICK f \in Stopped(Current) \cup {Typeset(Current)} :
          \/ clean /\ Return([files["start"] EXCEPT !.log = f.log]) /\ fits' = FALSE
          \/ ~ clean /\ Return(f) /\ fits' = (f = Typeset(Current) \/ f.aux = NoAux)
    BY <1>3 DEF TeXFails
  <2>2. Current \in Directory
    BY DEF Current, Directory
  <2>3. f \in Files
    BY <2>2, TypesetType, StoppedType
  <2>4. [files["start"] EXCEPT !.log = f.log] \in Files
    BY <1>1, <2>3 DEF Files
  <2>5. CASE clean /\ Return([files["start"] EXCEPT !.log = f.log]) /\ fits' = FALSE
    BY <2>4, <2>5, ReturnKeeps
  <2>6. CASE ~ clean /\ Return(f) /\ fits' = (f = Typeset(Current) \/ f.aux = NoAux)
    <3>1. fits' /\ "undefined" \notin f.log => Resolved(f.aux)
      BY <2>2, <2>6, StoppedFits
    <3> QED
      BY <2>3, <2>6, <3>1, ReturnKeeps
  <2> QED
    BY <2>1, <2>5, <2>6
<1>4. CASE GiveUp
  BY <1>1, <1>2, <1>4, ReturnKeeps, UnfinishedType DEF GiveUp, TypeOK
<1>5. CASE Finish
  BY <1>1, <1>2, <1>5, ReturnKeeps DEF Finish, TypeOK
<1> QED
  BY <1>3, <1>4, <1>5

LEMMA CallStep ==
  ASSUME IInv, NEW c \in BOOLEAN, Call(c)
  PROVE  IInv'
<1>1. TypeInv'
  BY TypeInvStep DEF IInv, Next, Driver
<1>2. pc' = "collect" /\ UNCHANGED <<doc, files, fits>>
  BY DEF Call, historyVars
<1> QED
  BY <1>1, <1>2
  DEF IInv, BackedUp, IndexWanted, IndexMade, MadeFromRead, Unchanged, CitationsSeen,
      LogFits, Resolved

LEMMA StutterStep ==
  ASSUME IInv, UNCHANGED vars
  PROVE  IInv'
<1> USE DEF IInv, vars, callVars, historyVars
<1>1. TypeInv'
  BY TypeInvStep
<1>2. BackedUp' /\ IndexWanted' /\ IndexMade' /\ Unchanged' /\ LogFits' /\ CitationsSeen'
  BY DEF BackedUp, IndexWanted, IndexMade, Unchanged, LogFits, CitationsSeen, AuxFiles,
         BibliographyMade, Resolved, Before, Current
<1>3. MadeFromRead'
  BY SameRead DEF MadeFromRead, Current
<1> QED
  BY <1>1, <1>2, <1>3

\* The invariant is inductive.
LEMMA Inductive ==
  /\ Init => IInv
  /\ IInv /\ [Next]_vars => IInv'
<1>1. ASSUME Init PROVE IInv
  <2>1. TypeInv
    BY <1>1, TypeInvInit
  <2>2. LogFits
    BY <1>1 DEF Init, LogFits, NoFiles, NoAux, Resolved, Directory
  <2> QED
    BY <1>1, <2>1, <2>2
    DEF Init, IInv, BackedUp, IndexWanted, IndexMade, MadeFromRead, Unchanged, CitationsSeen
<1>2. ASSUME IInv, [Next]_vars PROVE IInv'
  BY <1>2, UserStep, CallStep, CollectStep, RunBibTeXStep, RunIndexGeneratorStep, RunTeXStep,
     EndStep, DecideStep, StutterStep
  DEF Next, Driver
<1> QED
  BY <1>1, <1>2

-----------------------------------------------------------------------------
(* The theorems.                                                           *)

\* When texify stops because nothing changes, what it has read is what it has
\* left behind.
LEMMA ReadIsWritten ==
  ASSUME IInv, Converged
  PROVE  /\ HasRead = Visible(Current)
         /\ Before("aux") = files[Current].aux
         /\ "idx" \in previous => backup.idx = files[Current].idx
<1>1. /\ previous = AuxFiles(files[Current])
      /\ \A n \in previous : backup[n] = files[Current][n]
  BY DEF IInv, Unchanged, Converged
<1> QED
  BY <1>1, BeforeIsNow, HasReadIsVisible DEF IInv, TypeInv

\* Another run of LaTeX would change neither the output nor any file.
THEOREM FixpointTheorem == Spec => []OutputIsFixpoint
<1>1. ASSUME IInv, Converged
      PROVE  Typeset(Current) = files[Current] /\ Printed(Visible(Current)) = output
  <2> DEFINE f == Visible(Current)
  <2>1. HasRead = f
    BY <1>1, ReadIsWritten
  <2> HIDE DEF f
  <2>2. /\ files[Current].aux = [citations |-> doc.cites,
                                 bibcites |-> Printed(f).bibliography,
                                 labels |-> {Page(f)}]
        /\ files[Current].idx = [entry : doc.entries, page : {Page(f)}]
        /\ files[Current].log = Messages(f)
        /\ output = Printed(f)
    BY <1>1, <2>1 DEF IInv, MadeFromRead, Converged
  <2>3. files[Current] \in Files
    BY <1>1 DEF IInv, TypeInv, TypeOK, Current, Directory
  <2>4. Typeset(Current) = [aux |-> files[Current].aux, idx |-> files[Current].idx,
                            ind |-> files[Current].ind, bbl |-> files[Current].bbl,
                            log |-> files[Current].log]
    BY <2>2 DEF Typeset, f
  <2> QED
    BY <2>2, <2>3, <2>4 DEF Files, f
<1>2. IInv => OutputIsFixpoint
  BY <1>1 DEF OutputIsFixpoint
<1> QED
  BY <1>2, Inductive, PTL DEF Spec

\* As long as the document has an index, the index that was printed is its own.
THEOREM IndexTheorem == Spec => []IndexIsCurrent
<1>1. ASSUME IInv, Converged, doc.entries # {}
      PROVE  output.index = files[Current].idx
  <2>1. files[Current].idx # {}
    <3>1. PICK e \in doc.entries : TRUE
      BY <1>1
    <3>2. files[Current].idx = [entry : doc.entries, page : {Page(HasRead)}]
      BY <1>1 DEF IInv, MadeFromRead, Converged
    <3>3. [entry |-> e, page |-> Page(HasRead)] \in files[Current].idx
      BY <3>2
    <3> QED
      BY <3>3
  <2>2. "idx" \in previous
    BY <1>1, <2>1 DEF IInv, Unchanged, Converged, AuxFiles, NoFiles
  <2>3. files[Current].ind = files[Current].idx
    BY <1>1, <2>2, ReadIsWritten DEF IInv, IndexWanted, IndexMade, Converged
  <2>4. Visible(Current).ind = files[Current].ind
    BY <2>1, <2>3 DEF Visible
  <2>5. output = Printed(Visible(Current))
    BY <1>1, ReadIsWritten DEF IInv, MadeFromRead, Converged
  <2> QED
    BY <2>3, <2>4, <2>5 DEF Printed
<1>2. IInv => IndexIsCurrent
  BY <1>1 DEF IndexIsCurrent, IndexIsOfDocument
<1> QED
  BY <1>2, Inductive, PTL DEF Spec

\* Every citation that the .bib file has an entry for is resolved, unless
\* RunBibTeX has looked into a .log file of another run.
THEOREM CitationsTheorem == Spec => []CitationsResolved
<1>1. ASSUME IInv, Converged, ~ misled, doc.layout # "fixed"
      PROVE  doc.cites \cap doc.bib \subseteq output.resolved
  <2> DEFINE f == Visible(Current)
             aux == files[Current].aux
  <2>1. HasRead = f /\ Before("aux") = aux
    BY <1>1, ReadIsWritten
  <2>2. /\ aux = [citations |-> doc.cites, bibcites |-> Printed(f).bibliography,
                  labels |-> {Page(f)}]
        /\ output = Printed(f)
    BY <1>1, <2>1 DEF IInv, MadeFromRead, Converged
  <2>3. Resolved(aux) \/ files[Current].bbl = {doc.cites \cap doc.bib}
    BY <1>1, <2>1, <2>2 DEF IInv, CitationsSeen, BibliographyMade, Converged
  <2>4. CASE Resolved(aux)
    <3>1. doc.cites \subseteq Page(f).resolved
      BY <1>1, <2>2, <2>4 DEF Resolved
    <3>2. Page(f).resolved = output.resolved
      BY <1>1, <2>2 DEF Page
    <3> QED
      BY <3>1, <3>2
  <2>5. CASE files[Current].bbl = {doc.cites \cap doc.bib}
    <3>1. f.bbl = files[Current].bbl
      BY <2>5 DEF Visible
    <3>2. Printed(f).bibliography = doc.cites \cap doc.bib
      BY <2>5, <3>1 DEF Printed
    <3>3. aux # NoAux
      BY <2>2 DEF NoAux
    <3>4. f.aux = aux
      BY <3>3 DEF Visible
    <3>5. f.aux.bibcites = doc.cites \cap doc.bib
      BY <2>2, <3>2, <3>4
    <3> QED
      BY <2>2, <3>5 DEF Printed
  <2> QED
    BY <2>3, <2>4, <2>5
<1>2. IInv => CitationsResolved
  BY <1>1 DEF CitationsResolved
<1> QED
  BY <1>2, Inductive, PTL DEF Spec
-----------------------------------------------------------------------------
(* How long it takes.  Nothing is said of restless documents, and nothing  *)
(* of the first round, which finds whatever there was.                     *)

\* The .aux and .idx files are those of a complete run on this document.
Written ==
  LET f == files[Current] IN
    /\ f.aux.citations = doc.cites
    /\ \E page \in Label : /\ f.aux.labels = {page}
                           /\ f.idx = [entry : doc.entries, page : {page}]

\* The .aux file lists the bibliography that there is.
Listed == files[Current].aux.bibcites = Printed(Visible(Current)).bibliography

\* The index has the entries of this document.
Indexed == doc.entries # {} => {item.entry : item \in Visible(Current).ind} = doc.entries

\* BibTeX has made the bibliography of this document.
Made == doc.cites = {} \/ files[Current].bbl = {doc.cites \cap doc.bib}

\* The last run has missed citations, so that BibTeX is going to be run; it
\* has not, and the next one will not either.
Missed == "undefined" \in files[Current].log
Content == ~ Missed /\ ~ Misses(Visible(Current))

\* The next run of LaTeX would put the label on the page on which it is.
Settled ==
  /\ Listed /\ (Made \/ Content)
  /\ files[Current].aux.labels = {Page(Visible(Current))}

\* What a round finds after n rounds.
Found(n) ==
  /\ n >= 1 => Written /\ Listed
  /\ n >= 2 => Indexed /\ (Made \/ Missed \/ Settled)
  /\ n >= 3 => Made \/ Settled
  /\ n >= 4 => Settled

\* What there is when it has run BibTeX.
Prepared(n) ==
  /\ n >= 1 => Written /\ (Made \/ (~ Missed /\ Listed))
  /\ n >= 2 => Indexed /\ (Made \/ Settled)
  /\ n >= 3 => (Made /\ Listed) \/ Settled
  /\ n >= 4 => Settled

Progress ==
  doc.layout # "restless" =>
    /\ pc \in {"collect", "bibtex"} => Found(iteration)
    /\ pc \in {"index", "tex"} => Prepared(iteration)
    /\ pc = "tex" /\ iteration >= 1 => Indexed
    /\ pc = "decide" => Found(iteration + 1) /\ (iteration >= 4 => Ready)
    /\ pc # "limit"

\* Steps that touch neither the document nor a file leave all of this alone.
LEMMA SameFiles ==
  ASSUME UNCHANGED <<doc, clean, files>>
  PROVE  /\ Written' <=> Written
         /\ Listed' <=> Listed
         /\ Indexed' <=> Indexed
         /\ Made' <=> Made
         /\ Missed' <=> Missed
         /\ Content' <=> Content
         /\ Settled' <=> Settled
<1> DEFINE f == Visible(Current)
<1>1. Current' = Current /\ Visible(Current)' = f
  BY DEF Visible, Current
<1> HIDE DEF f
<1>2. /\ Printed(Visible(Current))' = Printed(f)
      /\ Page(Visible(Current))' = Page(f)
      /\ Misses(Visible(Current))' <=> Misses(f)
  BY <1>1 DEF Printed, Page, FirstPage, Misses
<1>3. Written' <=> Written
  BY <1>1 DEF Written
<1>4. Listed' <=> Listed
  BY <1>1, <1>2 DEF Listed, f
<1>5. Indexed' <=> Indexed
  BY <1>1 DEF Indexed, f
<1>6. (Made' <=> Made) /\ (Missed' <=> Missed)
  BY <1>1 DEF Made, Missed
<1>7. Content' <=> Content
  BY <1>2, <1>6 DEF Content, f
<1>8. Settled' <=> Settled
  BY <1>1, <1>2, <1>4, <1>6, <1>7 DEF Settled, f
<1> QED
  BY <1>3, <1>4, <1>5, <1>6, <1>7, <1>8

\* The label's page depends on what is printed only, and on the label being known.
LEMMA SamePage ==
  ASSUME NEW f, NEW g, doc.layout # "restless",
         Printed(f).resolved = Printed(g).resolved,
         Printed(f).bibliography = Printed(g).bibliography,
         {item.entry : item \in f.ind} = {item.entry : item \in g.ind},
         f.aux.labels # {}, g.aux.labels # {}
  PROVE  Page(f) = Page(g)
BY DEF Page

\* The .aux file of this directory is what LaTeX sees once there has been a
\* complete run.
LEMMA WrittenIsSeen ==
  ASSUME Written
  PROVE  /\ Visible(Current).aux = files[Current].aux
         /\ files[Current].aux.labels # {}
<1>1. files[Current].aux.labels # {}
  BY DEF Written
<1>2. files[Current].aux # NoAux
  BY <1>1 DEF NoAux
<1> QED
  BY <1>1, <1>2 DEF Visible

\* RunBibTeX.
LEMMA BibTeXProgress ==
  ASSUME IInv, RunBibTeX, NEW n \in Nat, Found(n)
  PROVE  Prepared(n)'
<1> USE DEF IInv, TypeInv
<1>1. UNCHANGED <<doc, clean>> /\ Current' = Current /\ Current \in Directory
  BY DEF RunBibTeX, callVars, Current, Directory
<1>2. n >= 1 /\ WantsBibTeX(files[Current]) => doc.cites # {} /\ Missed
  BY DEF Found, Written, WantsBibTeX, Missed
<1>3. n >= 1 /\ Missed /\ ~ WantsBibTeX(files[Current]) => Made
  BY DEF Found, Written, WantsBibTeX, Missed, Made
<1>4. CASE files' = files
  <2>1. Prepared(n)
    <3>1. n >= 1 /\ Missed => Made
      <4>1. CASE WantsBibTeX(files[Current]) /\ n >= 1
        <5>1. files'[Current].bbl = BibTeX(files[Current].aux)
          BY <1>1, <4>1 DEF RunBibTeX, TypeOK, Files
        <5> QED
          BY <1>4, <4>1, <5>1 DEF Found, Written, BibTeX, Made
      <4> QED
        BY <1>3, <4>1
    <3> QED
      BY <3>1 DEF Found, Prepared, Settled
  <2> QED
    BY <1>1, <1>4, <2>1, SameFiles DEF Prepared
<1>5. CASE files' # files
  <2>1. WantsBibTeX(files[Current])
    BY <1>5 DEF RunBibTeX
  <2>2. /\ files'[Current].aux = files[Current].aux
        /\ files'[Current].idx = files[Current].idx
        /\ files'[Current].ind = files[Current].ind
        /\ files'[Current].bbl = BibTeX(files[Current].aux)
        /\ files'["start"].ind = files["start"].ind
    BY <1>1, <2>1 DEF RunBibTeX, TypeOK, Files, Directory
  <2>3. CASE n >= 3
    <3>1. Made
      BY <1>2, <2>1, <2>3 DEF Found, Settled, Content
    <3>2. files[Current].bbl = BibTeX(files[Current].aux)
      BY <1>2, <2>1, <2>3, <3>1 DEF Found, Written, Made, BibTeX
    <3>3. files' = files
      BY <1>1, <2>1, <3>2 DEF RunBibTeX, TypeOK, Files
    <3> QED
      BY <1>5, <3>3
  <2>4. CASE n \in {1, 2}
    <3>1. Made'
      BY <1>1, <2>2, <2>4 DEF Found, Written, Made, BibTeX
    <3>2. Written'
      BY <1>1, <2>2, <2>4 DEF Found, Written
    <3>3. n = 2 => Indexed'
      BY <1>1, <2>2, <2>4 DEF Found, Indexed, Visible, Current
    <3> QED
      BY <2>4, <3>1, <3>2, <3>3 DEF Prepared
  <2>5. CASE n = 0
    BY <2>5 DEF Prepared
  <2> QED
    BY <2>3, <2>4, <2>5
<1> QED
  BY <1>4, <1>5

\* RunIndexGenerator changes nothing but the pages of the index, unless it
\* brings the entries of the document in.
LEMMA IndexProgress ==
  ASSUME IInv, RunIndexGenerator, NEW n \in Nat, Prepared(n), doc.layout # "restless"
  PROVE  Prepared(n)' /\ (n >= 1 => Indexed')
<1> USE DEF IInv, TypeInv
<1>1. UNCHANGED <<doc, clean>> /\ Current' = Current /\ Current \in Directory
  BY DEF RunIndexGenerator, callVars, Current, Directory
<1>2. CASE n = 0
  BY <1>2 DEF Prepared
<1>3. CASE n >= 1
  <2>1. Written
    BY <1>3 DEF Prepared
  <2>2. PICK page \in Label : files[Current].idx = [entry : doc.entries, page : {page}]
    BY <2>1 DEF Written
  <2>3. idxFiles = (files[Current].idx # {})
    BY DEF RunIndexGenerator, BackedUp, IndexWanted, AuxFiles, NoFiles
  <2>4. CASE doc.entries = {}
    <3>1. ~ idxFiles
      BY <2>2, <2>3, <2>4
    <3>2. files' = files
      BY <3>1 DEF RunIndexGenerator
    <3> QED
      BY <1>1, <2>4, <3>2, SameFiles DEF Prepared, Indexed
  <2>5. CASE doc.entries # {}
    <3>1. files[Current].idx # {}
      <4>1. PICK e \in doc.entries : TRUE
        BY <2>5
      <4>2. [entry |-> e, page |-> page] \in files[Current].idx
        BY <2>2
      <4> QED
        BY <4>2
    <3>2. /\ files'[Current].ind = files[Current].idx
          /\ files'[Current].idx = files[Current].idx
          /\ files'[Current].aux = files[Current].aux
          /\ files'[Current].bbl = files[Current].bbl
          /\ files'[Current].log = files[Current].log
          /\ files'["start"].aux = files["start"].aux
          /\ files'["start"].bbl = files["start"].bbl
      BY <1>1, <2>3, <3>1 DEF RunIndexGenerator, MakeIndex, TypeOK, Files, Directory
    <3> DEFINE f == Visible(Current)
               g == Visible(Current)'
    <3>3. g.aux = f.aux /\ g.bbl = f.bbl
      BY <1>1, <3>2 DEF Visible
    <3>4. g.ind = files[Current].idx
      BY <1>1, <3>1, <3>2 DEF Visible
    <3>5. f.aux.labels # {} /\ g.aux.labels # {}
      BY <2>1, <3>3, WrittenIsSeen
    <3> HIDE DEF f, g
    <3>6. {item.entry : item \in g.ind} = doc.entries
      <4>1. \A item \in g.ind : item.entry \in doc.entries
        BY <2>2, <3>4
      <4>2. \A e \in doc.entries : [entry |-> e, page |-> page] \in g.ind
        BY <2>2, <3>4
      <4>3. \A e \in doc.entries : e \in {item.entry : item \in g.ind}
        <5> SUFFICES ASSUME NEW e \in doc.entries
                     PROVE  \E item \in g.ind : item.entry = e
          OBVIOUS
        <5>1. [entry |-> e, page |-> page] \in g.ind /\ [entry |-> e, page |-> page].entry = e
          BY <4>2
        <5> QED
          BY <5>1
      <4>4. \A e \in {item.entry : item \in g.ind} : e \in doc.entries
        BY <4>1
      <4> QED
        BY <4>3, <4>4
    <3>7. Indexed'
      BY <1>1, <3>6 DEF Indexed, g
    <3>8. /\ Printed(Visible(Current))' = Printed(g)
          /\ Page(Visible(Current))' = Page(g)
          /\ Misses(Visible(Current))' <=> Misses(g)
      BY <1>1 DEF Printed, Page, FirstPage, Misses, g
    <3>9. /\ Printed(g).resolved = Printed(f).resolved
          /\ Printed(g).bibliography = Printed(f).bibliography
          /\ Misses(g) <=> Misses(f)
      BY <3>3 DEF Printed, Misses
    <3>10. (Written' <=> Written) /\ (Made' <=> Made) /\ (Missed' <=> Missed)
      BY <1>1, <3>2 DEF Written, Made, Missed
    <3>11. (Listed' <=> Listed) /\ (Content' <=> Content)
      BY <1>1, <3>2, <3>8, <3>9, <3>10 DEF Listed, Content, f
    <3>12. n >= 2 /\ Settled => Settled'
      <4> SUFFICES ASSUME n >= 2, Settled PROVE Settled'
        OBVIOUS
      <4>1. {item.entry : item \in f.ind} = {item.entry : item \in g.ind}
        BY <2>5, <3>6 DEF Prepared, Indexed, f
      <4>2. Page(g) = Page(f)
        BY <3>5, <3>9, <4>1, SamePage
      <4> QED
        BY <1>1, <3>2, <3>8, <3>10, <3>11, <4>2 DEF Settled, f
    <3> QED
      BY <3>7, <3>10, <3>11, <3>12 DEF Prepared
  <2> QED
    BY <2>4, <2>5
<1> QED
  BY <1>2, <1>3

\* LaTeX writes down what it has printed: if the bibliography is the one that
\* it has read about, the next run will print the same.
LEMMA TeXProgress ==
  ASSUME IInv, RunTeX, NEW n \in Nat, Prepared(n), doc.layout # "restless",
         n >= 1 => Indexed
  PROVE  Found(n + 1)' /\ (n >= 4 => Ready')
<1> USE DEF IInv, TypeInv
<1>1. /\ pc = "tex"
      /\ UNCHANGED <<doc, clean, previous, backup>>
      /\ Current' = Current /\ Current \in Directory
  BY DEF RunTeX, callVars, Current, Directory
<1> DEFINE d == Current
           f == Visible(Current)
           g == Visible(Current)'
           Items(page) == [entry : doc.entries, page : {page}]
<1>2. /\ files'[d].aux = [citations |-> doc.cites,
                          bibcites |-> Printed(f).bibliography,
                          labels |-> {Page(f)}]
      /\ files'[d].idx = Items(Page(f))
      /\ files'[d].ind = files[d].ind /\ files'[d].bbl = files[d].bbl
      /\ files'[d].log = Messages(f)
  <2>1. files'[d] = Typeset(d)
    BY <1>1 DEF RunTeX, TypeOK
  <2>2. Typeset(d) = [aux |-> [citations |-> doc.cites,
                               bibcites |-> Printed(f).bibliography,
                               labels |-> {Page(f)}],
                      idx |-> Items(Page(f)),
                      ind |-> files[d].ind,
                      bbl |-> files[d].bbl,
                      log |-> Messages(f)]
    BY DEF Typeset
  <2> HIDE DEF f, Items
  <2> QED
    BY <2>1, <2>2
<1>3. Page(f) \in Label
  BY <1>1, VisibleType, PrintedType
<1>4. g.bbl = f.bbl /\ g.ind = f.ind
  <2>1. files'["start"].bbl = files["start"].bbl /\ files'["start"].ind = files["start"].ind
    BY <1>1, <1>2 DEF RunTeX, TypeOK, Directory
  <2> QED
    BY <1>1, <1>2, <2>1 DEF Visible
<1>5. g.aux = files'[d].aux
  <2>1. files'[d].aux # NoAux
    BY <1>2 DEF NoAux
  <2>2. g.aux = IF files'[d].aux # NoAux THEN files'[d].aux ELSE files'["start"].aux
    BY <1>1 DEF Visible
  <2> HIDE DEF f, g
  <2> QED
    BY <2>1, <2>2
<1> HIDE DEF f, g, Items
<1>6. /\ Printed(Visible(Current))' = Printed(g)
      /\ Page(Visible(Current))' = Page(g)
      /\ Misses(Visible(Current))' <=> Misses(g)
  BY <1>1 DEF Printed, Page, FirstPage, Misses, g
<1>7. Printed(g).bibliography = Printed(f).bibliography
  BY <1>4 DEF Printed
<1>8. Written' /\ Listed'
  <2>1. Written' <=> /\ files'[d].aux.citations = doc.cites
                     /\ \E page \in Label : /\ files'[d].aux.labels = {page}
                                            /\ files'[d].idx = Items(page)
    BY <1>1 DEF Written, Items
  <2>2. Listed'
    BY <1>1, <1>2, <1>6, <1>7 DEF Listed
  <2> QED
    BY <1>2, <1>3, <2>1, <2>2
<1>9. (Made => Made') /\ (Indexed => Indexed')
  BY <1>1, <1>2, <1>4 DEF Made, Indexed, f, g
<1>10. Missed' <=> Misses(f)
  BY <1>1, <1>2 DEF Missed, Messages
<1>11. ASSUME n >= 1, Listed
       PROVE  Page(g) = Page(f) /\ (Misses(g) <=> Misses(f))
  <2>1. f.aux = files[d].aux /\ f.aux.labels # {}
    BY <1>11, WrittenIsSeen DEF Prepared, f
  <2>2. f.aux.bibcites = Printed(f).bibliography
    BY <1>11, <2>1 DEF Listed, f
  <2>3. g.aux.bibcites = f.aux.bibcites /\ g.aux.labels # {}
    BY <1>2, <1>5, <2>2
  <2>4. Printed(g).resolved = Printed(f).resolved
    BY <2>3 DEF Printed
  <2>5. Page(g) = Page(f)
    BY <1>4, <1>7, <2>1, <2>3, <2>4, SamePage
  <2> QED
    BY <1>4, <2>3, <2>5 DEF Misses
<1>12. ASSUME n >= 1, Listed, Made \/ ~ Missed'
       PROVE  Settled'
  <2>1. files'[d].aux.labels = {Page(g)}
    BY <1>2, <1>11, <1>12
  <2>2. Made' \/ Content'
    BY <1>6, <1>9, <1>10, <1>11, <1>12 DEF Content
  <2> QED
    BY <1>1, <1>6, <1>8, <2>1, <2>2 DEF Settled
<1>13. ASSUME n >= 1, Settled
       PROVE  Settled'
  <2>1. Made \/ ~ Missed'
    BY <1>10, <1>13 DEF Settled, Content, f
  <2> QED
    BY <1>12, <1>13, <2>1 DEF Settled
<1>14. n >= 1 => Indexed' /\ (Made' \/ Missed' \/ Settled')
  BY <1>9, <1>12 DEF Prepared
<1>15. n >= 2 => Made' \/ Settled'
  BY <1>9, <1>13 DEF Prepared
<1>16. n >= 3 => Settled'
  BY <1>12, <1>13 DEF Prepared
<1>17. ASSUME n >= 4
       PROVE  Ready'
  <2>1. Settled /\ Written
    BY <1>17 DEF Prepared
  <2>2. files[d].aux.labels = {Page(f)} /\ files[d].aux.bibcites = Printed(f).bibliography
    BY <2>1 DEF Settled, Listed, f
  <2>3. files'[d].aux = files[d].aux
    <3>1. files[d] \in Files
      BY <1>1 DEF TypeOK
    <3> QED
      BY <1>2, <2>1, <2>2, <3>1 DEF Written, Files
  <2>4. files'[d].idx = files[d].idx
    BY <1>2, <2>1, <2>2 DEF Written, Items
  <2>5. "rerun" \notin files'[d].log
    <3>1. f.aux = files[d].aux
      BY <2>1, WrittenIsSeen DEF f
    <3>2. ~ Moved(f)
      BY <2>2, <3>1 DEF Moved
    <3> QED
      BY <1>2, <3>2 DEF Messages
  <2>6. /\ previous = AuxFiles(files[d])
        /\ \A k \in previous : backup[k] = files[d][k]
    BY <1>1 DEF BackedUp
  <2>7. AuxFiles(files'[d]) = AuxFiles(files[d])
    BY <2>3, <2>4 DEF AuxFiles
  <2>8. \A k \in previous : files'[d][k] = backup[k]
    BY <2>3, <2>4, <2>6 DEF AuxFiles
  <2> QED
    BY <1>1, <2>5, <2>6, <2>7, <2>8 DEF Ready, AuxFiles
<1> QED
  BY <1>8, <1>14, <1>15, <1>16, <1>17 DEF Found

\* What is inductive: the progress, and what there is in which place of the loop.
SettleInv == IInv /\ Progress

\* The steps of the loop and the others.
LEMMA ProgressStep ==
  ASSUME MaxIterations >= 5, SettleInv, [Next]_vars
  PROVE  SettleInv'
<1> USE DEF SettleInv
<1>1. IInv'
  BY Inductive
<1>2. iteration \in Nat
  BY ConstantsAssumption DEF IInv, TypeInv, TypeOK
<1> SUFFICES ASSUME (doc.layout # "restless")'
             PROVE  Progress'
  BY <1>1 DEF Progress
<1>3. ASSUME pc' = "idle" PROVE Progress'
  BY <1>3 DEF Progress
<1>4. ASSUME User PROVE Progress'
  BY <1>3, <1>4 DEF User, Edit, RunByHand, DeleteFiles
<1>5. ASSUME TeXFails \/ GiveUp \/ Finish PROVE Progress'
  BY <1>3, <1>5 DEF TeXFails, GiveUp, Finish, Return
<1>6. ASSUME NEW c \in BOOLEAN, Call(c) PROVE Progress'
  <2>1. pc' = "collect" /\ iteration' = 0
    BY <1>6 DEF Call, IInv, TypeInv, TypeOK
  <2> QED
    BY <2>1 DEF Progress, Found
<1>7. ASSUME Collect PROVE Progress'
  <2>1. pc = "collect" /\ pc' = "bibtex" /\ UNCHANGED <<doc, files, clean, iteration>>
    BY <1>7 DEF Collect
  <2> QED
    BY <2>1, SameFiles DEF Progress, Found
<1>8. ASSUME RunBibTeX PROVE Progress'
  <2>1. pc = "bibtex" /\ pc' = "index" /\ UNCHANGED <<doc, iteration>>
    BY <1>8 DEF RunBibTeX, callVars
  <2>2. Found(iteration)
    BY <2>1 DEF Progress
  <2>3. Prepared(iteration)'
    BY <1>2, <1>8, <2>1, <2>2, BibTeXProgress DEF Prepared
  <2> QED
    BY <2>1, <2>3 DEF Progress
<1>9. ASSUME RunIndexGenerator PROVE Progress'
  <2>1. pc = "index" /\ pc' = "tex" /\ UNCHANGED <<doc, iteration>>
    BY <1>9 DEF RunIndexGenerator, callVars
  <2>2. Prepared(iteration)
    BY <2>1 DEF Progress
  <2>3. Prepared(iteration)' /\ (iteration' >= 1 => Indexed')
    BY <1>2, <1>9, <2>1, <2>2, IndexProgress DEF Prepared
  <2> QED
    BY <2>1, <2>3 DEF Progress
<1>10. ASSUME RunTeX PROVE Progress'
  <2>1. pc = "tex" /\ pc' = "decide" /\ UNCHANGED <<doc, iteration>>
    BY <1>10 DEF RunTeX, callVars
  <2>2. Prepared(iteration) /\ (iteration >= 1 => Indexed)
    BY <2>1 DEF Progress
  <2>3. Found(iteration + 1)' /\ (iteration' >= 4 => Ready')
    BY <1>2, <1>10, <2>1, <2>2, TeXProgress DEF Found
  <2> QED
    BY <2>1, <2>3 DEF Progress
<1>11. ASSUME Decide PROVE Progress'
  <2>1. /\ pc = "decide" /\ pc' \in {"converged", "collect", "limit"}
        /\ UNCHANGED <<doc, files, clean>> /\ iteration' = iteration + 1
    BY <1>11 DEF Decide
  <2>2. Found(iteration + 1) /\ (iteration >= 4 => Ready)
    BY <2>1 DEF Progress
  <2>3. pc' # "limit"
    BY <1>2, <1>11, <2>1, <2>2, ConstantsAssumption DEF Decide
  <2>4. Found(iteration)'
    BY <1>2, <2>1, <2>2, SameFiles DEF Found
  <2> QED
    BY <2>1, <2>3, <2>4 DEF Progress
<1>12. ASSUME UNCHANGED vars PROVE Progress'
  <2>1. UNCHANGED <<doc, files, clean, iteration, previous, backup, pc>>
    BY <1>12 DEF vars, callVars
  <2>2. Ready' <=> Ready
    BY <2>1 DEF Ready, Current, AuxFiles
  <2> QED
    BY <2>1, <2>2, SameFiles DEF Progress, Found, Prepared
<1> QED
  BY <1>4, <1>5, <1>6, <1>7, <1>8, <1>9, <1>10, <1>11, <1>12 DEF Next, Driver

\* The default limit, or any higher one, is enough for every document that
\* comes to rest, with any number of keys and entries: the fifth run of LaTeX
\* at the latest changes nothing, whatever was there when the call began.
THEOREM SettlesTheorem ==
  ASSUME MaxIterations >= 5
  PROVE  Spec => []SettlesInTime
<1>1. Init => SettleInv
  BY Inductive DEF SettleInv, Progress, Init
<1>2. SettleInv /\ [Next]_vars => SettleInv'
  BY ProgressStep
<1>3. SettleInv => SettlesInTime
  BY DEF SettleInv, Progress, SettlesInTime
<1> QED
  BY <1>1, <1>2, <1>3, PTL DEF Spec
=============================================================================
