------------------------- MODULE FndbChangeFileProofs -------------------------
(***************************************************************************)
(* Proofs about FndbChangeFile, for all sessions, paths and bounds.  The   *)
(* invariant is proved in layers, each of which uses those before it.      *)
(***************************************************************************)
EXTENDS FndbChangeFile, Induction, TLAPS

\* The rebuild of s has begun to exchange the files.
PastScan(s) == Rebuilding(s) /\ pc[s] # "scan"

\* What is known of an operation at each of its steps.
OperatingAt(s) ==
  /\ pc[s] = "idle" => op[s] = NoOp
  /\ Rebuilding(s) => op[s].kind \in {"rebuild", "add"}
  /\ pc[s] \in {"load"} \cup ApplySteps => op[s].kind \notin {"none", "rebuild"}
  /\ pc[s] \in {"open", "lock", "append"} => Adding(s) \/ Removing(s)
  /\ pc[s] \in {"open", "lock", "append"} => op[s].phase = "update"
  /\ pc[s] = "recordGone" => Removing(s)
  /\ op[s].fresh => pc[s] \in ApplySteps
  /\ pc[s] \in ApplySteps \cup {"open", "lock", "append"} => loaded[s]
  /\ pc[s] = "load" \/ PastScan(s) => ~ loaded[s]
  /\ event[s] => loaded[s]

Operating == \A s \in Session : OperatingAt(s)

\* The files of the operations that are under way, each of which has its files
\* to itself, but for several that add one and the same.
FilesInUse ==
  \A s \in Session :
    /\ Adding(s) \/ op[s].kind = "remove" => op[s].path \in disk
    /\ Moving(s) => op[s].path \notin disk /\ op[s].dest \in disk
    /\ \A t \in Others(s) : Concerned(s) \cap Concerned(t) # {} => Adding(s) /\ Adding(t)

\* What has been achieved at each step of a rebuild that nobody disturbs.
Rebuilt ==
  ~ collided => \A s \in Session : PastScan(s) =>
    /\ \A t \in Others(s) :
         ~ loaded[t] /\ pc[t] \in {"idle", "scan"} /\ op[t].kind \in {"none", "rebuild"}
    /\ pc[s] = "writeTmp" => view[s] = disk
    /\ pc[s] \in {"deleteBase", "move"} => tmp.exists /\ tmp.files = disk
    /\ pc[s] = "deleteChanges" => base.exists /\ base.files = disk

\* Nobody has got in the way, or is about to exchange the files.
Free == ~ collided /\ \A s \in Session : ~ PastScan(s)

AllViews == Views(base.files, 0, changes.lines)

Applied(s, k) == offset[s] = Starts(changes.lines)[k] /\ view[s] = AllViews[k]

\* The lines can be read, and views are views of them.
Readable ==
  Free =>
    /\ base.exists
    /\ \A j \in 1..Len(changes.lines) : ~ BadLine(AllViews, changes.lines, j)
    /\ \A s \in Session : loaded[s] => \E k \in 0..Len(changes.lines) : Applied(s, k)

\* Who appends is alone and up to date.
Appending ==
  Free =>
    /\ orphan = {}
    /\ \A s \in Session : pc[s] = "append" => ~ Stale(s) /\ WriteLocked = {s}

\* The records of the files of the operations, and of the others.
Recorded ==
  Free =>
    /\ \A s \in Session :
         Removing(s) /\ op[s].phase = "update" /\ pc[s] # "recordGone" => op[s].path \in Index
    /\ \A s \in Session :
         op[s].kind = "remove" /\ pc[s] = "recordGone" => op[s].path \notin Index
    /\ Index \ disk \subseteq moved
    /\ \A p \in disk : p \in Index \/ p \in dirty \/ InFlight(p) # {}

\* No error is raised by sessions that keep out of each other's way.
Undamaged == damaged # "no" => collided

\* Whoever is not about to read either knows that there is something to read, or
\* is going to be told, or there is nothing.
Notified ==
  ~ collided /\ ~ lost => \A s \in Session :
    loaded[s] /\ pc[s] \notin {"read", "clear", "raise", "scan"} =>
      modified[s] \/ event[s] \/ ~ Stale(s)
-----------------------------------------------------------------------------
(* The read loop and the offsets, by induction over the lines.             *)

\* The recursive definition of Starts is sound.
LEMMA StartsDef ==
  ASSUME NEW lines \in Seq(Line)
  PROVE  /\ Starts(lines)[0] = 0
         /\ \A k \in 1..Len(lines) : Starts(lines)[k] = Starts(lines)[k - 1] + Length(lines[k])
<1> DEFINE Solves(f, n) ==
      f = [k \in 0..n |-> IF k = 0 THEN 0 ELSE f[k - 1] + Length(lines[k])]
<1> DEFINE S == {n \in Nat : \E f : Solves(f, n)}
<1>1. 0 \in S
  <2>1. Solves([k \in 0..0 |-> 0], 0)
    OBVIOUS
  <2> QED BY <2>1
<1>2. ASSUME NEW n \in Nat, n \in S PROVE n + 1 \in S
  <2>1. PICK f : Solves(f, n)
    BY <1>2
  <2>2. \A k \in 0..n : f[k] = IF k = 0 THEN 0 ELSE f[k - 1] + Length(lines[k])
    BY <2>1
  <2> DEFINE g == [k \in 0..n + 1 |-> IF k = 0 THEN 0 ELSE f[k - 1] + Length(lines[k])]
  <2>3. \A k \in 0..n : g[k] = f[k]
    BY <2>2
  <2>4. \A k \in 0..n + 1 : (IF k = 0 THEN 0 ELSE f[k - 1] + Length(lines[k]))
                           = (IF k = 0 THEN 0 ELSE g[k - 1] + Length(lines[k]))
    <3> HIDE DEF g
    <3> QED BY <2>3
  <2>5. g = [k \in 0..n + 1 |-> IF k = 0 THEN 0 ELSE f[k - 1] + Length(lines[k])]
    OBVIOUS
  <2> HIDE DEF g
  <2>6. Solves(g, n + 1)
    BY ONLY <2>4, <2>5
  <2>7. \E h : Solves(h, n + 1)
    BY <2>6
  <2> HIDE DEF Solves
  <2> QED BY <2>7
<1>3. Len(lines) \in S
  <2> HIDE DEF S
  <2>1. \A n \in Nat : n \in S
    BY <1>1, <1>2, SetInduction
  <2> QED BY <2>1
<1>4. Starts(lines) = CHOOSE f : Solves(f, Len(lines))
  BY DEF Starts
<1>5. Solves(Starts(lines), Len(lines))
  BY <1>3, <1>4
<1> DEFINE f == Starts(lines)
<1>6. \A k \in 0..Len(lines) : f[k] = IF k = 0 THEN 0 ELSE f[k - 1] + Length(lines[k])
  <2> HIDE DEF f
  <2>1. Solves(f, Len(lines))
    BY <1>5 DEF f
  <2> QED BY <2>1
<1> HIDE DEF f
<1>7. f[0] = 0 /\ \A k \in 1..Len(lines) : f[k] = f[k - 1] + Length(lines[k])
  BY <1>6
<1> QED BY <1>7 DEF f

\* So is that of Views.
LEMMA ViewsDef ==
  ASSUME NEW v, NEW lines \in Seq(Line), NEW k \in 0..Len(lines)
  PROVE  /\ Views(v, k, lines)[k] = v
         /\ \A j \in k + 1..Len(lines) :
              Views(v, k, lines)[j] = ApplyLine(Views(v, k, lines)[j - 1], lines[j])
<1> DEFINE Solves(f, n) ==
      f = [j \in k..n |-> IF j = k THEN v ELSE ApplyLine(f[j - 1], lines[j])]
<1> DEFINE S == {n \in Nat : \E f : Solves(f, n)}
<1>1. 0 \in S
  <2>1. Solves([j \in k..0 |-> v], 0)
    OBVIOUS
  <2> QED BY <2>1
<1>2. ASSUME NEW n \in Nat, n \in S PROVE n + 1 \in S
  <2>1. PICK f : Solves(f, n)
    BY <1>2
  <2>2. \A j \in k..n : f[j] = IF j = k THEN v ELSE ApplyLine(f[j - 1], lines[j])
    BY <2>1
  <2> DEFINE g == [j \in k..n + 1 |-> IF j = k THEN v ELSE ApplyLine(f[j - 1], lines[j])]
  <2>3. \A j \in k..n : g[j] = f[j]
    BY <2>2
  <2>4. \A j \in k..n + 1 : (IF j = k THEN v ELSE ApplyLine(f[j - 1], lines[j]))
                           = (IF j = k THEN v ELSE ApplyLine(g[j - 1], lines[j]))
    <3> HIDE DEF g
    <3> QED BY <2>3
  <2>5. g = [j \in k..n + 1 |-> IF j = k THEN v ELSE ApplyLine(f[j - 1], lines[j])]
    OBVIOUS
  <2> HIDE DEF g
  <2>6. Solves(g, n + 1)
    BY ONLY <2>4, <2>5
  <2>7. \E h : Solves(h, n + 1)
    BY <2>6
  <2> HIDE DEF Solves
  <2> QED BY <2>7
<1>3. Len(lines) \in S
  <2> HIDE DEF S
  <2>1. \A n \in Nat : n \in S
    BY <1>1, <1>2, SetInduction
  <2> QED BY <2>1
<1>4. Views(v, k, lines) = CHOOSE f : Solves(f, Len(lines))
  BY DEF Views
<1>5. Solves(Views(v, k, lines), Len(lines))
  BY <1>3, <1>4
<1> DEFINE f == Views(v, k, lines)
<1>6. \A j \in k..Len(lines) : f[j] = IF j = k THEN v ELSE ApplyLine(f[j - 1], lines[j])
  <2> HIDE DEF f
  <2>1. Solves(f, Len(lines))
    BY <1>5 DEF f
  <2> QED BY <2>1
<1> HIDE DEF f
<1>7. f[k] = v /\ \A j \in k + 1..Len(lines) : f[j] = ApplyLine(f[j - 1], lines[j])
  BY <1>6
<1> QED BY <1>7 DEF f

\* A line is longer than nothing, and is about a file.
LEMMA LineType ==
  ASSUME NEW r \in Line
  PROVE  /\ r.path \in Path /\ r.kind \in {"+", "-"} /\ Length(r) \in Nat \ {0}
         /\ \A v \in SUBSET Path : ApplyLine(v, r) \in SUBSET Path
BY DEF Line, Added, Removed, Length, ApplyLine

\* Lines start in the order in which they are written.
LEMMA StartsGrow ==
  ASSUME NEW lines \in Seq(Line)
  PROVE  /\ Starts(lines)[0] = 0 /\ Size(lines) \in Nat
         /\ \A k \in 0..Len(lines) : Starts(lines)[k] \in Nat
         /\ \A i, k \in 0..Len(lines) : i < k => Starts(lines)[i] < Starts(lines)[k]
<1> DEFINE start == Starts(lines)
           S == {n \in Nat : n <= Len(lines) =>
                   /\ start[n] \in Nat
                   /\ \A i \in 0..Len(lines) : i < n => start[i] \in Nat /\ start[i] < start[n]}
<1>1. start[0] = 0 /\ \A k \in 1..Len(lines) : start[k] = start[k - 1] + Length(lines[k])
  BY StartsDef
<1>2. \A k \in 1..Len(lines) : Length(lines[k]) \in Nat \ {0}
  BY LineType
<1> HIDE DEF start
<1>3. 0 \in S
  BY <1>1
<1>4. ASSUME NEW n \in Nat, n \in S PROVE n + 1 \in S
  <2> SUFFICES ASSUME n + 1 <= Len(lines)
               PROVE  /\ start[n + 1] \in Nat
                      /\ \A i \in 0..Len(lines) :
                           i < n + 1 => start[i] \in Nat /\ start[i] < start[n + 1]
    OBVIOUS
  <2>1. /\ start[n] \in Nat
        /\ \A i \in 0..Len(lines) : i < n => start[i] \in Nat /\ start[i] < start[n]
        /\ n \in 0..Len(lines)
    BY <1>4
  <2>2. start[n + 1] = start[n] + Length(lines[n + 1]) /\ Length(lines[n + 1]) \in Nat \ {0}
    <3>1. n + 1 \in 1..Len(lines) /\ (n + 1) - 1 = n
      OBVIOUS
    <3> QED BY <3>1, <1>1, <1>2
  <2>3. \A i \in 0..n : start[i] \in Nat /\ start[i] <= start[n]
    <3> SUFFICES ASSUME NEW i \in 0..n PROVE start[i] \in Nat /\ start[i] <= start[n]
      OBVIOUS
    <3>1. i = n \/ i < n
      OBVIOUS
    <3> QED BY <3>1, <2>1
  <2> QED BY <2>1, <2>2, <2>3
<1>5. \A n \in Nat : n \in S
  <2> HIDE DEF S
  <2> QED BY <1>3, <1>4, SetInduction
<1> QED BY <1>1, <1>5 DEF start, Size

\* Equal lines have the same effect ...
LEMMA ViewsAgree ==
  ASSUME NEW v, NEW l \in Seq(Line), NEW i \in 0..Len(l),
         NEW w, NEW m \in Seq(Line), NEW k \in i..Len(m), Views(v, i, l)[k] = w,
         NEW n \in k..Len(l), n <= Len(m), \A j \in 1..n : l[j] = m[j]
  PROVE  \A j \in k..n : Views(v, i, l)[j] = Views(w, k, m)[j]
<1> DEFINE f == Views(v, i, l)
           g == Views(w, k, m)
           S == {j \in Nat : j \in k..n => f[j] = g[j]}
<1>1. \A j \in i + 1..Len(l) : f[j] = ApplyLine(f[j - 1], l[j])
  BY ViewsDef
<1>2. k \in 0..Len(m)
  OBVIOUS
<1>3. g[k] = w /\ \A j \in k + 1..Len(m) : g[j] = ApplyLine(g[j - 1], m[j])
  <2> HIDE DEF f
  <2> QED BY ONLY <1>2, ViewsDef, m \in Seq(Line)
<1>4. f[k] = w
  OBVIOUS
<1> HIDE DEF f, g
<1>5. 0 \in S
  BY <1>3, <1>4
<1>6. ASSUME NEW j \in Nat, j \in S PROVE j + 1 \in S
  <2> SUFFICES ASSUME j + 1 \in k..n PROVE f[j + 1] = g[j + 1]
    OBVIOUS
  <2>1. CASE j + 1 = k
    BY <2>1, <1>3, <1>4
  <2>2. CASE j \in k..n
    <3>1. f[j] = g[j] /\ (j + 1) - 1 = j
      BY <1>6, <2>2
    <3>2. j + 1 \in i + 1..Len(l) /\ j + 1 \in k + 1..Len(m) /\ j + 1 \in 1..n
      BY <2>2
    <3> QED BY <3>1, <3>2, <1>1, <1>3
  <2> QED BY <2>1, <2>2
<1>7. \A j \in Nat : j \in S
  <2> HIDE DEF S
  <2> QED BY <1>5, <1>6, SetInduction
<1> QED BY <1>7 DEF f, g

\* ... and so it is with their lengths.
LEMMA StartsAgree ==
  ASSUME NEW l \in Seq(Line), NEW m \in Seq(Line), NEW n \in 0..Len(l), n <= Len(m),
         \A j \in 1..n : l[j] = m[j]
  PROVE  \A j \in 0..n : Starts(l)[j] = Starts(m)[j]
<1> DEFINE f == Starts(l)
           g == Starts(m)
           S == {j \in Nat : j \in 0..n => f[j] = g[j]}
<1>1. f[0] = 0 /\ \A j \in 1..Len(l) : f[j] = f[j - 1] + Length(l[j])
  BY StartsDef
<1>2. g[0] = 0 /\ \A j \in 1..Len(m) : g[j] = g[j - 1] + Length(m[j])
  BY StartsDef
<1> HIDE DEF f, g
<1>3. 0 \in S
  BY <1>1, <1>2
<1>4. ASSUME NEW j \in Nat, j \in S PROVE j + 1 \in S
  <2> SUFFICES ASSUME j + 1 \in 0..n PROVE f[j + 1] = g[j + 1]
    OBVIOUS
  <2>1. f[j] = g[j] /\ j + 1 \in 1..n /\ (j + 1) - 1 = j
    BY <1>4
  <2>2. j + 1 \in 1..Len(l) /\ j + 1 \in 1..Len(m)
    OBVIOUS
  <2> QED BY <2>1, <2>2, <1>1, <1>2
<1>5. \A j \in Nat : j \in S
  <2> HIDE DEF S
  <2> QED BY <1>3, <1>4, SetInduction
<1> QED BY <1>5 DEF f, g

\* A view is a set of files.
LEMMA ViewsType ==
  ASSUME NEW v \in SUBSET Path, NEW lines \in Seq(Line), NEW k \in 0..Len(lines)
  PROVE  \A j \in k..Len(lines) : Views(v, k, lines)[j] \in SUBSET Path
<1> DEFINE f == Views(v, k, lines)
           S == {j \in Nat : j \in k..Len(lines) => f[j] \in SUBSET Path}
<1>1. f[k] = v /\ \A j \in k + 1..Len(lines) : f[j] = ApplyLine(f[j - 1], lines[j])
  BY ViewsDef
<1> HIDE DEF f
<1>2. 0 \in S
  BY <1>1
<1>3. ASSUME NEW j \in Nat, j \in S PROVE j + 1 \in S
  <2> SUFFICES ASSUME j + 1 \in k..Len(lines) PROVE f[j + 1] \in SUBSET Path
    OBVIOUS
  <2>1. CASE j + 1 = k
    BY <2>1, <1>1
  <2>2. CASE j \in k..Len(lines)
    <3>1. f[j] \in SUBSET Path /\ j + 1 \in k + 1..Len(lines) /\ (j + 1) - 1 = j
      BY <1>3, <2>2
    <3>2. lines[j + 1] \in Line
      BY <3>1
    <3> QED BY <3>1, <3>2, <1>1, LineType
  <2> QED BY <2>1, <2>2
<1>4. \A j \in Nat : j \in S
  <2> HIDE DEF S
  <2> QED BY <1>2, <1>3, SetInduction
<1> QED BY <1>4 DEF f

\* A line more: what was before stays, and the line comes on top.
LEMMA AppendLine ==
  ASSUME NEW v, NEW lines \in Seq(Line), NEW r \in Line
  PROVE  /\ Append(lines, r) \in Seq(Line) /\ Len(Append(lines, r)) = Len(lines) + 1
         /\ \A k \in 0..Len(lines) : /\ Starts(Append(lines, r))[k] = Starts(lines)[k]
                                     /\ Views(v, 0, Append(lines, r))[k] = Views(v, 0, lines)[k]
         /\ Size(Append(lines, r)) = Size(lines) + Length(r)
         /\ Replay(v, Append(lines, r)) = ApplyLine(Replay(v, lines), r)
<1> DEFINE more == Append(lines, r)
           n == Len(lines)
<1>1. /\ more \in Seq(Line) /\ Len(more) = n + 1 /\ n \in Nat /\ more[n + 1] = r
      /\ \A j \in 1..n : lines[j] = more[j]
  OBVIOUS
<1> HIDE DEF more
<1>2. \A k \in 0..n : Starts(lines)[k] = Starts(more)[k]
  BY <1>1, StartsAgree
<1>3. Views(v, 0, lines)[0] = v
  <2>1. 0 \in 0..Len(lines)
    OBVIOUS
  <2> QED BY <2>1, ViewsDef, Zenon
<1>4. \A k \in 0..n : Views(v, 0, lines)[k] = Views(v, 0, more)[k]
  <2> HIDE DEF n
  <2>1. /\ 0 \in 0..Len(lines) /\ 0 \in 0..Len(more) /\ n \in 0..Len(lines)
        /\ n <= Len(more) /\ \A j \in 1..n : lines[j] = more[j]
    BY <1>1 DEF n
  <2>2. lines \in Seq(Line) /\ more \in Seq(Line)
    BY <1>1
  <2> QED BY ONLY <1>3, <2>1, <2>2, ViewsAgree
<1>5. Starts(more)[n + 1] = Starts(more)[n] + Length(r)
  <2>1. n + 1 \in 1..Len(more) /\ (n + 1) - 1 = n
    BY <1>1
  <2> QED BY <1>1, <2>1, StartsDef
<1>6. Views(v, 0, more)[n + 1] = ApplyLine(Views(v, 0, more)[n], r)
  <2>1. n + 1 \in 0 + 1..Len(more) /\ (n + 1) - 1 = n
    BY <1>1
  <2> HIDE DEF n
  <2>2. more \in Seq(Line) /\ 0 \in 0..Len(more)
    BY <1>1
  <2>3. \A j \in 0 + 1..Len(more) :
          Views(v, 0, more)[j] = ApplyLine(Views(v, 0, more)[j - 1], more[j])
    BY ONLY <2>2, ViewsDef
  <2> QED BY <1>1, <2>1, <2>3
<1>7. n \in 0..n
  BY <1>1
<1> QED BY <1>1, <1>2, <1>4, <1>5, <1>6, <1>7 DEF more, Size, Replay

\* The reader who goes on after line k sees what one who begins at once sees.
LEMMA ReadingOn ==
  ASSUME NEW v, NEW lines \in Seq(Line), NEW k \in 0..Len(lines), NEW j \in k..Len(lines)
  PROVE  Views(Views(v, 0, lines)[k], k, lines)[j] = Views(v, 0, lines)[j]
BY ViewsAgree

\* What the read loop leaves behind is a view and an offset.
LEMMA ReadOnType ==
  ASSUME NEW v \in SUBSET Path, NEW n \in Nat, NEW lines \in Seq(Line)
  PROVE  LET r == ReadOn(v, n, lines)
         IN  /\ r.view \in SUBSET Path /\ r.offset \in Nat
             /\ r.damaged \in {"no", "tampered", "notFound"}
<1> DEFINE start == Starts(lines)
<1>1. /\ start[0] = 0 /\ Size(lines) \in Nat /\ Size(lines) = start[Len(lines)]
      /\ \A k \in 0..Len(lines) : start[k] \in Nat
  BY StartsGrow DEF Size
<1>2. ASSUME NEW k \in 0..Len(lines)
      PROVE  LET r == Digest(v, k, lines)
             IN  /\ r.view \in SUBSET Path /\ r.offset \in Nat
                 /\ r.damaged \in {"no", "tampered", "notFound"}
  <2> DEFINE views == Views(v, k, lines)
             Bad(j) == BadLine(views, lines, j)
             First(j) == Bad(j) /\ \A i \in k + 1..j - 1 : ~ Bad(i)
             first == CHOOSE j \in k + 1..Len(lines) : First(j)
  <2>1. \A j \in k..Len(lines) : views[j] \in SUBSET Path
    BY ViewsType
  <2>2. CASE ~ \E j \in k + 1..Len(lines) : Bad(j)
    <3>1. Digest(v, k, lines)
            = [view |-> views[Len(lines)], offset |-> Size(lines), damaged |-> "no"]
      BY <2>2 DEF Digest
    <3> HIDE DEF views
    <3> QED BY <3>1, <2>1, <1>1
  <2>3. CASE \E j \in k + 1..Len(lines) : Bad(j)
    <3>1. \E j \in k + 1..Len(lines) : First(j)
      <4> DEFINE T == {j \in k + 1..Len(lines) : Bad(j)}
      <4> HIDE DEF Bad
      <4>1. T \in SUBSET Nat /\ T # {}
        BY <2>3
      <4>2. PICK j \in T : \A m \in T : j <= m
        BY <4>1, LeastNumber
      <4> QED BY <4>2
    <3>2. first \in k + 1..Len(lines)
      <4> HIDE DEF First
      <4> QED BY <3>1
    <3>3. Digest(v, k, lines)
            = [view |-> views[first - 1], offset |-> start[first], damaged |-> "notFound"]
      BY <2>3 DEF Digest
    <3> HIDE DEF first, views, start
    <3> QED BY <3>2, <3>3, <2>1, <1>1
  <2> QED BY <2>2, <2>3
<1>3. CASE n >= Size(lines)
  BY <1>3 DEF ReadOn
<1>4. CASE n < Size(lines) /\ \E k \in 0..Len(lines) : start[k] = n
  <2>1. (CHOOSE k \in 0..Len(lines) : start[k] = n) \in 0..Len(lines)
    BY <1>4
  <2>2. ReadOn(v, n, lines) = Digest(v, CHOOSE k \in 0..Len(lines) : start[k] = n, lines)
    BY <1>1, <1>4 DEF ReadOn
  <2> QED BY <2>1, <2>2, <1>2
<1>5. CASE n < Size(lines) /\ ~ \E k \in 0..Len(lines) : start[k] = n
  <2> HIDE DEF start
  <2>1. \E k \in 1..Len(lines) : start[k - 1] < n /\ n < start[k]
    <3> DEFINE T == {k \in 0..Len(lines) : n < start[k]}
    <3>1. T \in SUBSET Nat /\ T # {}
      BY <1>1, <1>5
    <3>2. PICK k \in T : \A m \in T : k <= m
      BY <3>1, LeastNumber
    <3>3. k # 0 /\ k \in 0..Len(lines) /\ n < start[k]
      BY <3>2, <1>1
    <3>4. k - 1 \in 0..Len(lines) /\ k - 1 \notin T
      BY <3>2, <3>3
    <3>5. start[k - 1] # n /\ start[k - 1] \in Nat /\ ~ (n < start[k - 1])
      BY <3>4, <1>1, <1>5
    <3> QED BY <3>3, <3>5
  <2>2. EndOfLineAt(n, lines) \in 1..Len(lines)
    BY <2>1 DEF EndOfLineAt, start
  <2>3. ReadOn(v, n, lines)
          = [view |-> v, offset |-> start[EndOfLineAt(n, lines)], damaged |-> "tampered"]
    BY <1>1, <1>5 DEF ReadOn, start
  <2> QED BY <2>2, <2>3, <1>1
<1> QED BY <1>1, <1>3, <1>4, <1>5

\* Who has applied a number of lines, all of which can be read, has applied
\* all of them then.
LEMMA ReadToEnd ==
  ASSUME NEW b \in SUBSET Path, NEW lines \in Seq(Line), NEW k \in 0..Len(lines),
         \A j \in 1..Len(lines) : ~ BadLine(Views(b, 0, lines), lines, j)
  PROVE  ReadOn(Views(b, 0, lines)[k], Starts(lines)[k], lines)
           = [view |-> Replay(b, lines), offset |-> Size(lines), damaged |-> "no"]
<1> DEFINE start == Starts(lines)
           v == Views(b, 0, lines)[k]
<1>1. /\ Size(lines) \in Nat /\ Size(lines) = start[Len(lines)]
      /\ \A j \in 0..Len(lines) : start[j] \in Nat
      /\ \A i, j \in 0..Len(lines) : i < j => start[i] < start[j]
  BY StartsGrow DEF Size
<1>2. CASE k = Len(lines)
  BY <1>1, <1>2 DEF ReadOn, Replay
<1>3. CASE k < Len(lines)
  <2>1. start[k] < Size(lines)
    BY <1>1, <1>3
  <2>2. (CHOOSE j \in 0..Len(lines) : start[j] = start[k]) = k
    <3> HIDE DEF start
    <3>1. \A j \in 0..Len(lines) : start[j] = start[k] => j = k
      <4> SUFFICES ASSUME NEW j \in 0..Len(lines), start[j] = start[k], j # k PROVE FALSE
        OBVIOUS
      <4>1. j < k \/ k < j
        OBVIOUS
      <4> QED BY <4>1, <1>1
    <3> QED BY <3>1
  <2>3. ReadOn(v, start[k], lines) = Digest(v, k, lines)
    <3>1. ~ (start[k] >= Size(lines))
      BY <2>1, <1>1
    <3> QED BY <3>1, <2>2 DEF ReadOn
  <2>4. \A j \in k..Len(lines) : Views(v, k, lines)[j] = Views(b, 0, lines)[j]
    BY ReadingOn
  <2>5. ~ \E j \in k + 1..Len(lines) : BadLine(Views(v, k, lines), lines, j)
    <3> SUFFICES ASSUME NEW j \in k + 1..Len(lines)
                 PROVE  ~ BadLine(Views(v, k, lines), lines, j)
      OBVIOUS
    <3>1. j - 1 \in k..Len(lines) /\ j \in 1..Len(lines)
      OBVIOUS
    <3>2. ~ BadLine(Views(b, 0, lines), lines, j)
      BY <3>1
    <3> QED BY <3>1, <3>2, <2>4 DEF BadLine
  <2>6. Digest(v, k, lines) = [view |-> Views(v, k, lines)[Len(lines)],
                               offset |-> Size(lines), damaged |-> "no"]
    BY <2>5 DEF Digest
  <2> QED BY <2>3, <2>4, <2>6 DEF Replay
<1> QED BY <1>2, <1>3

-----------------------------------------------------------------------------
(* Every variable keeps its range.                                         *)

\* The records of operations.
LEMMA OperationType ==
  /\ \A kind \in {"none", "rebuild", "query"} : Op(kind, None, None) \in Operation
  /\ \A kind \in {"add", "remove"}, p \in Path : Op(kind, p, None) \in Operation
  /\ \A p, q \in Path : Op("move", p, q) \in Operation
  /\ \A o \in Operation :
       /\ o.kind \in {"none", "rebuild", "query", "add", "remove", "move"}
       /\ o.kind \in {"add", "remove", "move"} => o.path \in Path
       /\ o.kind = "move" => o.dest \in Path
       /\ o.phase = "update" => o.kind \in {"add", "remove", "move"}
BY DEF Operation, Op

\* Operation o with another flag or phase.
Flagged(o, x) ==
  [kind |-> o.kind, path |-> o.path, dest |-> o.dest, phase |-> o.phase, fresh |-> x]
Fresh(o) == Flagged(o, TRUE)
Seasoned(o) == Flagged(o, FALSE)
Updating(o) ==
  [kind |-> o.kind, path |-> o.path, dest |-> o.dest, phase |-> "update", fresh |-> o.fresh]

\* What is noted in an operation in the course of it.
LEMMA NoteFlag ==
  ASSUME NEW o \in Operation, NEW x
  PROVE  [o EXCEPT !.fresh = x] = Flagged(o, x)
BY DEF Operation, Flagged

\* The same, for what the actions note.
LEMMA NoteForms ==
  ASSUME NEW o \in Operation
  PROVE  /\ [o EXCEPT !.fresh = TRUE] = Fresh(o)
         /\ [o EXCEPT !.fresh = FALSE] = Seasoned(o)
         /\ [o EXCEPT !.phase = "update"] = Updating(o)
<1>1. /\ [o EXCEPT !.fresh = TRUE] = Fresh(o)
      /\ [o EXCEPT !.fresh = FALSE] = Seasoned(o)
  BY NoteFlag, Zenon DEF Fresh, Seasoned
<1>2. [o EXCEPT !.phase = "update"] = Updating(o)
  BY DEF Operation, Fresh, Seasoned, Flagged, Updating
<1> QED BY <1>1, <1>2

\* An operation in which something is noted still is one.
LEMMA NoteType ==
  ASSUME NEW o \in Operation
  PROVE  /\ Fresh(o) \in Operation /\ Seasoned(o) \in Operation
         /\ o.kind \in {"add", "remove", "move"} => Updating(o) \in Operation
BY DEF Operation, Fresh, Seasoned, Flagged, Updating

\* The files of an operation are files.
LEMMA ConcernedType ==
  ASSUME TypeOK, NEW s \in Session
  PROVE  Concerned(s) \subseteq Path
BY OperationType DEF Concerned, Adding, Removing, Moving, TypeOK

\* What becomes of the operation of s when it proceeds: its next step, and
\* what is noted in it.
ProceedTo(s, step, o) ==
  \/ op[s].fresh /\ step = "stat" /\ o = Seasoned(op[s])
  \/ ~ op[s].fresh /\ op[s].kind = "query" /\ step = "idle" /\ o = NoOp
  \/ ~ op[s].fresh /\ op[s].phase = "update" /\ step = "open" /\ o = op[s]
  \/ Checks(s) /\ Adding(s) /\ op[s].path \in view[s] /\ step = "idle" /\ o = NoOp
  \/ Checks(s) /\ Removing(s) /\ op[s].path \notin view[s] /\ step = "recordGone" /\ o = op[s]
  \/ Checks(s) /\ Adding(s) /\ ~ base.exists /\ step = "scan" /\ o = op[s]
  \/ Checks(s) /\ (Adding(s) <=> op[s].path \notin view[s]) /\ step = "stat"
       /\ o = Updating(op[s])

ProceedEffect(s) ==
  \E step \in {"idle", "stat", "open", "recordGone", "scan"}, o \in Operation :
    pc' = Set(pc, s, step) /\ op' = Set(op, s, o) /\ ProceedTo(s, step, o)

\* An operation that is only given another step.
LEMMA SameOperation ==
  ASSUME TypeOK, NEW s \in Session
  PROVE  op = Set(op, s, op[s]) /\ op[s] \in Operation
BY DEF TypeOK, Set

\* Proceed does just that.
LEMMA ProceedCases ==
  ASSUME TypeOK, NEW s \in Session, Proceed(s)
  PROVE  ProceedEffect(s)
<1> DEFINE To(step, o) ==
             pc' = Set(pc, s, step) /\ op' = Set(op, s, o) /\ ProceedTo(s, step, o)
<1>1. op = Set(op, s, op[s]) /\ op[s] \in Operation /\ NoOp \in Operation
  BY SameOperation, OperationType DEF NoOp
<1>2. /\ Seasoned(op[s]) \in Operation
      /\ Checks(s) => Updating(op[s]) \in Operation
  BY <1>1, NoteType DEF Checks, Adding, Removing
<1>3. /\ [op EXCEPT ![s].fresh = FALSE] = Set(op, s, [op[s] EXCEPT !.fresh = FALSE])
      /\ [op EXCEPT ![s].phase = "update"] = Set(op, s, [op[s] EXCEPT !.phase = "update"])
  BY Zenon DEF Set
<1>4. /\ [op EXCEPT ![s].fresh = FALSE] = Set(op, s, Seasoned(op[s]))
      /\ [op EXCEPT ![s].phase = "update"] = Set(op, s, Updating(op[s]))
  BY <1>1, <1>3, NoteForms, Zenon
<1>5. \/ op[s].fresh /\ To("stat", Seasoned(op[s]))
      \/ ~ op[s].fresh /\ op[s].kind = "query" /\ To("idle", NoOp)
      \/ ~ op[s].fresh /\ op[s].phase = "update" /\ To("open", op[s])
      \/ Checks(s) /\ Adding(s) /\ op[s].path \in view[s] /\ To("idle", NoOp)
      \/ Checks(s) /\ Removing(s) /\ op[s].path \notin view[s] /\ To("recordGone", op[s])
      \/ Checks(s) /\ Adding(s) /\ ~ base.exists /\ To("scan", op[s])
      \/ Checks(s) /\ (Adding(s) <=> op[s].path \notin view[s]) /\ To("stat", Updating(op[s]))
  BY <1>1, <1>4, Zenon DEF Proceed, Update, ProceedTo, Goto, Done, Set
<1> HIDE DEF To
<1>6. \E step \in {"idle", "stat", "open", "recordGone", "scan"}, o \in Operation : To(step, o)
  BY <1>1, <1>2, <1>5
<1> QED BY <1>6 DEF To, ProceedEffect

\* Leaving ApplyChangeFile.
ClearEffect(s) ==
  /\ \E step \in {"idle", "stat", "open", "recordGone", "scan"}, o \in Operation :
       /\ pc' = Set(pc, s, step) /\ op' = Set(op, s, o)
       /\ \/ pc[s] = "clear" /\ ProceedTo(s, step, o) /\ dirty' = dirty
          \/ pc[s] = "raise" /\ step = "idle" /\ o = NoOp /\ dirty' = dirty \cup Concerned(s)
  /\ modified' = Set(modified, s, FALSE)
  /\ UNCHANGED <<diskVars, orphan, rebuilds, moved, damaged>>

\* ClearModified, but for the fields of a database that is dropped.
LEMMA ClearCases ==
  ASSUME TypeOK, NEW s \in Session, ClearModified(s)
  PROVE  ClearEffect(s)
<1>1. \/ pc[s] = "clear" /\ Proceed(s) /\ dirty' = dirty
      \/ /\ pc[s] = "raise" /\ pc' = Set(pc, s, "idle") /\ op' = Set(op, s, NoOp)
         /\ dirty' = dirty \cup Concerned(s)
  BY DEF ClearModified, Abandon, Done, Goto, Set
<1>2. modified' = Set(modified, s, FALSE) /\ UNCHANGED <<diskVars, orphan, rebuilds, moved, damaged>>
  BY Zenon DEF ClearModified
<1>3. Proceed(s) => ProceedEffect(s)
  BY ProceedCases, Zenon
<1>4. NoOp \in Operation
  BY OperationType DEF NoOp
<1> HIDE DEF NoOp
<1>5. \E step \in {"idle", "stat", "open", "recordGone", "scan"}, o \in Operation :
        /\ pc' = Set(pc, s, step) /\ op' = Set(op, s, o)
        /\ \/ pc[s] = "clear" /\ ProceedTo(s, step, o) /\ dirty' = dirty
           \/ pc[s] = "raise" /\ step = "idle" /\ o = NoOp /\ dirty' = dirty \cup Concerned(s)
  BY <1>1, <1>3, <1>4 DEF ProceedEffect
<1> QED BY <1>2, <1>5 DEF ClearEffect

\* Testing the flag.
StatEffect(s) ==
  /\ pc[s] = "stat"
  /\ \E step \in {"idle", "stat", "open", "recordGone", "scan", "read", "clear"},
        o \in Operation :
       /\ pc' = Set(pc, s, step) /\ op' = Set(op, s, o)
       /\ \/ /\ ~ modified[s] /\ ProceedTo(s, step, o)
             /\ collided' = (collided \/ (Stale(s) /\ Checks(s)))
          \/ /\ modified[s] /\ step = (IF changes.exists /\ Stale(s) THEN "read" ELSE "clear")
             /\ o = op[s] /\ collided' = collided
  /\ UNCHANGED <<diskVars, loaded, view, offset, modified, event, orphan,
                 rebuilds, dirty, moved, damaged, lost>>

\* StatChangeFile.
LEMMA StatCases ==
  ASSUME TypeOK, NEW s \in Session, StatChangeFile(s)
  PROVE  StatEffect(s)
<1>1. \/ ~ modified[s] /\ Proceed(s) /\ collided' = (collided \/ (Stale(s) /\ Checks(s)))
      \/ /\ modified[s] /\ pc' = Set(pc, s, IF changes.exists /\ Stale(s) THEN "read" ELSE "clear")
         /\ op' = op /\ collided' = collided
  BY Zenon DEF StatChangeFile, Collide, Goto, Set
<1>2. pc[s] = "stat" /\ UNCHANGED <<diskVars, loaded, view, offset, modified, event, orphan,
                                   rebuilds, dirty, moved, damaged, lost>>
  BY Zenon DEF StatChangeFile
<1>3. Proceed(s) => ProceedEffect(s)
  BY ProceedCases, Zenon
<1>4. \E step \in {"idle", "stat", "open", "recordGone", "scan", "read", "clear"},
        o \in Operation :
       /\ pc' = Set(pc, s, step) /\ op' = Set(op, s, o)
       /\ \/ /\ ~ modified[s] /\ ProceedTo(s, step, o)
             /\ collided' = (collided \/ (Stale(s) /\ Checks(s)))
          \/ /\ modified[s] /\ step = (IF changes.exists /\ Stale(s) THEN "read" ELSE "clear")
             /\ o = op[s] /\ collided' = collided
  BY <1>1, <1>3, SameOperation DEF ProceedEffect
<1> QED BY <1>2, <1>4 DEF StatEffect

\* Loading the base file.
LoadEffect(s) ==
  /\ pc[s] = "load"
  /\ op' = Set(op, s, Fresh(op[s])) /\ Goto(s, "stat")
  /\ loaded' = Set(loaded, s, TRUE) /\ view' = Set(view, s, base.files)
  /\ offset' = Set(offset, s, 0) /\ modified' = Set(modified, s, TRUE)
  /\ UNCHANGED <<diskVars, event, orphan, historyVars>>

\* Load with a base file does just that.
LEMMA LoadCases ==
  ASSUME TypeOK, NEW s \in Session, Load(s), base.exists
  PROVE  LoadEffect(s)
<1>1. op[s] \in Operation
  BY DEF TypeOK
<1>2. [op EXCEPT ![s].fresh = TRUE] = Set(op, s, [op[s] EXCEPT !.fresh = TRUE])
  BY Zenon DEF Set
<1>3. [op EXCEPT ![s].fresh = TRUE] = Set(op, s, Fresh(op[s]))
  BY <1>1, <1>2, NoteForms, Zenon
<1> QED BY <1>3, Zenon DEF Load, LoadEffect

\* What becomes of the operation without a base file.
NoLoadTo(s, step, o) ==
  \/ op[s].kind = "query" /\ step = "idle" /\ o = NoOp
  \/ Removing(s) /\ step = "recordGone" /\ o = op[s]
  \/ Adding(s) /\ step = "scan" /\ o = op[s]

NoLoadEffect(s) ==
  /\ pc[s] = "load"
  /\ \E step \in {"idle", "recordGone", "scan"}, o \in Operation :
       pc' = Set(pc, s, step) /\ op' = Set(op, s, o) /\ NoLoadTo(s, step, o)
  /\ UNCHANGED <<diskVars, loaded, view, offset, modified, event, orphan, historyVars>>

\* Load without one.
LEMMA NoLoadCases ==
  ASSUME TypeOK, NEW s \in Session, Load(s), ~ base.exists
  PROVE  NoLoadEffect(s)
<1> DEFINE To(step, o) ==
             pc' = Set(pc, s, step) /\ op' = Set(op, s, o) /\ NoLoadTo(s, step, o)
<1>1. op = Set(op, s, op[s]) /\ op[s] \in Operation /\ NoOp \in Operation
  BY SameOperation, OperationType DEF NoOp
<1>2. /\ pc[s] = "load"
      /\ To("idle", NoOp) \/ To("recordGone", op[s]) \/ To("scan", op[s])
      /\ UNCHANGED <<diskVars, loaded, view, offset, modified, event, orphan, historyVars>>
  BY <1>1, Zenon DEF Load, NoLoadTo, Goto, Done, Set
<1> HIDE DEF To
<1>3. \E step \in {"idle", "recordGone", "scan"}, o \in Operation : To(step, o)
  BY <1>1, <1>2
<1> QED BY <1>2, <1>3 DEF To, NoLoadEffect

\* What becomes of the operation after a rebuild.
RebuiltTo(s, step, o) ==
  \/ op[s].kind = "add" /\ step = "load" /\ o = Updating(op[s])
  \/ op[s].kind # "add" /\ step = "idle" /\ o = NoOp

DeleteChangesEffect(s) ==
  /\ pc[s] = "deleteChanges" /\ changes' = NoChanges
  /\ orphan' = orphan \cup {t \in Session : pc[t] \in {"lock", "append"}}
  /\ dirty' = {} /\ moved' = {}
  /\ \E step \in {"idle", "load"}, o \in Operation :
       pc' = Set(pc, s, step) /\ op' = Set(op, s, o) /\ RebuiltTo(s, step, o)
  /\ UNCHANGED <<disk, base, tmp, loaded, view, offset, modified, event,
                 rebuilds, damaged, lost, collided>>

\* DeleteChanges.
LEMMA DeleteChangesCases ==
  ASSUME TypeOK, NEW s \in Session, DeleteChanges(s)
  PROVE  DeleteChangesEffect(s)
<1> DEFINE To(step, o) ==
             pc' = Set(pc, s, step) /\ op' = Set(op, s, o) /\ RebuiltTo(s, step, o)
<1>1. /\ op[s] \in Operation /\ NoOp \in Operation
      /\ op[s].kind = "add" => Updating(op[s]) \in Operation
  BY SameOperation, OperationType, NoteType DEF NoOp
<1>2. [op EXCEPT ![s].phase = "update"] = Set(op, s, [op[s] EXCEPT !.phase = "update"])
  BY Zenon DEF Set
<1>3. [op EXCEPT ![s].phase = "update"] = Set(op, s, Updating(op[s]))
  BY <1>1, <1>2, NoteForms, Zenon
<1>4. \/ op[s].kind = "add" /\ To("load", Updating(op[s]))
      \/ op[s].kind # "add" /\ To("idle", NoOp)
  BY <1>3, Zenon DEF DeleteChanges, RebuiltTo, Goto, Done, Set
<1>5. /\ pc[s] = "deleteChanges" /\ changes' = NoChanges
      /\ orphan' = orphan \cup {t \in Session : pc[t] \in {"lock", "append"}}
      /\ dirty' = {} /\ moved' = {}
      /\ UNCHANGED <<disk, base, tmp, loaded, view, offset, modified, event,
                     rebuilds, damaged, lost, collided>>
  BY Zenon DEF DeleteChanges
<1> HIDE DEF To
<1>6. \E step \in {"idle", "load"}, o \in Operation : To(step, o)
  BY <1>1, <1>4
<1> QED BY <1>5, <1>6 DEF To, DeleteChangesEffect

\* What becomes of the operation when the temporary file is moved.
MoveTmpTo(s, step, o) ==
  \/ /\ tmp.exists /\ step = "deleteChanges" /\ o = op[s]
     /\ base' = tmp /\ tmp' = NoFile /\ dirty' = dirty
  \/ /\ ~ tmp.exists /\ step = "idle" /\ o = NoOp
     /\ base' = base /\ tmp' = tmp /\ dirty' = dirty \cup Concerned(s)

MoveTmpEffect(s) ==
  /\ pc[s] = "move"
  /\ \E step \in {"idle", "deleteChanges"}, o \in Operation :
       pc' = Set(pc, s, step) /\ op' = Set(op, s, o) /\ MoveTmpTo(s, step, o)
  /\ UNCHANGED <<disk, changes, loaded, view, offset, modified, event, orphan,
                 rebuilds, moved, damaged, lost, collided>>

\* MoveTmp.
LEMMA MoveTmpCases ==
  ASSUME TypeOK, NEW s \in Session, MoveTmp(s)
  PROVE  MoveTmpEffect(s)
<1> DEFINE To(step, o) ==
             pc' = Set(pc, s, step) /\ op' = Set(op, s, o) /\ MoveTmpTo(s, step, o)
<1>1. op = Set(op, s, op[s]) /\ op[s] \in Operation /\ NoOp \in Operation
  BY SameOperation, OperationType DEF NoOp
<1>2. To("deleteChanges", op[s]) \/ To("idle", NoOp)
  BY <1>1, Zenon DEF MoveTmp, Abandon, MoveTmpTo, Goto, Done, Set
<1>3. /\ pc[s] = "move"
      /\ UNCHANGED <<disk, changes, loaded, view, offset, modified, event, orphan,
                     rebuilds, moved, damaged, lost, collided>>
  BY Zenon DEF MoveTmp
<1> HIDE DEF To
<1>4. \E step \in {"idle", "deleteChanges"}, o \in Operation : To(step, o)
  BY <1>1, <1>2
<1> QED BY <1>3, <1>4 DEF To, MoveTmpEffect

\* Every step keeps every variable in its range.
LEMMA TypeStep ==
  ASSUME TypeOK, Operating, [Next]_vars
  PROVE  TypeOK'
<1> USE DEF vars, diskVars, sessionVars, historyVars, Goto, Set, Done, Op, NoOp, Adding,
       Removing, Moving
<1>1. ASSUME NEW s \in Session, Query(s) PROVE TypeOK'
  BY <1>1, OperationType, ConcernedType DEF Query, Begin, Collide, TypeOK, FileState,
     ApplySteps, UpdateSteps, RebuildSteps
<1>2. ASSUME NEW s \in Session, Refresh(s) PROVE TypeOK'
  BY <1>2, OperationType, ConcernedType DEF Refresh, TypeOK, FileState, ApplySteps,
     UpdateSteps, RebuildSteps
<1>3. ASSUME NEW s \in Session, Deliver(s) PROVE TypeOK'
  BY <1>3, OperationType, ConcernedType DEF Deliver, TypeOK, FileState, ApplySteps,
     UpdateSteps, RebuildSteps
<1>4. ASSUME NEW s \in Session, Exit(s) PROVE TypeOK'
  BY <1>4, OperationType, ConcernedType DEF Exit, Abandon, Unload, Collide, TypeOK,
     FileState, ApplySteps, UpdateSteps, RebuildSteps
<1>5. ASSUME NEW s \in Session, NEW p \in Path, AddFile(s, p) PROVE TypeOK'
  BY <1>5, OperationType, ConcernedType DEF AddFile, Begin, Collide, TypeOK, FileState,
     ApplySteps, UpdateSteps, RebuildSteps
<1>6. ASSUME NEW s \in Session, NEW p \in Path, RemoveFile(s, p) PROVE TypeOK'
  BY <1>6, OperationType, ConcernedType DEF RemoveFile, Begin, Collide, TypeOK, FileState,
     ApplySteps, UpdateSteps, RebuildSteps
<1>7. ASSUME NEW s \in Session, NEW p \in Path, NEW q \in Path, MoveFile(s, p, q) PROVE TypeOK'
  BY <1>7, OperationType, ConcernedType DEF MoveFile, Begin, Collide, TypeOK, FileState,
     ApplySteps, UpdateSteps, RebuildSteps
<1>8. ASSUME NEW s \in Session, Load(s) PROVE TypeOK'
  <2>1. CASE base.exists
    <3>1. op[s] \in Operation /\ Fresh(op[s]) \in Operation /\ base.files \in SUBSET Path
      BY NoteType DEF TypeOK, FileState
    <3>2. LoadEffect(s)
      BY <1>8, <2>1, LoadCases
    <3> QED BY <3>1, <3>2 DEF LoadEffect, TypeOK, FileState, ApplySteps, UpdateSteps,
           RebuildSteps
  <2>2. CASE ~ base.exists
    <3>1. NoLoadEffect(s)
      BY <1>8, <2>2, NoLoadCases, Zenon
    <3> QED BY <3>1 DEF NoLoadEffect, TypeOK, FileState, ApplySteps, UpdateSteps,
           RebuildSteps
  <2> QED BY <2>1, <2>2
<1>9. ASSUME NEW s \in Session, StatChangeFile(s) PROVE TypeOK'
  <2>1. StatEffect(s)
    BY <1>9, StatCases
  <2>2. collided' \in BOOLEAN
    BY <1>9 DEF StatChangeFile, Collide, TypeOK
  <2> QED BY <2>1, <2>2 DEF StatEffect, TypeOK, FileState, ApplySteps, UpdateSteps,
         RebuildSteps
<1>10. ASSUME NEW s \in Session, ReadChangeFile(s) PROVE TypeOK'
  <2> DEFINE r == ReadOn(view[s], offset[s], changes.lines)
  <2>1. r.view \in SUBSET Path /\ r.offset \in Nat /\ r.damaged \in {"no", "tampered", "notFound"}
    BY ReadOnType DEF TypeOK
  <2>2. /\ view' = [view EXCEPT ![s] = r.view] /\ offset' = [offset EXCEPT ![s] = r.offset]
        /\ damaged' \in {damaged, r.damaged}
        /\ \E step \in {"clear", "raise"} : pc' = [pc EXCEPT ![s] = step]
        /\ pc[s] = "read"
        /\ UNCHANGED <<diskVars, op, loaded, modified, event, orphan,
                       rebuilds, dirty, moved, lost, collided>>
    BY <1>10 DEF ReadChangeFile, Raise
  <2> HIDE DEF r
  <2> QED BY <2>1, <2>2 DEF TypeOK, FileState, ApplySteps, UpdateSteps, RebuildSteps
<1>11. ASSUME NEW s \in Session, ReadFails(s) PROVE TypeOK'
  BY <1>11, OperationType, ConcernedType DEF ReadFails, TypeOK, FileState, ApplySteps,
     UpdateSteps, RebuildSteps
<1>12. ASSUME NEW s \in Session, ClearModified(s) PROVE TypeOK'
  <2>1. ClearEffect(s)
    BY <1>12, ClearCases
  <2>2. pc[s] \in {"clear", "raise"} /\ dirty' \subseteq Path
    BY <2>1, ConcernedType DEF ClearEffect, TypeOK
  <2>3. /\ loaded' \in [Session -> BOOLEAN] /\ view' \in [Session -> SUBSET Path]
        /\ offset' \in [Session -> Nat] /\ event' \in [Session -> BOOLEAN]
    <3>1. CASE pc[s] = "raise" /\ op[s].fresh
      <4>1. Unload(s)
        BY <1>12, <3>1, Zenon DEF ClearModified
      <4> QED BY <4>1 DEF Unload, TypeOK
    <3>2. CASE ~ (pc[s] = "raise" /\ op[s].fresh)
      BY <1>12, <3>2 DEF ClearModified, TypeOK
    <3> QED BY <3>1, <3>2
  <2>4. /\ collided' \in BOOLEAN /\ lost' \in BOOLEAN
        /\ modified' \in [Session -> BOOLEAN]
        /\ UNCHANGED <<diskVars, orphan, rebuilds, moved, damaged>>
    BY <1>12 DEF ClearModified, Collide, TypeOK
  <2>5. /\ pc' \in [Session -> {"idle", "load"} \cup ApplySteps \cup UpdateSteps \cup RebuildSteps]
        /\ op' \in [Session -> Operation]
    BY <2>1 DEF ClearEffect, TypeOK, FileState, ApplySteps, UpdateSteps, RebuildSteps
  <2>6. orphan' \subseteq {t \in Session : pc'[t] \in {"lock", "append"}}
    BY <2>1, <2>2, <2>4 DEF ClearEffect, TypeOK
  <2> QED BY <2>2, <2>3, <2>4, <2>5, <2>6 DEF TypeOK
<1>13. ASSUME NEW s \in Session, OpenChangeFile(s) PROVE TypeOK'
  BY <1>13, OperationType, ConcernedType DEF OpenChangeFile, TypeOK, FileState, ApplySteps,
     UpdateSteps, RebuildSteps
<1>14. ASSUME NEW s \in Session, LockChangeFile(s) PROVE TypeOK'
  BY <1>14, OperationType, ConcernedType DEF LockChangeFile, Collide, TypeOK, FileState,
     ApplySteps, UpdateSteps, RebuildSteps
<1>15. ASSUME NEW s \in Session, LockTimesOut(s) PROVE TypeOK'
  BY <1>15, OperationType, ConcernedType DEF LockTimesOut, Abandon, TypeOK, FileState,
     ApplySteps, UpdateSteps, RebuildSteps
<1>16. ASSUME NEW s \in Session, AppendAdd(s) PROVE TypeOK'
  <2> DEFINE line == Added(op[s].path)
  <2>1. op[s].path \in Path /\ op[s] \in Operation
    BY <1>16, OperationType DEF AppendAdd, TypeOK
  <2>2. line \in Line
    BY <2>1 DEF Line
  <2> HIDE DEF line
  <2>3. /\ Append(changes.lines, line) \in Seq(Line) /\ Length(line) \in Nat
        /\ ApplyLine(view[s], line) \in SUBSET Path
    <3>1. view[s] \in SUBSET Path /\ changes.lines \in Seq(Line)
      BY DEF TypeOK
    <3> QED BY <2>2, <3>1, LineType
  <2>4. WriteLine(s, line) => /\ changes' \in [exists : BOOLEAN, lines : Seq(Line)]
          /\ view' \in [Session -> SUBSET Path] /\ offset' \in [Session -> Nat]
          /\ event' \in [Session -> BOOLEAN] /\ modified' \in [Session -> BOOLEAN]
          /\ orphan' = orphan \ {s}
    <3>1. [changes EXCEPT !.lines = Append(changes.lines, line)]
            \in [exists : BOOLEAN, lines : Seq(Line)]
      BY <2>3 DEF TypeOK
    <3>2. CASE s \in orphan
      BY <2>3, <3>2 DEF WriteLine, WriteLineCounting, TypeOK
    <3>3. CASE s \notin orphan
      <4>1. WriteLine(s, line) =>
              /\ changes' = [changes EXCEPT !.lines = Append(changes.lines, line)]
              /\ event' = [t \in Session |-> event[t] \/ loaded[t]]
        BY <3>3 DEF WriteLine, WriteLineCounting
      <4>2. [t \in Session |-> event[t] \/ loaded[t]] \in [Session -> BOOLEAN]
        BY Zenon DEF TypeOK
      <4>3. WriteLine(s, line) =>
              /\ view' = Set(view, s, ApplyLine(view[s], line))
              /\ offset' = Set(offset, s, offset[s] + Length(line))
              /\ modified' = Set(modified, s, TRUE) /\ orphan' = orphan \ {s}
        BY DEF WriteLine, WriteLineCounting
      <4>4. /\ Set(view, s, ApplyLine(view[s], line)) \in [Session -> SUBSET Path]
            /\ Set(offset, s, offset[s] + Length(line)) \in [Session -> Nat]
            /\ Set(modified, s, TRUE) \in [Session -> BOOLEAN]
        BY <2>3 DEF TypeOK
      <4> QED BY ONLY <3>1, <4>1, <4>2, <4>3, <4>4
    <3> QED BY <3>2, <3>3
  <2>5. NoOp \in Operation
    BY OperationType
  <2> QED BY <1>16, <2>1, <2>4, <2>5 DEF AppendAdd, line, TypeOK, FileState, ApplySteps,
         UpdateSteps, RebuildSteps
<1>17. ASSUME NEW s \in Session, AppendRemove(s) PROVE TypeOK'
  <2> DEFINE line == Removed(op[s].path)
  <2>1. op[s].path \in Path /\ op[s] \in Operation
    BY <1>17, OperationType DEF AppendRemove, TypeOK
  <2>2. line \in Line
    BY <2>1 DEF Line
  <2> HIDE DEF line
  <2>3. /\ Append(changes.lines, line) \in Seq(Line) /\ Length(line) \in Nat
        /\ ApplyLine(view[s], line) \in SUBSET Path
    <3>1. view[s] \in SUBSET Path /\ changes.lines \in Seq(Line)
      BY DEF TypeOK
    <3> QED BY <2>2, <3>1, LineType
  <2>4. WriteLine(s, line) => /\ changes' \in [exists : BOOLEAN, lines : Seq(Line)]
          /\ view' \in [Session -> SUBSET Path] /\ offset' \in [Session -> Nat]
          /\ event' \in [Session -> BOOLEAN] /\ modified' \in [Session -> BOOLEAN]
          /\ orphan' = orphan \ {s}
    <3>1. [changes EXCEPT !.lines = Append(changes.lines, line)]
            \in [exists : BOOLEAN, lines : Seq(Line)]
      BY <2>3 DEF TypeOK
    <3>2. CASE s \in orphan
      BY <2>3, <3>2 DEF WriteLine, WriteLineCounting, TypeOK
    <3>3. CASE s \notin orphan
      <4>1. WriteLine(s, line) =>
              /\ changes' = [changes EXCEPT !.lines = Append(changes.lines, line)]
              /\ event' = [t \in Session |-> event[t] \/ loaded[t]]
        BY <3>3 DEF WriteLine, WriteLineCounting
      <4>2. [t \in Session |-> event[t] \/ loaded[t]] \in [Session -> BOOLEAN]
        BY Zenon DEF TypeOK
      <4>3. WriteLine(s, line) =>
              /\ view' = Set(view, s, ApplyLine(view[s], line))
              /\ offset' = Set(offset, s, offset[s] + Length(line))
              /\ modified' = Set(modified, s, TRUE) /\ orphan' = orphan \ {s}
        BY DEF WriteLine, WriteLineCounting
      <4>4. /\ Set(view, s, ApplyLine(view[s], line)) \in [Session -> SUBSET Path]
            /\ Set(offset, s, offset[s] + Length(line)) \in [Session -> Nat]
            /\ Set(modified, s, TRUE) \in [Session -> BOOLEAN]
        BY <2>3 DEF TypeOK
      <4> QED BY ONLY <3>1, <4>1, <4>2, <4>3, <4>4
    <3> QED BY <3>2, <3>3
  <2> QED BY <1>17, <2>1, <2>4 DEF AppendRemove, line, TypeOK, FileState, ApplySteps,
         UpdateSteps, RebuildSteps
<1>18. ASSUME NEW s \in Session, EraseFails(s) PROVE TypeOK'
  BY <1>18, OperationType, ConcernedType DEF EraseFails, Raise, Abandon, TypeOK, FileState,
     ApplySteps, UpdateSteps, RebuildSteps
<1>19. ASSUME NEW s \in Session, UnlinkFile(s) PROVE TypeOK'
  BY <1>19, OperationType, ConcernedType DEF UnlinkFile, TypeOK, FileState, ApplySteps,
     UpdateSteps, RebuildSteps
<1>20. ASSUME NEW s \in Session, AddMovedFile(s) PROVE TypeOK'
  BY <1>20, OperationType, ConcernedType DEF AddMovedFile, TypeOK, FileState, ApplySteps,
     UpdateSteps, RebuildSteps
<1>21. ASSUME NEW s \in Session, ScanDisk(s) PROVE TypeOK'
  BY <1>21, OperationType, ConcernedType DEF ScanDisk, TypeOK, FileState, ApplySteps,
     UpdateSteps, RebuildSteps
<1>22. ASSUME NEW s \in Session, WriteTmp(s) PROVE TypeOK'
  BY <1>22, OperationType, ConcernedType DEF WriteTmp, TypeOK, FileState, ApplySteps,
     UpdateSteps, RebuildSteps
<1>23. ASSUME NEW s \in Session, DeleteBase(s) PROVE TypeOK'
  BY <1>23, OperationType, ConcernedType DEF DeleteBase, NoFile, TypeOK, FileState,
     ApplySteps, UpdateSteps, RebuildSteps
<1>24. ASSUME NEW s \in Session, MoveTmp(s) PROVE TypeOK'
  <2>1. MoveTmpEffect(s)
    BY <1>24, MoveTmpCases
  <2>2. /\ base' \in FileState /\ tmp' \in FileState /\ dirty' \subseteq Path
    <3>1. NoFile \in FileState
      BY DEF NoFile, FileState
    <3> QED BY <2>1, <3>1, ConcernedType DEF MoveTmpEffect, MoveTmpTo, TypeOK
  <2> QED BY <2>1, <2>2 DEF MoveTmpEffect, TypeOK, FileState, ApplySteps, UpdateSteps,
         RebuildSteps
<1>25. ASSUME NEW s \in Session, DeleteChanges(s) PROVE TypeOK'
  <2>1. DeleteChangesEffect(s)
    BY <1>25, DeleteChangesCases
  <2>2. changes' \in [exists : BOOLEAN, lines : Seq(Line)]
    BY <2>1 DEF DeleteChangesEffect, NoChanges
  <2>3. orphan' \subseteq {t \in Session : pc'[t] \in {"lock", "append"}}
    BY <2>1 DEF DeleteChangesEffect, TypeOK
  <2> QED BY <2>1, <2>2, <2>3 DEF DeleteChangesEffect, TypeOK, FileState, ApplySteps,
         UpdateSteps, RebuildSteps
<1>26. CASE UNCHANGED vars
  BY <1>26 DEF TypeOK, FileState, ApplySteps, UpdateSteps, RebuildSteps
<1> QED BY <1>1, <1>2, <1>3, <1>4, <1>5, <1>6, <1>7, <1>8, <1>9, <1>10, <1>11, <1>12, <1>13,
       <1>14, <1>15, <1>16, <1>17, <1>18, <1>19, <1>20, <1>21, <1>22, <1>23, <1>24, <1>25,
       <1>26 DEF Next, Step

-----------------------------------------------------------------------------
(* The conjuncts of the invariant.                                         *)

\* What is known of an operation at each of its steps.
LEMMA OperatingStep ==
  ASSUME TypeOK, Operating, [Next]_vars
  PROVE  Operating'
<1> USE DEF vars, diskVars, sessionVars, historyVars, Goto, Set, Done, Op, NoOp, Adding,
       Removing, Moving, Fresh, Seasoned, Flagged, Updating
<1>1. ASSUME NEW s \in Session, Query(s) PROVE Operating'
  BY <1>1 DEF Query, Begin, Collide, Operating, OperatingAt, Rebuilding, PastScan, TypeOK,
     ApplySteps, UpdateSteps, RebuildSteps
<1>2. ASSUME NEW s \in Session, Refresh(s) PROVE Operating'
  BY <1>2 DEF Refresh, Operating, OperatingAt, Rebuilding, PastScan, TypeOK, ApplySteps,
     UpdateSteps, RebuildSteps
<1>3. ASSUME NEW s \in Session, Deliver(s) PROVE Operating'
  BY <1>3 DEF Deliver, Operating, OperatingAt, Rebuilding, PastScan, TypeOK, ApplySteps,
     UpdateSteps, RebuildSteps
<1>4. ASSUME NEW s \in Session, Exit(s) PROVE Operating'
  BY <1>4 DEF Exit, Abandon, Unload, Collide, Operating, OperatingAt, Rebuilding, PastScan,
     TypeOK, ApplySteps, UpdateSteps, RebuildSteps
<1>5. ASSUME NEW s \in Session, NEW p \in Path, AddFile(s, p) PROVE Operating'
  BY <1>5 DEF AddFile, Begin, Collide, Operating, OperatingAt, Rebuilding, PastScan, TypeOK,
     ApplySteps, UpdateSteps, RebuildSteps
<1>6. ASSUME NEW s \in Session, NEW p \in Path, RemoveFile(s, p) PROVE Operating'
  BY <1>6 DEF RemoveFile, Begin, Collide, Operating, OperatingAt, Rebuilding, PastScan,
     TypeOK, ApplySteps, UpdateSteps, RebuildSteps
<1>7. ASSUME NEW s \in Session, NEW p \in Path, NEW q \in Path, MoveFile(s, p, q) PROVE Operating'
  BY <1>7 DEF MoveFile, Begin, Collide, Operating, OperatingAt, Rebuilding, PastScan,
     TypeOK, ApplySteps, UpdateSteps, RebuildSteps
<1>8. ASSUME NEW s \in Session, Load(s) PROVE Operating'
  <2>1. CASE base.exists
    <3>1. LoadEffect(s)
      BY <1>8, <2>1, LoadCases
    <3> QED BY <3>1 DEF LoadEffect, Operating, OperatingAt, Rebuilding, PastScan, Checks,
           TypeOK, ApplySteps, UpdateSteps, RebuildSteps
  <2>2. CASE ~ base.exists
    <3>1. NoLoadEffect(s)
      BY <1>8, <2>2, NoLoadCases
    <3>2. PICK step \in {"idle", "recordGone", "scan"},
               o \in Operation :
          pc' = Set(pc, s, step) /\ op' = Set(op, s, o) /\ NoLoadTo(s, step, o)
      BY <3>1 DEF NoLoadEffect
    <3>3. pc[s] = "load" /\ UNCHANGED <<loaded, event>>
      BY <3>1 DEF NoLoadEffect
    <3> SUFFICES ASSUME NEW t \in Session PROVE OperatingAt(t)'
      BY DEF Operating
    <3>4. OperatingAt(s) /\ OperatingAt(t)
      BY DEF Operating
    <3>5. CASE t = s
      BY <3>4, <3>5, <3>2, <3>3 DEF NoLoadTo, OperatingAt, Rebuilding, PastScan, Checks,
         TypeOK, ApplySteps, UpdateSteps, RebuildSteps
    <3>6. CASE t # s
      BY <3>4, <3>6, <3>2, <3>3 DEF OperatingAt, Rebuilding, PastScan, Checks, TypeOK,
         ApplySteps, UpdateSteps, RebuildSteps
    <3> QED BY <3>5, <3>6
  <2> QED BY <2>1, <2>2
<1>9. ASSUME NEW s \in Session, StatChangeFile(s) PROVE Operating'
  <2>1. StatEffect(s)
    BY <1>9, StatCases
  <2>2. PICK step \in {"idle", "stat", "open", "recordGone", "scan", "read", "clear"},
             o \in Operation :
        pc' = Set(pc, s, step) /\ op' = Set(op, s, o) /\ 
        (ProceedTo(s, step, o) \/ (step \in {"read", "clear"} /\ o = op[s]))
    BY <2>1 DEF StatEffect
  <2>3. pc[s] = "stat" /\ UNCHANGED <<loaded, event>>
    BY <2>1 DEF StatEffect
  <2> SUFFICES ASSUME NEW t \in Session PROVE OperatingAt(t)'
    BY DEF Operating
  <2>4. OperatingAt(s) /\ OperatingAt(t)
    BY DEF Operating
  <2>5. CASE t = s
    BY <2>4, <2>5, <2>2, <2>3, OperationType, SameOperation DEF ProceedTo, OperatingAt,
       Rebuilding, PastScan, Checks, TypeOK, ApplySteps, UpdateSteps, RebuildSteps
  <2>6. CASE t # s
    BY <2>4, <2>6, <2>2, <2>3, OperationType, SameOperation DEF OperatingAt, Rebuilding,
       PastScan, Checks, TypeOK, ApplySteps, UpdateSteps, RebuildSteps
  <2> QED BY <2>5, <2>6
<1>10. ASSUME NEW s \in Session, ReadChangeFile(s) PROVE Operating'
  BY <1>10 DEF ReadChangeFile, Raise, Operating, OperatingAt, Rebuilding, PastScan, TypeOK,
     ApplySteps, UpdateSteps, RebuildSteps
<1>11. ASSUME NEW s \in Session, ReadFails(s) PROVE Operating'
  BY <1>11 DEF ReadFails, Operating, OperatingAt, Rebuilding, PastScan, TypeOK, ApplySteps,
     UpdateSteps, RebuildSteps
<1>12. ASSUME NEW s \in Session, ClearModified(s) PROVE Operating'
  <2>1. ClearEffect(s)
    BY <1>12, ClearCases
  <2>2. PICK step \in {"idle", "stat", "open", "recordGone", "scan"},
             o \in Operation :
        pc' = Set(pc, s, step) /\ op' = Set(op, s, o) /\ 
        ((pc[s] = "clear" /\ ProceedTo(s, step, o)) \/ (pc[s] = "raise" /\ step = "idle" /\ o = NoOp))
    BY <2>1 DEF ClearEffect
  <2>3. /\ pc[s] \in {"clear", "raise"}
        /\ IF pc[s] = "raise" /\ op[s].fresh
           THEN loaded' = Set(loaded, s, FALSE) /\ event' = Set(event, s, FALSE)
           ELSE UNCHANGED <<loaded, event>>
    BY <1>12, Zenon DEF ClearModified, Unload
  <2> SUFFICES ASSUME NEW t \in Session PROVE OperatingAt(t)'
    BY DEF Operating
  <2>4. OperatingAt(s) /\ OperatingAt(t)
    BY DEF Operating
  <2>5. CASE t = s
    BY <2>4, <2>5, <2>2, <2>3, OperationType, SameOperation DEF ProceedTo, OperatingAt,
       Rebuilding, PastScan, Checks, TypeOK, ApplySteps, UpdateSteps, RebuildSteps
  <2>6. CASE t # s
    BY <2>4, <2>6, <2>2, <2>3, OperationType, SameOperation DEF OperatingAt, Rebuilding,
       PastScan, Checks, TypeOK, ApplySteps, UpdateSteps, RebuildSteps
  <2> QED BY <2>5, <2>6
<1>13. ASSUME NEW s \in Session, OpenChangeFile(s) PROVE Operating'
  BY <1>13 DEF OpenChangeFile, Operating, OperatingAt, Rebuilding, PastScan, TypeOK,
     ApplySteps, UpdateSteps, RebuildSteps
<1>14. ASSUME NEW s \in Session, LockChangeFile(s) PROVE Operating'
  BY <1>14 DEF LockChangeFile, Collide, Operating, OperatingAt, Rebuilding, PastScan,
     TypeOK, ApplySteps, UpdateSteps, RebuildSteps
<1>15. ASSUME NEW s \in Session, LockTimesOut(s) PROVE Operating'
  BY <1>15 DEF LockTimesOut, Abandon, Operating, OperatingAt, Rebuilding, PastScan, TypeOK,
     ApplySteps, UpdateSteps, RebuildSteps
<1>16. ASSUME NEW s \in Session, AppendAdd(s) PROVE Operating'
  BY <1>16 DEF AppendAdd, WriteLine, WriteLineCounting, Operating, OperatingAt, Rebuilding,
     PastScan, TypeOK, ApplySteps, UpdateSteps, RebuildSteps
<1>17. ASSUME NEW s \in Session, AppendRemove(s) PROVE Operating'
  BY <1>17 DEF AppendRemove, WriteLine, WriteLineCounting, Operating, OperatingAt,
     Rebuilding, PastScan, TypeOK, ApplySteps, UpdateSteps, RebuildSteps
<1>18. ASSUME NEW s \in Session, EraseFails(s) PROVE Operating'
  BY <1>18 DEF EraseFails, Raise, Abandon, Operating, OperatingAt, Rebuilding, PastScan,
     TypeOK, ApplySteps, UpdateSteps, RebuildSteps
<1>19. ASSUME NEW s \in Session, UnlinkFile(s) PROVE Operating'
  BY <1>19 DEF UnlinkFile, Operating, OperatingAt, Rebuilding, PastScan, TypeOK, ApplySteps,
     UpdateSteps, RebuildSteps
<1>20. ASSUME NEW s \in Session, AddMovedFile(s) PROVE Operating'
  BY <1>20 DEF AddMovedFile, Operating, OperatingAt, Rebuilding, PastScan, TypeOK,
     ApplySteps, UpdateSteps, RebuildSteps
<1>21. ASSUME NEW s \in Session, ScanDisk(s) PROVE Operating'
  BY <1>21 DEF ScanDisk, Operating, OperatingAt, Rebuilding, PastScan, TypeOK, ApplySteps,
     UpdateSteps, RebuildSteps
<1>22. ASSUME NEW s \in Session, WriteTmp(s) PROVE Operating'
  BY <1>22 DEF WriteTmp, Operating, OperatingAt, Rebuilding, PastScan, TypeOK, ApplySteps,
     UpdateSteps, RebuildSteps
<1>23. ASSUME NEW s \in Session, DeleteBase(s) PROVE Operating'
  BY <1>23 DEF DeleteBase, NoFile, Operating, OperatingAt, Rebuilding, PastScan, TypeOK,
     ApplySteps, UpdateSteps, RebuildSteps
<1>24. ASSUME NEW s \in Session, MoveTmp(s) PROVE Operating'
  <2>1. MoveTmpEffect(s)
    BY <1>24, MoveTmpCases
  <2>2. PICK step \in {"idle", "deleteChanges"},
             o \in Operation :
        pc' = Set(pc, s, step) /\ op' = Set(op, s, o) /\ MoveTmpTo(s, step, o)
    BY <2>1 DEF MoveTmpEffect
  <2>3. pc[s] = "move" /\ UNCHANGED <<loaded, event>>
    BY <2>1 DEF MoveTmpEffect
  <2> SUFFICES ASSUME NEW t \in Session PROVE OperatingAt(t)'
    BY DEF Operating
  <2>4. OperatingAt(s) /\ OperatingAt(t)
    BY DEF Operating
  <2>5. CASE t = s
    BY <2>4, <2>5, <2>2, <2>3 DEF MoveTmpTo, OperatingAt, Rebuilding, PastScan, Checks,
       TypeOK, ApplySteps, UpdateSteps, RebuildSteps
  <2>6. CASE t # s
    BY <2>4, <2>6, <2>2, <2>3 DEF OperatingAt, Rebuilding, PastScan, Checks, TypeOK,
       ApplySteps, UpdateSteps, RebuildSteps
  <2> QED BY <2>5, <2>6
<1>25. ASSUME NEW s \in Session, DeleteChanges(s) PROVE Operating'
  <2>1. DeleteChangesEffect(s)
    BY <1>25, DeleteChangesCases
  <2>2. PICK step \in {"idle", "load"},
             o \in Operation :
        pc' = Set(pc, s, step) /\ op' = Set(op, s, o) /\ RebuiltTo(s, step, o)
    BY <2>1 DEF DeleteChangesEffect
  <2>3. pc[s] = "deleteChanges" /\ UNCHANGED <<loaded, event>>
    BY <2>1 DEF DeleteChangesEffect
  <2> SUFFICES ASSUME NEW t \in Session PROVE OperatingAt(t)'
    BY DEF Operating
  <2>4. OperatingAt(s) /\ OperatingAt(t)
    BY DEF Operating
  <2>5. CASE t = s
    BY <2>4, <2>5, <2>2, <2>3 DEF RebuiltTo, OperatingAt, Rebuilding, PastScan, Checks,
       TypeOK, ApplySteps, UpdateSteps, RebuildSteps
  <2>6. CASE t # s
    BY <2>4, <2>6, <2>2, <2>3 DEF OperatingAt, Rebuilding, PastScan, Checks, TypeOK,
       ApplySteps, UpdateSteps, RebuildSteps
  <2> QED BY <2>5, <2>6
<1>26. CASE UNCHANGED vars
  BY <1>26 DEF Operating, OperatingAt, Rebuilding, PastScan, TypeOK, ApplySteps,
     UpdateSteps, RebuildSteps
<1> QED BY <1>1, <1>2, <1>3, <1>4, <1>5, <1>6, <1>7, <1>8, <1>9, <1>10, <1>11, <1>12, <1>13,
       <1>14, <1>15, <1>16, <1>17, <1>18, <1>19, <1>20, <1>21, <1>22, <1>23, <1>24, <1>25,
       <1>26 DEF Next, Step

\* The step and the operation of s are all that changes of what the conjuncts
\* of the invariant say of operations: files stay with their operation.
LEMMA SameFiles ==
  ASSUME TypeOK, FilesInUse, NEW s \in Session, NEW o, op' = Set(op, s, o), disk' = disk,
         o = NoOp \/ (o.kind = op[s].kind /\ o.path = op[s].path /\ o.dest = op[s].dest)
  PROVE  FilesInUse'
<1> USE DEF Adding, Removing, Moving, Set
<1>1. op \in [Session -> Operation]
  BY DEF TypeOK
<1>2. \A t \in Session : /\ Concerned(t)' \subseteq Concerned(t)
                         /\ Adding(t)' => Adding(t)
                         /\ Moving(t)' => Moving(t)
                         /\ op'[t].kind = "remove" => op[t].kind = "remove"
                         /\ (op'[t].kind \in {"add", "remove", "move"} =>
                               op'[t].path = op[t].path /\ op'[t].dest = op[t].dest)
                         /\ (Adding(t) /\ Concerned(t)' # {} => Adding(t)')
  BY <1>1 DEF Concerned, NoOp, Op
<1> SUFFICES ASSUME NEW t \in Session
             PROVE  /\ Adding(t)' \/ op'[t].kind = "remove" => op'[t].path \in disk'
                    /\ Moving(t)' => op'[t].path \notin disk' /\ op'[t].dest \in disk'
                    /\ \A u \in Others(t) :
                         Concerned(t)' \cap Concerned(u)' # {} => Adding(t)' /\ Adding(u)'
  BY DEF FilesInUse, Others
<1>3. /\ Adding(t) \/ op[t].kind = "remove" => op[t].path \in disk
      /\ Moving(t) => op[t].path \notin disk /\ op[t].dest \in disk
      /\ \A u \in Others(t) : Concerned(t) \cap Concerned(u) # {} => Adding(t) /\ Adding(u)
  BY DEF FilesInUse
<1>4. ASSUME NEW u \in Others(t), Concerned(t)' \cap Concerned(u)' # {}
      PROVE  Adding(t)' /\ Adding(u)'
  <2>1. Adding(t) /\ Adding(u)
    BY <1>2, <1>3, <1>4 DEF Others
  <2> QED BY <1>2, <1>4, <2>1 DEF Others
<1> QED BY <1>2, <1>3, <1>4

\* Operations go on with their files.
LEMMA KeptFiles ==
  ASSUME NEW s \in Session
  PROVE  \A step, o :
           ProceedTo(s, step, o) \/ NoLoadTo(s, step, o) \/ RebuiltTo(s, step, o)
             \/ MoveTmpTo(s, step, o)
           => o = NoOp \/ (o.kind = op[s].kind /\ o.path = op[s].path /\ o.dest = op[s].dest)
<1> SUFFICES ASSUME NEW step, NEW o,
                    \/ ProceedTo(s, step, o) \/ NoLoadTo(s, step, o) \/ RebuiltTo(s, step, o)
                    \/ MoveTmpTo(s, step, o)
             PROVE  o = NoOp \/ (o.kind = op[s].kind /\ o.path = op[s].path /\ o.dest = op[s].dest)
  OBVIOUS
<1>1. o \in {NoOp, op[s], Seasoned(op[s]), Updating(op[s])}
  BY Zenon DEF ProceedTo, NoLoadTo, RebuiltTo, MoveTmpTo
<1> QED BY <1>1 DEF Seasoned, Flagged, Updating

\* The files of operation o.
FilesOf(o) ==
  (IF o.kind \in {"add", "remove", "move"} THEN {o.path} ELSE {})
    \cup (IF o.kind = "move" THEN {o.dest} ELSE {})

\* s begins with o, or has unlinked its file: the files of the others are left
\* alone, and o has its files to itself.
LEMMA OtherFiles ==
  ASSUME TypeOK, FilesInUse, NEW s \in Session, NEW o \in Operation, op' = Set(op, s, o),
         o.kind \in {"add", "remove"} => o.path \in disk',
         o.kind = "move" => o.path \notin disk' /\ o.dest \in disk',
         \A t \in Others(s) : \A p \in Concerned(t) :
           (p \in disk' <=> p \in disk) \/ (Adding(t) /\ p \in disk'),
         \A t \in Others(s) : FilesOf(o) \cap Concerned(t) # {} => o.kind = "add" /\ Adding(t)
  PROVE  FilesInUse'
<1> USE DEF Adding, Removing, Moving, Set, Others
<1>1. op \in [Session -> Operation]
  BY DEF TypeOK
<1>2. op'[s] = o /\ \A t \in Others(s) : op'[t] = op[t]
  BY <1>1
<1>3. Concerned(s)' = FilesOf(o) /\ \A t \in Others(s) : Concerned(t)' = Concerned(t)
  BY <1>2 DEF Concerned, FilesOf
<1>4. ASSUME NEW t \in Session
      PROVE  /\ Adding(t)' \/ op'[t].kind = "remove" => op'[t].path \in disk'
             /\ Moving(t)' => op'[t].path \notin disk' /\ op'[t].dest \in disk'
  <2>1. CASE t = s
    BY <2>1, <1>2
  <2>2. CASE t # s
    <3>1. /\ Adding(t) \/ op[t].kind = "remove" => op[t].path \in disk
          /\ Moving(t) => op[t].path \notin disk /\ op[t].dest \in disk
      BY DEF FilesInUse
    <3>2. /\ Adding(t) \/ Removing(t) => op[t].path \in Concerned(t)
          /\ Moving(t) => op[t].dest \in Concerned(t)
      BY DEF Concerned
    <3> QED BY <2>2, <3>1, <3>2, <1>2
  <2> QED BY <2>1, <2>2
<1>5. ASSUME NEW t \in Session, NEW u \in Others(t), Concerned(t)' \cap Concerned(u)' # {}
      PROVE  Adding(t)' /\ Adding(u)'
  <2>1. CASE t = s
    BY <2>1, <1>2, <1>3, <1>5
  <2>2. CASE u = s
    BY <2>2, <1>2, <1>3, <1>5
  <2>3. CASE t # s /\ u # s
    BY <2>3, <1>2, <1>3, <1>5 DEF FilesInUse
  <2> QED BY <2>1, <2>2, <2>3
<1> QED BY <1>4, <1>5 DEF FilesInUse

\* Files stay with their operations.
LEMMA FilesInUseStep ==
  ASSUME TypeOK, Operating, FilesInUse, [Next]_vars
  PROVE  FilesInUse'
<1> USE DEF vars, diskVars, sessionVars, historyVars, Goto, Set, Done, Op, NoOp, Adding,
       Removing, Moving
<1>1. ASSUME NEW s \in Session, Query(s) PROVE FilesInUse'
  <2> DEFINE o == Op("query", None, None)
  <2>1. op' = Set(op, s, o) /\ o \in Operation
    BY <1>1, OperationType DEF Query, Begin
  <2>2. /\ o.kind \in {"add", "remove"} => o.path \in disk'
        /\ o.kind = "move" => o.path \notin disk' /\ o.dest \in disk'
    BY <1>1 DEF Query
  <2>3. \A t \in Others(s) : \A r \in Concerned(t) :
          (r \in disk' <=> r \in disk) \/ (Adding(t) /\ r \in disk')
    BY <1>1 DEF Query, Others, InFlight
  <2>4. \A t \in Others(s) : FilesOf(o) \cap Concerned(t) # {} => o.kind = "add" /\ Adding(t)
    BY <1>1 DEF Query, Others, InFlight, FilesOf
  <2> HIDE DEF o
  <2> QED BY <2>1, <2>2, <2>3, <2>4, OtherFiles
<1>2. ASSUME NEW s \in Session, Refresh(s) PROVE FilesInUse'
  <2> DEFINE o == Op("rebuild", None, None)
  <2>1. op' = Set(op, s, o) /\ o \in Operation
    BY <1>2, OperationType DEF Refresh, Begin
  <2>2. /\ o.kind \in {"add", "remove"} => o.path \in disk'
        /\ o.kind = "move" => o.path \notin disk' /\ o.dest \in disk'
    BY <1>2 DEF Refresh
  <2>3. \A t \in Others(s) : \A r \in Concerned(t) :
          (r \in disk' <=> r \in disk) \/ (Adding(t) /\ r \in disk')
    BY <1>2 DEF Refresh, Others, InFlight
  <2>4. \A t \in Others(s) : FilesOf(o) \cap Concerned(t) # {} => o.kind = "add" /\ Adding(t)
    BY <1>2 DEF Refresh, Others, InFlight, FilesOf
  <2> HIDE DEF o
  <2> QED BY <2>1, <2>2, <2>3, <2>4, OtherFiles
<1>3. ASSUME NEW s \in Session, Deliver(s) PROVE FilesInUse'
  BY <1>3, OperationType DEF Deliver, TypeOK, FilesInUse, Concerned, Others, InFlight
<1>4. ASSUME NEW s \in Session, Exit(s) PROVE FilesInUse'
  <2>1. op' = Set(op, s, NoOp) /\ disk' = disk
    BY <1>4, Zenon DEF Exit, Abandon
  <2> QED BY <2>1, SameFiles, Zenon
<1>5. ASSUME NEW s \in Session, NEW p \in Path, AddFile(s, p) PROVE FilesInUse'
  <2> DEFINE o == Op("add", p, None)
  <2>1. op' = Set(op, s, o) /\ o \in Operation
    BY <1>5, OperationType DEF AddFile, Begin
  <2>2. /\ o.kind \in {"add", "remove"} => o.path \in disk'
        /\ o.kind = "move" => o.path \notin disk' /\ o.dest \in disk'
    BY <1>5 DEF AddFile
  <2>3. \A t \in Others(s) : \A r \in Concerned(t) :
          (r \in disk' <=> r \in disk) \/ (Adding(t) /\ r \in disk')
    BY <1>5 DEF AddFile, Others, InFlight
  <2>4. \A t \in Others(s) : FilesOf(o) \cap Concerned(t) # {} => o.kind = "add" /\ Adding(t)
    BY <1>5 DEF AddFile, Others, InFlight, FilesOf
  <2> HIDE DEF o
  <2> QED BY <2>1, <2>2, <2>3, <2>4, OtherFiles
<1>6. ASSUME NEW s \in Session, NEW p \in Path, RemoveFile(s, p) PROVE FilesInUse'
  <2> DEFINE o == Op("remove", p, None)
  <2>1. op' = Set(op, s, o) /\ o \in Operation
    BY <1>6, OperationType DEF RemoveFile, Begin
  <2>2. /\ o.kind \in {"add", "remove"} => o.path \in disk'
        /\ o.kind = "move" => o.path \notin disk' /\ o.dest \in disk'
    BY <1>6 DEF RemoveFile
  <2>3. \A t \in Others(s) : \A r \in Concerned(t) :
          (r \in disk' <=> r \in disk) \/ (Adding(t) /\ r \in disk')
    BY <1>6 DEF RemoveFile, Others, InFlight
  <2>4. \A t \in Others(s) : FilesOf(o) \cap Concerned(t) # {} => o.kind = "add" /\ Adding(t)
    BY <1>6 DEF RemoveFile, Others, InFlight, FilesOf
  <2> HIDE DEF o
  <2> QED BY <2>1, <2>2, <2>3, <2>4, OtherFiles
<1>7. ASSUME NEW s \in Session, NEW p \in Path, NEW q \in Path, MoveFile(s, p, q) PROVE FilesInUse'
  <2> DEFINE o == Op("move", p, q)
  <2>1. op' = Set(op, s, o) /\ o \in Operation
    BY <1>7, OperationType DEF MoveFile, Begin
  <2>2. /\ o.kind \in {"add", "remove"} => o.path \in disk'
        /\ o.kind = "move" => o.path \notin disk' /\ o.dest \in disk'
    BY <1>7 DEF MoveFile
  <2>3. \A t \in Others(s) : \A r \in Concerned(t) :
          (r \in disk' <=> r \in disk) \/ (Adding(t) /\ r \in disk')
    BY <1>7 DEF MoveFile, Others, InFlight
  <2>4. \A t \in Others(s) : FilesOf(o) \cap Concerned(t) # {} => o.kind = "add" /\ Adding(t)
    BY <1>7 DEF MoveFile, Others, InFlight, FilesOf
  <2> HIDE DEF o
  <2> QED BY <2>1, <2>2, <2>3, <2>4, OtherFiles
<1>8. ASSUME NEW s \in Session, Load(s) PROVE FilesInUse'
  <2>1. CASE base.exists
    <3>1. op' = Set(op, s, Fresh(op[s])) /\ disk' = disk
      BY <1>8, <2>1, LoadCases DEF LoadEffect
    <3>2. /\ Fresh(op[s]).kind = op[s].kind /\ Fresh(op[s]).path = op[s].path
          /\ Fresh(op[s]).dest = op[s].dest
      BY DEF Fresh, Flagged
    <3> QED BY <3>1, <3>2, SameFiles
  <2>2. CASE ~ base.exists
    <3>1. NoLoadEffect(s)
      BY <1>8, <2>2, NoLoadCases
    <3>2. PICK o \in Operation :
            /\ op' = Set(op, s, o) /\ disk' = disk
            /\ o = NoOp \/ (o.kind = op[s].kind /\ o.path = op[s].path /\ o.dest = op[s].dest)
      BY <3>1 DEF NoLoadEffect, NoLoadTo
    <3> QED BY <3>2, SameFiles
  <2> QED BY <2>1, <2>2
<1>9. ASSUME NEW s \in Session, StatChangeFile(s) PROVE FilesInUse'
  <2>1. StatEffect(s)
    BY <1>9, StatCases
  <2>2. PICK o \in Operation :
          /\ op' = Set(op, s, o) /\ disk' = disk
          /\ o = NoOp \/ (o.kind = op[s].kind /\ o.path = op[s].path /\ o.dest = op[s].dest)
    <3>1. \E o \in Operation :
            op' = Set(op, s, o) /\ disk' = disk /\ \E step : (ProceedTo(s, step, o) \/ o = op[s])
      BY <2>1 DEF StatEffect
    <3>2. PICK o \in Operation :
            op' = Set(op, s, o) /\ disk' = disk /\ \E step : (ProceedTo(s, step, o) \/ o = op[s])
      BY <3>1, Zenon
    <3> QED BY <3>2, KeptFiles
  <2> QED BY <2>2, SameFiles
<1>10. ASSUME NEW s \in Session, ReadChangeFile(s) PROVE FilesInUse'
  BY <1>10, OperationType DEF ReadChangeFile, Raise, TypeOK, FilesInUse, Concerned, Others,
     InFlight
<1>11. ASSUME NEW s \in Session, ReadFails(s) PROVE FilesInUse'
  BY <1>11, OperationType DEF ReadFails, TypeOK, FilesInUse, Concerned, Others, InFlight
<1>12. ASSUME NEW s \in Session, ClearModified(s) PROVE FilesInUse'
  <2>1. ClearEffect(s)
    BY <1>12, ClearCases
  <2>2. PICK o \in Operation :
          /\ op' = Set(op, s, o) /\ disk' = disk
          /\ o = NoOp \/ (o.kind = op[s].kind /\ o.path = op[s].path /\ o.dest = op[s].dest)
    <3>1. \E o \in Operation :
            op' = Set(op, s, o) /\ disk' = disk /\ \E step : (ProceedTo(s, step, o) \/ o = NoOp)
      BY <2>1 DEF ClearEffect
    <3>2. PICK o \in Operation :
            op' = Set(op, s, o) /\ disk' = disk /\ \E step : (ProceedTo(s, step, o) \/ o = NoOp)
      BY <3>1, Zenon
    <3> QED BY <3>2, KeptFiles
  <2> QED BY <2>2, SameFiles
<1>13. ASSUME NEW s \in Session, OpenChangeFile(s) PROVE FilesInUse'
  BY <1>13, OperationType DEF OpenChangeFile, TypeOK, FilesInUse, Concerned, Others,
     InFlight
<1>14. ASSUME NEW s \in Session, LockChangeFile(s) PROVE FilesInUse'
  BY <1>14, OperationType DEF LockChangeFile, Collide, TypeOK, FilesInUse, Concerned,
     Others, InFlight
<1>15. ASSUME NEW s \in Session, LockTimesOut(s) PROVE FilesInUse'
  <2>1. op' = Set(op, s, NoOp) /\ disk' = disk
    BY <1>15, Zenon DEF LockTimesOut, Abandon
  <2> QED BY <2>1, SameFiles, Zenon
<1>16. ASSUME NEW s \in Session, AppendAdd(s) PROVE FilesInUse'
  BY <1>16, OperationType DEF AppendAdd, WriteLine, WriteLineCounting, TypeOK, FilesInUse,
     Concerned, Others, InFlight
<1>17. ASSUME NEW s \in Session, AppendRemove(s) PROVE FilesInUse'
  BY <1>17, OperationType DEF AppendRemove, WriteLine, WriteLineCounting, TypeOK,
     FilesInUse, Concerned, Others, InFlight
<1>18. ASSUME NEW s \in Session, EraseFails(s) PROVE FilesInUse'
  <2>1. op' = Set(op, s, NoOp) /\ disk' = disk
    BY <1>18, Zenon DEF EraseFails, Abandon
  <2> QED BY <2>1, SameFiles, Zenon
<1>19. ASSUME NEW s \in Session, UnlinkFile(s) PROVE FilesInUse'
  <2>0. /\ op[s].kind \in {"remove", "move"} /\ op[s].path \in Concerned(s)
        /\ Moving(s) => op[s].dest \in Concerned(s) /\ op[s].dest \in disk
        /\ \A t \in Others(s) : Concerned(s) \cap Concerned(t) = {}
    <3>1. Removing(s)
      BY <1>19 DEF UnlinkFile, Operating, OperatingAt
    <3> QED BY <3>1 DEF FilesInUse, Concerned
  <2> DEFINE o == NoOp
  <2>1. op' = Set(op, s, o) /\ o \in Operation
    BY <1>19, OperationType, <2>0, OperationType, SameOperation DEF UnlinkFile, Begin
  <2>2. /\ o.kind \in {"add", "remove"} => o.path \in disk'
        /\ o.kind = "move" => o.path \notin disk' /\ o.dest \in disk'
    BY <1>19, <2>0, OperationType, SameOperation DEF UnlinkFile
  <2>3. \A t \in Others(s) : \A r \in Concerned(t) :
          (r \in disk' <=> r \in disk) \/ (Adding(t) /\ r \in disk')
    BY <1>19, <2>0, OperationType, SameOperation DEF UnlinkFile, Others, InFlight
  <2>4. \A t \in Others(s) : FilesOf(o) \cap Concerned(t) # {} => o.kind = "add" /\ Adding(t)
    BY <1>19, <2>0, OperationType, SameOperation DEF UnlinkFile, Others, InFlight, FilesOf
  <2> HIDE DEF o
  <2> QED BY <2>1, <2>2, <2>3, <2>4, OtherFiles
<1>20. ASSUME NEW s \in Session, AddMovedFile(s) PROVE FilesInUse'
  <2>0. /\ op[s].kind \in {"remove", "move"} /\ op[s].path \in Concerned(s)
        /\ Moving(s) => op[s].dest \in Concerned(s) /\ op[s].dest \in disk
        /\ \A t \in Others(s) : Concerned(s) \cap Concerned(t) = {}
    <3>1. Removing(s)
      BY <1>20 DEF AddMovedFile, Operating, OperatingAt
    <3> QED BY <3>1 DEF FilesInUse, Concerned
  <2> DEFINE o == Op("add", op[s].dest, None)
  <2>1. op' = Set(op, s, o) /\ o \in Operation
    BY <1>20, OperationType, <2>0, OperationType, SameOperation DEF AddMovedFile, Begin
  <2>2. /\ o.kind \in {"add", "remove"} => o.path \in disk'
        /\ o.kind = "move" => o.path \notin disk' /\ o.dest \in disk'
    BY <1>20, <2>0, OperationType, SameOperation DEF AddMovedFile
  <2>3. \A t \in Others(s) : \A r \in Concerned(t) :
          (r \in disk' <=> r \in disk) \/ (Adding(t) /\ r \in disk')
    BY <1>20, <2>0, OperationType, SameOperation DEF AddMovedFile, Others, InFlight
  <2>4. \A t \in Others(s) : FilesOf(o) \cap Concerned(t) # {} => o.kind = "add" /\ Adding(t)
    BY <1>20, <2>0, OperationType, SameOperation DEF AddMovedFile, Others, InFlight, FilesOf
  <2> HIDE DEF o
  <2> QED BY <2>1, <2>2, <2>3, <2>4, OtherFiles
<1>21. ASSUME NEW s \in Session, ScanDisk(s) PROVE FilesInUse'
  BY <1>21, OperationType DEF ScanDisk, TypeOK, FilesInUse, Concerned, Others, InFlight
<1>22. ASSUME NEW s \in Session, WriteTmp(s) PROVE FilesInUse'
  BY <1>22, OperationType DEF WriteTmp, TypeOK, FilesInUse, Concerned, Others, InFlight
<1>23. ASSUME NEW s \in Session, DeleteBase(s) PROVE FilesInUse'
  BY <1>23, OperationType DEF DeleteBase, NoFile, TypeOK, FilesInUse, Concerned, Others,
     InFlight
<1>24. ASSUME NEW s \in Session, MoveTmp(s) PROVE FilesInUse'
  <2>1. MoveTmpEffect(s)
    BY <1>24, MoveTmpCases
  <2>2. PICK o \in Operation :
          /\ op' = Set(op, s, o) /\ disk' = disk
          /\ o = NoOp \/ (o.kind = op[s].kind /\ o.path = op[s].path /\ o.dest = op[s].dest)
    <3>1. \E o \in Operation :
            op' = Set(op, s, o) /\ disk' = disk /\ \E step : MoveTmpTo(s, step, o)
      BY <2>1 DEF MoveTmpEffect
    <3>2. PICK o \in Operation :
            op' = Set(op, s, o) /\ disk' = disk /\ \E step : MoveTmpTo(s, step, o)
      BY <3>1, Zenon
    <3> QED BY <3>2, KeptFiles
  <2> QED BY <2>2, SameFiles
<1>25. ASSUME NEW s \in Session, DeleteChanges(s) PROVE FilesInUse'
  <2>1. DeleteChangesEffect(s)
    BY <1>25, DeleteChangesCases
  <2>2. PICK o \in Operation :
          /\ op' = Set(op, s, o) /\ disk' = disk
          /\ o = NoOp \/ (o.kind = op[s].kind /\ o.path = op[s].path /\ o.dest = op[s].dest)
    <3>1. \E o \in Operation :
            op' = Set(op, s, o) /\ disk' = disk /\ \E step : RebuiltTo(s, step, o)
      BY <2>1 DEF DeleteChangesEffect
    <3>2. PICK o \in Operation :
            op' = Set(op, s, o) /\ disk' = disk /\ \E step : RebuiltTo(s, step, o)
      BY <3>1, Zenon
    <3> QED BY <3>2, KeptFiles
  <2> QED BY <2>2, SameFiles
<1>26. CASE UNCHANGED vars
  BY <1>26 DEF TypeOK, FilesInUse, Concerned, Others, InFlight
<1> QED BY <1>1, <1>2, <1>3, <1>4, <1>5, <1>6, <1>7, <1>8, <1>9, <1>10, <1>11, <1>12, <1>13,
       <1>14, <1>15, <1>16, <1>17, <1>18, <1>19, <1>20, <1>21, <1>22, <1>23, <1>24, <1>25,
       <1>26 DEF Next, Step

\* A session that does something with its database knows that no rebuild is
\* under way, unless sessions get into each other's way.
LEMMA NobodyRebuilds ==
  ASSUME Operating, Rebuilt, NEW s \in Session, ~ collided, ~ PastScan(s),
         loaded[s] \/ event[s] \/ pc[s] \notin {"idle", "scan"}
  PROVE  \A t \in Session : ~ PastScan(t)
BY DEF Rebuilt, Operating, OperatingAt, Others

\* It does not begin one either.
LEMMA NobodyBegins ==
  ASSUME TypeOK, NEW s \in Session, NEW step, step \notin RebuildSteps \ {"scan"},
         pc' = Set(pc, s, step), \A t \in Session : ~ PastScan(t)
  PROVE  \A t \in Session : ~ PastScan(t)'
BY DEF TypeOK, Set, PastScan, Rebuilding, RebuildSteps
\* Who begins while somebody rebuilds gets in the way.
LEMMA BeginsFree ==
  ASSUME TypeOK, NEW s \in Session, NEW o, Begin(s, o), ~ collided'
  PROVE  /\ ~ collided /\ \A t \in Session : ~ Rebuilding(t)
         /\ \A t \in Session : ~ Rebuilding(t)' /\ ~ PastScan(t)'
<1>1. ~ collided /\ \A t \in Session : ~ Rebuilding(t)
  BY Zenon DEF Begin, Collide
<1>2. \E step \in {"stat", "load"} : pc' = Set(pc, s, step)
  BY DEF Begin, Goto, Set
<1>3. \A t \in Session : ~ Rebuilding(t)'
  BY <1>1, <1>2 DEF TypeOK, Set, Rebuilding, RebuildSteps
<1> QED BY <1>1, <1>3 DEF PastScan

\* The flag is tested: nothing gets out of the way by that.
LEMMA StatCollides ==
  ASSUME NEW s \in Session, StatChangeFile(s), ~ collided'
  PROVE  ~ collided /\ (modified[s] \/ ~ Stale(s) \/ ~ Checks(s))
BY Zenon DEF StatChangeFile, Collide

\* What has been achieved at each step of a rebuild.
LEMMA RebuiltStep ==
  ASSUME TypeOK, Operating, Rebuilt, [Next]_vars
  PROVE  Rebuilt'
<1> USE DEF vars, diskVars, sessionVars, historyVars, Goto, Set, Done, Op, NoOp
<1>1. ASSUME NEW s \in Session, Query(s) PROVE Rebuilt'
  <2> SUFFICES ASSUME ~ collided' PROVE \A t \in Session : ~ PastScan(t)'
    BY DEF Rebuilt
  <2> QED BY <1>1, BeginsFree DEF Query
<1>2. ASSUME NEW s \in Session, Refresh(s) PROVE Rebuilt'
  BY <1>2 DEF Refresh, TypeOK, Rebuilt, Operating, OperatingAt, PastScan, Rebuilding,
     RebuildSteps, ApplySteps, UpdateSteps, Others
<1>3. ASSUME NEW s \in Session, Deliver(s) PROVE Rebuilt'
  BY <1>3 DEF Deliver, TypeOK, Rebuilt, Operating, OperatingAt, PastScan, Rebuilding,
     RebuildSteps, ApplySteps, UpdateSteps, Others
<1>4. ASSUME NEW s \in Session, Exit(s) PROVE Rebuilt'
  BY <1>4 DEF Exit, Abandon, Unload, Collide, TypeOK, Rebuilt, Operating, OperatingAt,
     PastScan, Rebuilding, RebuildSteps, ApplySteps, UpdateSteps, Others
<1>5. ASSUME NEW s \in Session, NEW p \in Path, AddFile(s, p) PROVE Rebuilt'
  <2> SUFFICES ASSUME ~ collided' PROVE \A t \in Session : ~ PastScan(t)'
    BY DEF Rebuilt
  <2> QED BY <1>5, BeginsFree DEF AddFile
<1>6. ASSUME NEW s \in Session, NEW p \in Path, RemoveFile(s, p) PROVE Rebuilt'
  <2> SUFFICES ASSUME ~ collided' PROVE \A t \in Session : ~ PastScan(t)'
    BY DEF Rebuilt
  <2> QED BY <1>6, BeginsFree DEF RemoveFile
<1>7. ASSUME NEW s \in Session, NEW p \in Path, NEW q \in Path, MoveFile(s, p, q) PROVE Rebuilt'
  <2> SUFFICES ASSUME ~ collided' PROVE \A t \in Session : ~ PastScan(t)'
    BY DEF Rebuilt
  <2> QED BY <1>7, BeginsFree DEF MoveFile
<1>8. ASSUME NEW s \in Session, Load(s) PROVE Rebuilt'
  <2> SUFFICES ASSUME ~ collided' PROVE \A t \in Session : ~ PastScan(t)'
    BY DEF Rebuilt
  <2>1. \E step \in {"idle", "stat", "recordGone", "scan"} : pc' = Set(pc, s, step)
    <3>1. CASE base.exists
      BY <1>8, <3>1, LoadCases DEF LoadEffect
    <3>2. CASE ~ base.exists
      BY <1>8, <3>2, NoLoadCases DEF NoLoadEffect
    <3> QED BY <3>1, <3>2
  <2>2. ~ collided /\ ~ PastScan(s) /\ pc[s] \notin {"idle", "scan"}
    BY <1>8 DEF Load, PastScan, Rebuilding, RebuildSteps
  <2>3. \A t \in Session : ~ PastScan(t)
    BY <2>2, NobodyRebuilds
  <2> QED BY <2>1, <2>3, NobodyBegins DEF RebuildSteps
<1>9. ASSUME NEW s \in Session, StatChangeFile(s) PROVE Rebuilt'
  <2> SUFFICES ASSUME ~ collided' PROVE \A t \in Session : ~ PastScan(t)'
    BY DEF Rebuilt
  <2>1. \E step \in {"idle", "stat", "open", "recordGone", "scan", "read", "clear"} : pc' = Set(pc, s, step)
    BY <1>9, StatCases DEF StatEffect
  <2>2. ~ collided /\ ~ PastScan(s) /\ pc[s] \notin {"idle", "scan"}
    BY <1>9, StatCases, StatCollides DEF StatEffect, PastScan, Rebuilding, RebuildSteps
  <2>3. \A t \in Session : ~ PastScan(t)
    BY <2>2, NobodyRebuilds
  <2> QED BY <2>1, <2>3, NobodyBegins DEF RebuildSteps
<1>10. ASSUME NEW s \in Session, ReadChangeFile(s) PROVE Rebuilt'
  <2> SUFFICES ASSUME ~ collided' PROVE \A t \in Session : ~ PastScan(t)'
    BY DEF Rebuilt
  <2>1. \E step \in {"clear", "raise"} : pc' = Set(pc, s, step)
    BY <1>10 DEF ReadChangeFile, Raise
  <2>2. ~ collided /\ ~ PastScan(s) /\ pc[s] \notin {"idle", "scan"}
    BY <1>10 DEF ReadChangeFile, PastScan, Rebuilding, RebuildSteps
  <2>3. \A t \in Session : ~ PastScan(t)
    BY <2>2, NobodyRebuilds
  <2> QED BY <2>1, <2>3, NobodyBegins DEF RebuildSteps
<1>11. ASSUME NEW s \in Session, ReadFails(s) PROVE Rebuilt'
  <2> SUFFICES ASSUME ~ collided' PROVE \A t \in Session : ~ PastScan(t)'
    BY DEF Rebuilt
  <2>1. \E step \in {"raise"} : pc' = Set(pc, s, step)
    BY <1>11 DEF ReadFails
  <2>2. ~ collided /\ ~ PastScan(s) /\ pc[s] \notin {"idle", "scan"}
    BY <1>11 DEF ReadFails, PastScan, Rebuilding, RebuildSteps
  <2>3. \A t \in Session : ~ PastScan(t)
    BY <2>2, NobodyRebuilds
  <2> QED BY <2>1, <2>3, NobodyBegins DEF RebuildSteps
<1>12. ASSUME NEW s \in Session, ClearModified(s) PROVE Rebuilt'
  <2> SUFFICES ASSUME ~ collided' PROVE \A t \in Session : ~ PastScan(t)'
    BY DEF Rebuilt
  <2>1. \E step \in {"idle", "stat", "open", "recordGone", "scan"} : pc' = Set(pc, s, step)
    BY <1>12, ClearCases DEF ClearEffect
  <2>2. ~ collided /\ ~ PastScan(s) /\ pc[s] \notin {"idle", "scan"}
    BY <1>12, ClearCases DEF ClearModified, Collide, PastScan, Rebuilding, RebuildSteps
  <2>3. \A t \in Session : ~ PastScan(t)
    BY <2>2, NobodyRebuilds
  <2> QED BY <2>1, <2>3, NobodyBegins DEF RebuildSteps
<1>13. ASSUME NEW s \in Session, OpenChangeFile(s) PROVE Rebuilt'
  <2> SUFFICES ASSUME ~ collided' PROVE \A t \in Session : ~ PastScan(t)'
    BY DEF Rebuilt
  <2>1. \E step \in {"lock"} : pc' = Set(pc, s, step)
    BY <1>13 DEF OpenChangeFile
  <2>2. ~ collided /\ ~ PastScan(s) /\ pc[s] \notin {"idle", "scan"}
    BY <1>13 DEF OpenChangeFile, PastScan, Rebuilding, RebuildSteps
  <2>3. \A t \in Session : ~ PastScan(t)
    BY <2>2, NobodyRebuilds
  <2> QED BY <2>1, <2>3, NobodyBegins DEF RebuildSteps
<1>14. ASSUME NEW s \in Session, LockChangeFile(s) PROVE Rebuilt'
  <2> SUFFICES ASSUME ~ collided' PROVE \A t \in Session : ~ PastScan(t)'
    BY DEF Rebuilt
  <2>1. \E step \in {"append"} : pc' = Set(pc, s, step)
    BY <1>14 DEF LockChangeFile, Collide
  <2>2. ~ collided /\ ~ PastScan(s) /\ pc[s] \notin {"idle", "scan"}
    BY <1>14 DEF LockChangeFile, Collide, PastScan, Rebuilding, RebuildSteps
  <2>3. \A t \in Session : ~ PastScan(t)
    BY <2>2, NobodyRebuilds
  <2> QED BY <2>1, <2>3, NobodyBegins DEF RebuildSteps
<1>15. ASSUME NEW s \in Session, LockTimesOut(s) PROVE Rebuilt'
  <2> SUFFICES ASSUME ~ collided' PROVE \A t \in Session : ~ PastScan(t)'
    BY DEF Rebuilt
  <2>1. \E step \in {"idle"} : pc' = Set(pc, s, step)
    BY <1>15 DEF LockTimesOut, Abandon
  <2>2. ~ collided /\ ~ PastScan(s) /\ pc[s] \notin {"idle", "scan"}
    BY <1>15 DEF LockTimesOut, PastScan, Rebuilding, RebuildSteps
  <2>3. \A t \in Session : ~ PastScan(t)
    BY <2>2, NobodyRebuilds
  <2> QED BY <2>1, <2>3, NobodyBegins DEF RebuildSteps
<1>16. ASSUME NEW s \in Session, AppendAdd(s) PROVE Rebuilt'
  <2> SUFFICES ASSUME ~ collided' PROVE \A t \in Session : ~ PastScan(t)'
    BY DEF Rebuilt
  <2>1. \E step \in {"idle"} : pc' = Set(pc, s, step)
    BY <1>16 DEF AppendAdd, WriteLine, WriteLineCounting
  <2>2. ~ collided /\ ~ PastScan(s) /\ pc[s] \notin {"idle", "scan"}
    BY <1>16 DEF AppendAdd, PastScan, Rebuilding, RebuildSteps
  <2>3. \A t \in Session : ~ PastScan(t)
    BY <2>2, NobodyRebuilds
  <2> QED BY <2>1, <2>3, NobodyBegins DEF RebuildSteps
<1>17. ASSUME NEW s \in Session, AppendRemove(s) PROVE Rebuilt'
  <2> SUFFICES ASSUME ~ collided' PROVE \A t \in Session : ~ PastScan(t)'
    BY DEF Rebuilt
  <2>1. \E step \in {"recordGone"} : pc' = Set(pc, s, step)
    BY <1>17 DEF AppendRemove, WriteLine, WriteLineCounting
  <2>2. ~ collided /\ ~ PastScan(s) /\ pc[s] \notin {"idle", "scan"}
    BY <1>17 DEF AppendRemove, PastScan, Rebuilding, RebuildSteps
  <2>3. \A t \in Session : ~ PastScan(t)
    BY <2>2, NobodyRebuilds
  <2> QED BY <2>1, <2>3, NobodyBegins DEF RebuildSteps
<1>18. ASSUME NEW s \in Session, EraseFails(s) PROVE Rebuilt'
  <2> SUFFICES ASSUME ~ collided' PROVE \A t \in Session : ~ PastScan(t)'
    BY DEF Rebuilt
  <2>1. \E step \in {"idle"} : pc' = Set(pc, s, step)
    BY <1>18 DEF EraseFails, Raise, Abandon
  <2>2. ~ collided /\ ~ PastScan(s) /\ pc[s] \notin {"idle", "scan"}
    BY <1>18 DEF EraseFails, PastScan, Rebuilding, RebuildSteps
  <2>3. \A t \in Session : ~ PastScan(t)
    BY <2>2, NobodyRebuilds
  <2> QED BY <2>1, <2>3, NobodyBegins DEF RebuildSteps
<1>19. ASSUME NEW s \in Session, UnlinkFile(s) PROVE Rebuilt'
  <2> SUFFICES ASSUME ~ collided' PROVE \A t \in Session : ~ PastScan(t)'
    BY DEF Rebuilt
  <2>1. \E step \in {"idle"} : pc' = Set(pc, s, step)
    BY <1>19 DEF UnlinkFile
  <2>2. ~ collided /\ ~ PastScan(s) /\ pc[s] \notin {"idle", "scan"}
    BY <1>19 DEF UnlinkFile, PastScan, Rebuilding, RebuildSteps
  <2>3. \A t \in Session : ~ PastScan(t)
    BY <2>2, NobodyRebuilds
  <2> QED BY <2>1, <2>3, NobodyBegins DEF RebuildSteps
<1>20. ASSUME NEW s \in Session, AddMovedFile(s) PROVE Rebuilt'
  <2> SUFFICES ASSUME ~ collided' PROVE \A t \in Session : ~ PastScan(t)'
    BY DEF Rebuilt
  <2>1. \E step \in {"stat", "load"} : pc' = Set(pc, s, step)
    BY <1>20 DEF AddMovedFile
  <2>2. ~ collided /\ ~ PastScan(s) /\ pc[s] \notin {"idle", "scan"}
    BY <1>20 DEF AddMovedFile, PastScan, Rebuilding, RebuildSteps
  <2>3. \A t \in Session : ~ PastScan(t)
    BY <2>2, NobodyRebuilds
  <2> QED BY <2>1, <2>3, NobodyBegins DEF RebuildSteps
<1>21. ASSUME NEW s \in Session, ScanDisk(s) PROVE Rebuilt'
  BY <1>21 DEF ScanDisk, TypeOK, Rebuilt, Operating, OperatingAt, PastScan, Rebuilding,
     RebuildSteps, ApplySteps, UpdateSteps, Others
<1>22. ASSUME NEW s \in Session, WriteTmp(s) PROVE Rebuilt'
  BY <1>22 DEF WriteTmp, TypeOK, Rebuilt, Operating, OperatingAt, PastScan, Rebuilding,
     RebuildSteps, ApplySteps, UpdateSteps, Others
<1>23. ASSUME NEW s \in Session, DeleteBase(s) PROVE Rebuilt'
  BY <1>23 DEF DeleteBase, NoFile, TypeOK, Rebuilt, Operating, OperatingAt, PastScan,
     Rebuilding, RebuildSteps, ApplySteps, UpdateSteps, Others
<1>24. ASSUME NEW s \in Session, MoveTmp(s) PROVE Rebuilt'
  <2>1. MoveTmpEffect(s)
    BY <1>24, MoveTmpCases
  <2> QED BY <2>1 DEF MoveTmpEffect, MoveTmpTo, TypeOK, Rebuilt, Operating, OperatingAt,
         PastScan, Rebuilding, RebuildSteps, ApplySteps, UpdateSteps, Others
<1>25. ASSUME NEW s \in Session, DeleteChanges(s) PROVE Rebuilt'
  <2>1. DeleteChangesEffect(s)
    BY <1>25, DeleteChangesCases
  <2> QED BY <2>1 DEF DeleteChangesEffect, RebuiltTo, TypeOK, Rebuilt, Operating,
         OperatingAt, PastScan, Rebuilding, RebuildSteps, ApplySteps, UpdateSteps, Others
<1>26. CASE UNCHANGED vars
  BY <1>26 DEF TypeOK, Rebuilt, Operating, OperatingAt, PastScan, Rebuilding, RebuildSteps,
     ApplySteps, UpdateSteps, Others
<1> QED BY <1>1, <1>2, <1>3, <1>4, <1>5, <1>6, <1>7, <1>8, <1>9, <1>10, <1>11, <1>12, <1>13,
       <1>14, <1>15, <1>16, <1>17, <1>18, <1>19, <1>20, <1>21, <1>22, <1>23, <1>24, <1>25,
       <1>26 DEF Next, Step

\* Only the end of a rebuild clears the way.
LEMMA FreeStep ==
  ASSUME TypeOK, Operating, Rebuilt, Free', [Next]_vars
  PROVE  Free \/ \E s \in Session : DeleteChanges(s)
<1> DEFINE Cleared == Free \/ \E s \in Session : DeleteChanges(s)
<1> USE DEF vars, diskVars, sessionVars, historyVars, Goto, Set, Done, Op, NoOp
<1>1. ASSUME NEW s \in Session, Query(s) PROVE Cleared
  BY <1>1, BeginsFree DEF Query, Free, PastScan
<1>2. ASSUME NEW s \in Session, Refresh(s) PROVE Cleared
  BY <1>2 DEF Refresh, Free, TypeOK, Rebuilt, Operating, OperatingAt, PastScan, Rebuilding,
     RebuildSteps, ApplySteps, UpdateSteps, Others
<1>3. ASSUME NEW s \in Session, Deliver(s) PROVE Cleared
  BY <1>3 DEF Deliver, Free, TypeOK, Rebuilt, Operating, OperatingAt, PastScan, Rebuilding,
     RebuildSteps, ApplySteps, UpdateSteps, Others
<1>4. ASSUME NEW s \in Session, Exit(s) PROVE Cleared
  <2>1. ~ collided /\ ~ PastScan(s) /\ pc' = [pc EXCEPT ![s] = "idle"]
    BY <1>4 DEF Exit, Abandon, Collide, Free, PastScan
  <2>2. \A t \in Session : t # s => (PastScan(t)' <=> PastScan(t))
    BY <2>1 DEF TypeOK, PastScan, Rebuilding
  <2> QED BY <2>1, <2>2 DEF Free
<1>5. ASSUME NEW s \in Session, NEW p \in Path, AddFile(s, p) PROVE Cleared
  BY <1>5, BeginsFree DEF AddFile, Free, PastScan
<1>6. ASSUME NEW s \in Session, NEW p \in Path, RemoveFile(s, p) PROVE Cleared
  BY <1>6, BeginsFree DEF RemoveFile, Free, PastScan
<1>7. ASSUME NEW s \in Session, NEW p \in Path, NEW q \in Path, MoveFile(s, p, q) PROVE Cleared
  BY <1>7, BeginsFree DEF MoveFile, Free, PastScan
<1>8. ASSUME NEW s \in Session, Load(s) PROVE Cleared
  <2>1. ~ collided /\ ~ PastScan(s) /\ pc[s] \notin {"idle", "scan"}
    BY <1>8 DEF Load, Free, PastScan, Rebuilding, RebuildSteps
  <2> QED BY <2>1, NobodyRebuilds DEF Free
<1>9. ASSUME NEW s \in Session, StatChangeFile(s) PROVE Cleared
  <2>1. ~ collided /\ ~ PastScan(s) /\ pc[s] \notin {"idle", "scan"}
    BY <1>9, StatCollides DEF StatChangeFile, Free, PastScan, Rebuilding, RebuildSteps
  <2> QED BY <2>1, NobodyRebuilds DEF Free
<1>10. ASSUME NEW s \in Session, ReadChangeFile(s) PROVE Cleared
  <2>1. ~ collided /\ ~ PastScan(s) /\ pc[s] \notin {"idle", "scan"}
    BY <1>10 DEF ReadChangeFile, Free, PastScan, Rebuilding, RebuildSteps
  <2> QED BY <2>1, NobodyRebuilds DEF Free
<1>11. ASSUME NEW s \in Session, ReadFails(s) PROVE Cleared
  <2>1. ~ collided /\ ~ PastScan(s) /\ pc[s] \notin {"idle", "scan"}
    BY <1>11 DEF ReadFails, Free, PastScan, Rebuilding, RebuildSteps
  <2> QED BY <2>1, NobodyRebuilds DEF Free
<1>12. ASSUME NEW s \in Session, ClearModified(s) PROVE Cleared
  <2>1. ~ collided /\ ~ PastScan(s) /\ pc[s] \notin {"idle", "scan"}
    BY <1>12 DEF ClearModified, Collide, Free, PastScan, Rebuilding, RebuildSteps
  <2> QED BY <2>1, NobodyRebuilds DEF Free
<1>13. ASSUME NEW s \in Session, OpenChangeFile(s) PROVE Cleared
  <2>1. ~ collided /\ ~ PastScan(s) /\ pc[s] \notin {"idle", "scan"}
    BY <1>13 DEF OpenChangeFile, Free, PastScan, Rebuilding, RebuildSteps
  <2> QED BY <2>1, NobodyRebuilds DEF Free
<1>14. ASSUME NEW s \in Session, LockChangeFile(s) PROVE Cleared
  <2>1. ~ collided /\ ~ PastScan(s) /\ pc[s] \notin {"idle", "scan"}
    BY <1>14 DEF LockChangeFile, Collide, Free, PastScan, Rebuilding, RebuildSteps
  <2> QED BY <2>1, NobodyRebuilds DEF Free
<1>15. ASSUME NEW s \in Session, LockTimesOut(s) PROVE Cleared
  <2>1. ~ collided /\ ~ PastScan(s) /\ pc[s] \notin {"idle", "scan"}
    BY <1>15 DEF LockTimesOut, Free, PastScan, Rebuilding, RebuildSteps
  <2> QED BY <2>1, NobodyRebuilds DEF Free
<1>16. ASSUME NEW s \in Session, AppendAdd(s) PROVE Cleared
  <2>1. ~ collided /\ ~ PastScan(s) /\ pc[s] \notin {"idle", "scan"}
    BY <1>16 DEF AppendAdd, Free, PastScan, Rebuilding, RebuildSteps
  <2> QED BY <2>1, NobodyRebuilds DEF Free
<1>17. ASSUME NEW s \in Session, AppendRemove(s) PROVE Cleared
  <2>1. ~ collided /\ ~ PastScan(s) /\ pc[s] \notin {"idle", "scan"}
    BY <1>17 DEF AppendRemove, Free, PastScan, Rebuilding, RebuildSteps
  <2> QED BY <2>1, NobodyRebuilds DEF Free
<1>18. ASSUME NEW s \in Session, EraseFails(s) PROVE Cleared
  <2>1. ~ collided /\ ~ PastScan(s) /\ pc[s] \notin {"idle", "scan"}
    BY <1>18 DEF EraseFails, Free, PastScan, Rebuilding, RebuildSteps
  <2> QED BY <2>1, NobodyRebuilds DEF Free
<1>19. ASSUME NEW s \in Session, UnlinkFile(s) PROVE Cleared
  <2>1. ~ collided /\ ~ PastScan(s) /\ pc[s] \notin {"idle", "scan"}
    BY <1>19 DEF UnlinkFile, Free, PastScan, Rebuilding, RebuildSteps
  <2> QED BY <2>1, NobodyRebuilds DEF Free
<1>20. ASSUME NEW s \in Session, AddMovedFile(s) PROVE Cleared
  <2>1. ~ collided /\ ~ PastScan(s) /\ pc[s] \notin {"idle", "scan"}
    BY <1>20 DEF AddMovedFile, Free, PastScan, Rebuilding, RebuildSteps
  <2> QED BY <2>1, NobodyRebuilds DEF Free
<1>21. ASSUME NEW s \in Session, ScanDisk(s) PROVE Cleared
  BY <1>21 DEF ScanDisk, Free, TypeOK, Rebuilt, Operating, OperatingAt, PastScan,
     Rebuilding, RebuildSteps, ApplySteps, UpdateSteps, Others
<1>22. ASSUME NEW s \in Session, WriteTmp(s) PROVE Cleared
  BY <1>22 DEF WriteTmp, Free, TypeOK, Rebuilt, Operating, OperatingAt, PastScan,
     Rebuilding, RebuildSteps, ApplySteps, UpdateSteps, Others
<1>23. ASSUME NEW s \in Session, DeleteBase(s) PROVE Cleared
  BY <1>23 DEF DeleteBase, NoFile, Free, TypeOK, Rebuilt, Operating, OperatingAt, PastScan,
     Rebuilding, RebuildSteps, ApplySteps, UpdateSteps, Others
<1>24. ASSUME NEW s \in Session, MoveTmp(s) PROVE Cleared
  <2>1. MoveTmpEffect(s)
    BY <1>24, MoveTmpCases
  <2> QED BY <2>1 DEF MoveTmpEffect, MoveTmpTo, Free, TypeOK, Rebuilt, Operating,
         OperatingAt, PastScan, Rebuilding, RebuildSteps, ApplySteps, UpdateSteps, Others
<1>25. ASSUME NEW s \in Session, DeleteChanges(s) PROVE Cleared
  BY <1>25
<1>26. CASE UNCHANGED vars
  BY <1>26 DEF Free, TypeOK, Rebuilt, Operating, OperatingAt, PastScan, Rebuilding,
     RebuildSteps, ApplySteps, UpdateSteps, Others
<1> QED BY <1>1, <1>2, <1>3, <1>4, <1>5, <1>6, <1>7, <1>8, <1>9, <1>10, <1>11, <1>12, <1>13,
       <1>14, <1>15, <1>16, <1>17, <1>18, <1>19, <1>20, <1>21, <1>22, <1>23, <1>24, <1>25,
       <1>26 DEF Next, Step

\* The end of a rebuild that nobody has disturbed.
LEMMA AfterRebuild ==
  ASSUME TypeOK, Operating, Rebuilt, NEW s \in Session, DeleteChanges(s), ~ collided'
  PROVE  /\ base'.exists /\ base'.files = disk' /\ changes'.lines = <<>> /\ Index' = disk'
         /\ \A t \in Session : ~ loaded'[t] /\ pc'[t] \in {"idle", "scan", "load"}
         /\ \A t \in Session : op'[t].kind \in {"none", "rebuild", "add"}
         /\ orphan' = {}
<1>1. DeleteChangesEffect(s)
  BY DeleteChangesCases
<1>2. PastScan(s) /\ ~ collided /\ pc[s] = "deleteChanges"
  BY <1>1 DEF DeleteChangesEffect, PastScan, Rebuilding, RebuildSteps
<1>3. /\ base.exists /\ base.files = disk
      /\ \A t \in Session : t # s => ~ loaded[t] /\ pc[t] \in {"idle", "scan"}
                                     /\ op[t].kind \in {"none", "rebuild"}
  BY <1>2 DEF Rebuilt, Others
<1>4. ~ loaded[s]
  BY <1>2 DEF Operating, OperatingAt
<1>5. base' = base /\ disk' = disk /\ loaded' = loaded /\ changes'.lines = <<>>
  BY <1>1 DEF DeleteChangesEffect, NoChanges
<1>6. Index' = disk'
  <2>1. <<>> \in Seq(Line) /\ Len(<<>>) = 0 /\ 0 \in 0..Len(<<>>)
    OBVIOUS
  <2>2. Views(base.files, 0, <<>>)[0] = base.files
    BY <2>1, ViewsDef, Zenon
  <2> QED BY <1>3, <1>5, <2>1, <2>2 DEF Index, Replay
<1>7. PICK step \in {"idle", "load"}, o \in Operation :
        pc' = Set(pc, s, step) /\ op' = Set(op, s, o) /\ RebuiltTo(s, step, o)
  BY <1>1 DEF DeleteChangesEffect
<1>8. o.kind \in {"none", "rebuild", "add"}
  BY <1>7 DEF RebuiltTo, Updating, NoOp, Op
<1>9. \A t \in Session : /\ pc'[t] \in {"idle", "scan", "load"}
                         /\ op'[t].kind \in {"none", "rebuild", "add"}
  BY <1>3, <1>7, <1>8 DEF TypeOK, Set
<1>10. orphan' = {}
  BY <1>1, <1>2, <1>3 DEF DeleteChangesEffect, TypeOK
<1> QED BY <1>3, <1>4, <1>5, <1>6, <1>9, <1>10

\* Who has applied all lines has the whole index in memory.
LEMMA UpToDate ==
  ASSUME TypeOK, Free, Readable, NEW s \in Session, loaded[s], ~ Stale(s)
  PROVE  view[s] = Index /\ offset[s] = Size(changes.lines)
<1>1. changes.lines \in Seq(Line)
  BY DEF TypeOK
<1>2. PICK k \in 0..Len(changes.lines) : Applied(s, k)
  BY DEF Readable
<1>3. offset[s] = Size(changes.lines) /\ offset[s] = Starts(changes.lines)[k]
  BY <1>2 DEF Stale, Applied
<1>4. k = Len(changes.lines)
  <2>1. /\ \A i \in 0..Len(changes.lines) : Starts(changes.lines)[i] \in Nat
        /\ \A i, j \in 0..Len(changes.lines) :
             i < j => Starts(changes.lines)[i] < Starts(changes.lines)[j]
    BY <1>1, StartsGrow
  <2>2. Len(changes.lines) \in 0..Len(changes.lines) /\ k <= Len(changes.lines)
    BY <1>1
  <2>3. Starts(changes.lines)[k] = Starts(changes.lines)[Len(changes.lines)]
    BY <1>3 DEF Size
  <2> QED BY <2>1, <2>2, <2>3
<1> QED BY <1>2, <1>3, <1>4 DEF Applied, AllViews, Index, Replay

\* Writing a line when nobody is in the way: the session that writes is up to
\* date, and stays so.
LEMMA Writing ==
  ASSUME TypeOK, Operating, Free, Readable, Appending, NEW s \in Session, pc[s] = "append",
         NEW r \in Line, WriteLine(s, r), base' = base
  PROVE  /\ view[s] = Index /\ changes'.lines = Append(changes.lines, r)
         /\ changes'.exists = changes.exists
         /\ Index' = ApplyLine(Index, r)
         /\ view' = Set(view, s, Index') /\ offset' = Set(offset, s, Size(changes'.lines))
         /\ event' = [t \in Session |-> event[t] \/ loaded[t]] /\ orphan' = {}
         /\ \A t \in Session : t # s => pc[t] # "append"
<1>1. /\ loaded[s] /\ ~ Stale(s) /\ orphan = {} /\ WriteLocked = {s}
  BY DEF Operating, OperatingAt, Appending
<1>2. view[s] = Index /\ offset[s] = Size(changes.lines)
  BY <1>1, UpToDate
<1>3. /\ changes' = [changes EXCEPT !.lines = Append(changes.lines, r)]
      /\ view' = Set(view, s, ApplyLine(view[s], r))
      /\ offset' = Set(offset, s, offset[s] + Length(r))
      /\ event' = [t \in Session |-> event[t] \/ loaded[t]] /\ orphan' = orphan \ {s}
  BY <1>1, Zenon DEF WriteLine, WriteLineCounting
<1>4. changes'.lines = Append(changes.lines, r) /\ changes'.exists = changes.exists
  BY <1>3 DEF TypeOK
<1>5. changes.lines \in Seq(Line)
  BY DEF TypeOK
<1>6. /\ Size(Append(changes.lines, r)) = Size(changes.lines) + Length(r)
      /\ Replay(base.files, Append(changes.lines, r)) = ApplyLine(Replay(base.files, changes.lines), r)
  BY <1>5, AppendLine
<1>7. Index' = ApplyLine(Index, r)
  BY <1>4, <1>6 DEF Index
<1>8. \A t \in Session : t # s => pc[t] # "append"
  BY <1>1 DEF WriteLocked
<1> QED BY <1>1, <1>2, <1>3, <1>4, <1>6, <1>7, <1>8

\* The line that is written can be read.
LEMMA WritingReadable ==
  ASSUME TypeOK, Operating, Free, Readable, Appending, NEW s \in Session, pc[s] = "append",
         NEW r \in Line, WriteLine(s, r), base' = base, loaded' = loaded,
         r.kind = "-" => r.path \in Index
  PROVE  Readable'
<1> DEFINE lines == changes.lines
           more == changes'.lines
           n == Len(lines)
<1>1. /\ view[s] = Index /\ more = Append(lines, r) /\ Index' = ApplyLine(Index, r)
      /\ view' = Set(view, s, Index') /\ offset' = Set(offset, s, Size(more))
  BY Writing
<1>2. lines \in Seq(Line) /\ n \in Nat /\ base.files = base'.files
  BY DEF TypeOK
<1>3. /\ more \in Seq(Line) /\ Len(more) = n + 1 /\ more[n + 1] = r
      /\ \A j \in 1..n : more[j] = lines[j]
      /\ \A k \in 0..n : Starts(more)[k] = Starts(lines)[k] /\ AllViews'[k] = AllViews[k]
  BY <1>1, <1>2, AppendLine DEF AllViews
<1>4. /\ base.exists
      /\ \A j \in 1..n : ~ BadLine(AllViews, lines, j)
      /\ \A t \in Session : loaded[t] => \E k \in 0..n : Applied(t, k)
  BY DEF Readable
<1>5. AllViews[n] = Index
  BY DEF AllViews, Index, Replay
<1>6. AllViews'[n + 1] = Index' /\ Starts(more)[n + 1] = Size(more)
  BY <1>3 DEF AllViews, Index, Replay, Size
<1> HIDE DEF lines, more, n
<1>7. ASSUME NEW j \in 1..n + 1 PROVE ~ BadLine(AllViews', more, j)
  <2>1. CASE j = n + 1
    <3>1. n \in 0..n /\ (n + 1) - 1 = n
      BY <1>2
    <3>2. AllViews'[(n + 1) - 1] = Index
      BY <3>1, <1>3, <1>5
    <3> QED BY <2>1, <3>2, <1>3 DEF BadLine
  <2>2. CASE j \in 1..n
    <3>1. j - 1 \in 0..n
      BY <1>2, <2>2
    <3> QED BY <2>2, <3>1, <1>3, <1>4 DEF BadLine
  <2> QED BY <2>1, <2>2, <1>2
<1>8. ASSUME NEW t \in Session, loaded'[t] PROVE \E k \in 0..n + 1 : Applied(t, k)'
  <2>1. CASE t = s
    <3>1. n + 1 \in 0..n + 1
      BY <1>2
    <3>2. offset'[s] = Size(more) /\ view'[s] = Index'
      BY <1>1 DEF TypeOK, Set
    <3> QED BY <2>1, <3>1, <3>2, <1>6 DEF Applied, more
  <2>2. CASE t # s
    <3>1. PICK k \in 0..n : Applied(t, k)
      BY <1>4, <1>8
    <3>2. offset'[t] = offset[t] /\ view'[t] = view[t]
      BY <1>1, <2>2 DEF TypeOK, Set
    <3>3. k \in 0..n + 1
      BY <1>2
    <3>4. Starts(more)[k] = Starts(lines)[k] /\ AllViews'[k] = AllViews[k]
      BY <1>3
    <3> QED BY <3>1, <3>2, <3>3, <3>4 DEF Applied, lines, more
  <2> QED BY <2>1, <2>2
<1> QED BY <1>3, <1>4, <1>7, <1>8 DEF Readable, more, n

\* Nothing changes that what is in memory is compared with.
LEMMA SameReadable ==
  ASSUME Free, Readable, base' = base, changes'.lines = changes.lines,
         \A s \in Session : loaded'[s] =>
            loaded[s] /\ view'[s] = view[s] /\ offset'[s] = offset[s]
  PROVE  Readable'
<1>1. AllViews' = AllViews
  BY DEF AllViews
<1> QED BY <1>1 DEF Readable, Applied

\* While nobody is in the way, the change file and what is in memory fit.
LEMMA ReadableStep ==
  ASSUME TypeOK, Operating, Rebuilt, Readable, Appending, Free, Free', [Next]_vars
  PROVE  Readable'
<1> USE DEF vars, diskVars, sessionVars, historyVars, Goto, Set, Done, Op, NoOp
<1>1. ASSUME NEW s \in Session, Query(s) PROVE Readable'
  <2>1. /\ base' = base /\ changes'.lines = changes.lines
        /\ \A t \in Session : loaded'[t] =>
             loaded[t] /\ view'[t] = view[t] /\ offset'[t] = offset[t]
    BY <1>1 DEF Query, TypeOK
  <2> QED BY <2>1, SameReadable
<1>2. ASSUME NEW s \in Session, Refresh(s) PROVE Readable'
  <2>1. /\ base' = base /\ changes'.lines = changes.lines
        /\ \A t \in Session : loaded'[t] =>
             loaded[t] /\ view'[t] = view[t] /\ offset'[t] = offset[t]
    BY <1>2 DEF Refresh, TypeOK
  <2> QED BY <2>1, SameReadable
<1>3. ASSUME NEW s \in Session, Deliver(s) PROVE Readable'
  <2>1. /\ base' = base /\ changes'.lines = changes.lines
        /\ \A t \in Session : loaded'[t] =>
             loaded[t] /\ view'[t] = view[t] /\ offset'[t] = offset[t]
    BY <1>3 DEF Deliver, TypeOK
  <2> QED BY <2>1, SameReadable
<1>4. ASSUME NEW s \in Session, Exit(s) PROVE Readable'
  <2>1. /\ base' = base /\ changes'.lines = changes.lines
        /\ \A t \in Session : loaded'[t] =>
             loaded[t] /\ view'[t] = view[t] /\ offset'[t] = offset[t]
    BY <1>4 DEF Exit, Unload, TypeOK
  <2> QED BY <2>1, SameReadable
<1>5. ASSUME NEW s \in Session, NEW p \in Path, AddFile(s, p) PROVE Readable'
  <2>1. /\ base' = base /\ changes'.lines = changes.lines
        /\ \A t \in Session : loaded'[t] =>
             loaded[t] /\ view'[t] = view[t] /\ offset'[t] = offset[t]
    BY <1>5 DEF AddFile, TypeOK
  <2> QED BY <2>1, SameReadable
<1>6. ASSUME NEW s \in Session, NEW p \in Path, RemoveFile(s, p) PROVE Readable'
  <2>1. /\ base' = base /\ changes'.lines = changes.lines
        /\ \A t \in Session : loaded'[t] =>
             loaded[t] /\ view'[t] = view[t] /\ offset'[t] = offset[t]
    BY <1>6 DEF RemoveFile, TypeOK
  <2> QED BY <2>1, SameReadable
<1>7. ASSUME NEW s \in Session, NEW p \in Path, NEW q \in Path, MoveFile(s, p, q) PROVE Readable'
  <2>1. /\ base' = base /\ changes'.lines = changes.lines
        /\ \A t \in Session : loaded'[t] =>
             loaded[t] /\ view'[t] = view[t] /\ offset'[t] = offset[t]
    BY <1>7 DEF MoveFile, TypeOK
  <2> QED BY <2>1, SameReadable
<1>8. ASSUME NEW s \in Session, Load(s) PROVE Readable'
  <2>1. base.exists
    BY DEF Readable
  <2>2. LoadEffect(s)
    BY <1>8, <2>1, LoadCases
  <2>3. base' = base /\ changes' = changes /\ AllViews' = AllViews
    BY <2>2 DEF LoadEffect, AllViews
  <2>4. ASSUME NEW t \in Session, loaded'[t] PROVE \E k \in 0..Len(changes.lines) : Applied(t, k)'
    <3>1. CASE t = s
      <4>1. offset'[s] = 0 /\ view'[s] = base.files
        BY <2>2 DEF LoadEffect, TypeOK
      <4>2. changes.lines \in Seq(Line) /\ 0 \in 0..Len(changes.lines)
        BY DEF TypeOK
      <4>3. Starts(changes.lines)[0] = 0 /\ AllViews[0] = base.files
        BY <4>2, StartsDef, ViewsDef, Zenon DEF AllViews
      <4> QED BY <2>3, <3>1, <4>1, <4>2, <4>3 DEF Applied
    <3>2. CASE t # s
      <4>1. loaded[t] /\ offset'[t] = offset[t] /\ view'[t] = view[t]
        BY <2>2, <2>4, <3>2 DEF LoadEffect, TypeOK
      <4>2. PICK k \in 0..Len(changes.lines) : Applied(t, k)
        BY <4>1 DEF Readable
      <4> QED BY <2>3, <4>1, <4>2 DEF Applied
    <3> QED BY <3>1, <3>2
  <2> QED BY <2>3, <2>4 DEF Readable
<1>9. ASSUME NEW s \in Session, StatChangeFile(s) PROVE Readable'
  <2>1. /\ base' = base /\ changes'.lines = changes.lines
        /\ \A t \in Session : loaded'[t] =>
             loaded[t] /\ view'[t] = view[t] /\ offset'[t] = offset[t]
    BY <1>9 DEF StatChangeFile, TypeOK
  <2> QED BY <2>1, SameReadable
<1>10. ASSUME NEW s \in Session, ReadChangeFile(s) PROVE Readable'
  <2>1. /\ loaded[s] /\ changes.lines \in Seq(Line) /\ base.files \in SUBSET Path
        /\ base' = base /\ changes' = changes /\ loaded' = loaded /\ AllViews' = AllViews
    BY <1>10 DEF ReadChangeFile, Operating, OperatingAt, ApplySteps, TypeOK, FileState,
       AllViews
  <2>2. PICK k \in 0..Len(changes.lines) : Applied(s, k)
    BY <2>1 DEF Readable
  <2>3. ReadOn(view[s], offset[s], changes.lines)
          = [view |-> Index, offset |-> Size(changes.lines), damaged |-> "no"]
    BY <2>1, <2>2, ReadToEnd DEF Applied, AllViews, Index, Readable
  <2>4. view' = Set(view, s, Index) /\ offset' = Set(offset, s, Size(changes.lines))
    BY <1>10, <2>3 DEF ReadChangeFile
  <2>5. ASSUME NEW t \in Session, loaded[t] PROVE \E j \in 0..Len(changes.lines) : Applied(t, j)'
    <3>1. CASE t = s
      <4>1. offset'[s] = Size(changes.lines) /\ view'[s] = Index
        BY <2>4 DEF TypeOK
      <4>2. Len(changes.lines) \in 0..Len(changes.lines)
        BY <2>1
      <4> QED BY <2>1, <3>1, <4>1, <4>2 DEF Applied, AllViews, Index, Replay, Size
    <3>2. CASE t # s
      <4>1. offset'[t] = offset[t] /\ view'[t] = view[t]
        BY <2>4, <3>2 DEF TypeOK
      <4>2. PICK j \in 0..Len(changes.lines) : Applied(t, j)
        BY <2>5 DEF Readable
      <4> QED BY <2>1, <4>1, <4>2 DEF Applied
    <3> QED BY <3>1, <3>2
  <2> QED BY <2>1, <2>5 DEF Readable
<1>11. ASSUME NEW s \in Session, ReadFails(s) PROVE Readable'
  <2>1. /\ base' = base /\ changes'.lines = changes.lines
        /\ \A t \in Session : loaded'[t] =>
             loaded[t] /\ view'[t] = view[t] /\ offset'[t] = offset[t]
    BY <1>11 DEF ReadFails, TypeOK
  <2> QED BY <2>1, SameReadable
<1>12. ASSUME NEW s \in Session, ClearModified(s) PROVE Readable'
  <2>1. base' = base /\ changes' = changes
    BY <1>12 DEF ClearModified
  <2>2. Unload(s) \/ UNCHANGED <<loaded, view, offset>>
    BY <1>12, Zenon DEF ClearModified
  <2>3. \A t \in Session : loaded'[t] => loaded[t] /\ view'[t] = view[t] /\ offset'[t] = offset[t]
    BY <2>2 DEF Unload, TypeOK
  <2> QED BY <2>1, <2>3, SameReadable
<1>13. ASSUME NEW s \in Session, OpenChangeFile(s) PROVE Readable'
  <2>1. /\ base' = base /\ changes'.lines = changes.lines
        /\ \A t \in Session : loaded'[t] =>
             loaded[t] /\ view'[t] = view[t] /\ offset'[t] = offset[t]
    BY <1>13 DEF OpenChangeFile, TypeOK
  <2> QED BY <2>1, SameReadable
<1>14. ASSUME NEW s \in Session, LockChangeFile(s) PROVE Readable'
  <2>1. /\ base' = base /\ changes'.lines = changes.lines
        /\ \A t \in Session : loaded'[t] =>
             loaded[t] /\ view'[t] = view[t] /\ offset'[t] = offset[t]
    BY <1>14 DEF LockChangeFile, TypeOK
  <2> QED BY <2>1, SameReadable
<1>15. ASSUME NEW s \in Session, LockTimesOut(s) PROVE Readable'
  <2>1. /\ base' = base /\ changes'.lines = changes.lines
        /\ \A t \in Session : loaded'[t] =>
             loaded[t] /\ view'[t] = view[t] /\ offset'[t] = offset[t]
    BY <1>15 DEF LockTimesOut, TypeOK
  <2> QED BY <2>1, SameReadable
<1>16. ASSUME NEW s \in Session, AppendAdd(s) PROVE Readable'
  <2>1. /\ op[s].path \in Path /\ pc[s] = "append" /\ base' = base /\ loaded' = loaded
    BY <1>16, OperationType, SameOperation DEF AppendAdd, Adding
  <2>2. CASE op[s].path \in view[s]
    <3>1. changes' = changes /\ view' = view /\ offset' = offset
      BY <1>16, <2>2 DEF AppendAdd
    <3> QED BY <2>1, <3>1, SameReadable
  <2>3. CASE op[s].path \notin view[s]
    <3>1. WriteLine(s, Added(op[s].path))
      BY <1>16, <2>3, Zenon DEF AppendAdd
    <3>2. Added(op[s].path) \in Line /\ Added(op[s].path).kind # "-"
      BY <2>1 DEF Line, Added
    <3> QED BY <2>1, <3>1, <3>2, WritingReadable
  <2> QED BY <2>2, <2>3
<1>17. ASSUME NEW s \in Session, AppendRemove(s) PROVE Readable'
  <2>1. /\ op[s].path \in Path /\ pc[s] = "append" /\ base' = base /\ loaded' = loaded
        /\ op[s].path \in view[s]
    BY <1>17, OperationType, SameOperation DEF AppendRemove, Removing
  <2>2. WriteLine(s, Removed(op[s].path))
    BY <1>17, Zenon DEF AppendRemove
  <2>3. Removed(op[s].path) \in Line /\ Removed(op[s].path).path = op[s].path
    BY <2>1 DEF Line, Removed
  <2>4. view[s] = Index
    BY <2>1, <2>2, <2>3, Writing
  <2> QED BY <2>1, <2>2, <2>3, <2>4, WritingReadable
<1>18. ASSUME NEW s \in Session, EraseFails(s) PROVE Readable'
  <2>1. /\ base' = base /\ changes'.lines = changes.lines
        /\ \A t \in Session : loaded'[t] =>
             loaded[t] /\ view'[t] = view[t] /\ offset'[t] = offset[t]
    BY <1>18 DEF EraseFails, TypeOK
  <2> QED BY <2>1, SameReadable
<1>19. ASSUME NEW s \in Session, UnlinkFile(s) PROVE Readable'
  <2>1. /\ base' = base /\ changes'.lines = changes.lines
        /\ \A t \in Session : loaded'[t] =>
             loaded[t] /\ view'[t] = view[t] /\ offset'[t] = offset[t]
    BY <1>19 DEF UnlinkFile, TypeOK
  <2> QED BY <2>1, SameReadable
<1>20. ASSUME NEW s \in Session, AddMovedFile(s) PROVE Readable'
  <2>1. /\ base' = base /\ changes'.lines = changes.lines
        /\ \A t \in Session : loaded'[t] =>
             loaded[t] /\ view'[t] = view[t] /\ offset'[t] = offset[t]
    BY <1>20 DEF AddMovedFile, TypeOK
  <2> QED BY <2>1, SameReadable
<1>21. ASSUME NEW s \in Session, ScanDisk(s) PROVE Readable'
  <2>1. PastScan(s)'
    BY <1>21 DEF ScanDisk, TypeOK, PastScan, Rebuilding, RebuildSteps
  <2> QED BY <2>1 DEF Free
<1>22. ASSUME NEW s \in Session, WriteTmp(s) PROVE Readable'
  BY <1>22 DEF WriteTmp, Free, PastScan, Rebuilding, RebuildSteps
<1>23. ASSUME NEW s \in Session, DeleteBase(s) PROVE Readable'
  BY <1>23 DEF DeleteBase, Free, PastScan, Rebuilding, RebuildSteps
<1>24. ASSUME NEW s \in Session, MoveTmp(s) PROVE Readable'
  BY <1>24 DEF MoveTmp, Free, PastScan, Rebuilding, RebuildSteps
<1>25. ASSUME NEW s \in Session, DeleteChanges(s) PROVE Readable'
  BY <1>25 DEF DeleteChanges, Free, PastScan, Rebuilding, RebuildSteps
<1>26. CASE UNCHANGED vars
  <2>1. UNCHANGED <<base, changes, loaded, view, offset>>
    BY <1>26
  <2> QED BY <2>1, SameReadable
<1> QED BY <1>1, <1>2, <1>3, <1>4, <1>5, <1>6, <1>7, <1>8, <1>9, <1>10, <1>11, <1>12, <1>13,
       <1>14, <1>15, <1>16, <1>17, <1>18, <1>19, <1>20, <1>21, <1>22, <1>23, <1>24, <1>25,
       <1>26 DEF Next, Step

\* Nobody new appends, and nobody has appended anything.
LEMMA SameAppending ==
  ASSUME Free, Appending, changes'.lines = changes.lines, orphan' \subseteq orphan,
         \A s \in Session : pc'[s] = "append" => pc[s] = "append" /\ offset'[s] = offset[s]
  PROVE  Appending'
<1>1. orphan' = {} /\ orphan = {}
  BY DEF Appending
<1>2. ASSUME NEW s \in Session, pc'[s] = "append" PROVE ~ Stale(s)' /\ WriteLocked' = {s}
  <2>1. ~ Stale(s) /\ WriteLocked = {s} /\ offset'[s] = offset[s]
    BY <1>2 DEF Appending
  <2> QED BY <1>1, <1>2, <2>1 DEF Stale, WriteLocked
<1> QED BY <1>1, <1>2 DEF Appending

\* Who appends is alone and up to date.
LEMMA AppendingStep ==
  ASSUME TypeOK, Operating, Rebuilt, Readable, Appending, Free, Free', [Next]_vars
  PROVE  Appending'
<1> USE DEF vars, diskVars, sessionVars, historyVars, Goto, Set, Done, Op, NoOp
<1>1. ASSUME NEW s \in Session, Query(s) PROVE Appending'
  <2>1. changes'.lines = changes.lines /\ orphan' \subseteq orphan
    BY <1>1 DEF Query, Begin, TypeOK
  <2>2. \A t \in Session : pc'[t] = "append" => pc[t] = "append" /\ offset'[t] = offset[t]
    BY <1>1 DEF Query, Begin, TypeOK
  <2> QED BY <2>1, <2>2, SameAppending
<1>2. ASSUME NEW s \in Session, Refresh(s) PROVE Appending'
  <2>1. changes'.lines = changes.lines /\ orphan' \subseteq orphan
    BY <1>2 DEF Refresh, TypeOK
  <2>2. \A t \in Session : pc'[t] = "append" => pc[t] = "append" /\ offset'[t] = offset[t]
    BY <1>2 DEF Refresh, TypeOK
  <2> QED BY <2>1, <2>2, SameAppending
<1>3. ASSUME NEW s \in Session, Deliver(s) PROVE Appending'
  <2>1. changes'.lines = changes.lines /\ orphan' \subseteq orphan
    BY <1>3 DEF Deliver, TypeOK
  <2>2. \A t \in Session : pc'[t] = "append" => pc[t] = "append" /\ offset'[t] = offset[t]
    BY <1>3 DEF Deliver, TypeOK
  <2> QED BY <2>1, <2>2, SameAppending
<1>4. ASSUME NEW s \in Session, Exit(s) PROVE Appending'
  <2>1. changes'.lines = changes.lines /\ orphan' \subseteq orphan
    BY <1>4 DEF Exit, Abandon, Unload, TypeOK
  <2>2. \A t \in Session : pc'[t] = "append" => pc[t] = "append" /\ offset'[t] = offset[t]
    BY <1>4 DEF Exit, Abandon, Unload, TypeOK
  <2> QED BY <2>1, <2>2, SameAppending
<1>5. ASSUME NEW s \in Session, NEW p \in Path, AddFile(s, p) PROVE Appending'
  <2>1. changes'.lines = changes.lines /\ orphan' \subseteq orphan
    BY <1>5 DEF AddFile, Begin, TypeOK
  <2>2. \A t \in Session : pc'[t] = "append" => pc[t] = "append" /\ offset'[t] = offset[t]
    BY <1>5 DEF AddFile, Begin, TypeOK
  <2> QED BY <2>1, <2>2, SameAppending
<1>6. ASSUME NEW s \in Session, NEW p \in Path, RemoveFile(s, p) PROVE Appending'
  <2>1. changes'.lines = changes.lines /\ orphan' \subseteq orphan
    BY <1>6 DEF RemoveFile, Begin, TypeOK
  <2>2. \A t \in Session : pc'[t] = "append" => pc[t] = "append" /\ offset'[t] = offset[t]
    BY <1>6 DEF RemoveFile, Begin, TypeOK
  <2> QED BY <2>1, <2>2, SameAppending
<1>7. ASSUME NEW s \in Session, NEW p \in Path, NEW q \in Path, MoveFile(s, p, q) PROVE Appending'
  <2>1. changes'.lines = changes.lines /\ orphan' \subseteq orphan
    BY <1>7 DEF MoveFile, Begin, TypeOK
  <2>2. \A t \in Session : pc'[t] = "append" => pc[t] = "append" /\ offset'[t] = offset[t]
    BY <1>7 DEF MoveFile, Begin, TypeOK
  <2> QED BY <2>1, <2>2, SameAppending
<1>8. ASSUME NEW s \in Session, Load(s) PROVE Appending'
  <2>1. base.exists
    BY DEF Readable
  <2>2. LoadEffect(s)
    BY <1>8, <2>1, LoadCases
  <2>3. changes'.lines = changes.lines /\ orphan' \subseteq orphan /\ pc[s] # "append"
    BY <2>2 DEF LoadEffect
  <2>4. \A t \in Session : pc'[t] = "append" => pc[t] = "append" /\ offset'[t] = offset[t]
    BY <2>2, <2>3 DEF LoadEffect, TypeOK
  <2> QED BY <2>3, <2>4, SameAppending
<1>9. ASSUME NEW s \in Session, StatChangeFile(s) PROVE Appending'
  <2>1. changes'.lines = changes.lines /\ orphan' \subseteq orphan
    BY <1>9, StatCases DEF StatEffect, TypeOK
  <2>2. \A t \in Session : pc'[t] = "append" => pc[t] = "append" /\ offset'[t] = offset[t]
    BY <1>9, StatCases DEF StatEffect, TypeOK
  <2> QED BY <2>1, <2>2, SameAppending
<1>10. ASSUME NEW s \in Session, ReadChangeFile(s) PROVE Appending'
  <2>1. changes'.lines = changes.lines /\ orphan' \subseteq orphan
    BY <1>10 DEF ReadChangeFile, TypeOK
  <2>2. \A t \in Session : pc'[t] = "append" => pc[t] = "append" /\ offset'[t] = offset[t]
    BY <1>10 DEF ReadChangeFile, TypeOK
  <2> QED BY <2>1, <2>2, SameAppending
<1>11. ASSUME NEW s \in Session, ReadFails(s) PROVE Appending'
  <2>1. changes'.lines = changes.lines /\ orphan' \subseteq orphan
    BY <1>11 DEF ReadFails, TypeOK
  <2>2. \A t \in Session : pc'[t] = "append" => pc[t] = "append" /\ offset'[t] = offset[t]
    BY <1>11 DEF ReadFails, TypeOK
  <2> QED BY <2>1, <2>2, SameAppending
<1>12. ASSUME NEW s \in Session, ClearModified(s) PROVE Appending'
  <2>1. ClearEffect(s) /\ (Unload(s) \/ UNCHANGED <<loaded, view, offset>>)
    BY <1>12, ClearCases, Zenon DEF ClearModified
  <2>2. changes'.lines = changes.lines /\ orphan' \subseteq orphan /\ pc[s] # "append"
    BY <2>1 DEF ClearEffect
  <2>3. \A t \in Session : pc'[t] = "append" => pc[t] = "append" /\ offset'[t] = offset[t]
    BY <2>1, <2>2 DEF ClearEffect, Unload, TypeOK
  <2> QED BY <2>2, <2>3, SameAppending
<1>13. ASSUME NEW s \in Session, OpenChangeFile(s) PROVE Appending'
  <2>1. changes'.lines = changes.lines /\ orphan' \subseteq orphan
    BY <1>13 DEF OpenChangeFile, TypeOK
  <2>2. \A t \in Session : pc'[t] = "append" => pc[t] = "append" /\ offset'[t] = offset[t]
    BY <1>13 DEF OpenChangeFile, TypeOK
  <2> QED BY <2>1, <2>2, SameAppending
<1>14. ASSUME NEW s \in Session, LockChangeFile(s) PROVE Appending'
  <2>1. /\ s \notin orphan /\ ~ Stale(s) /\ WriteLocked = {} /\ orphan = {}
        /\ pc' = [pc EXCEPT ![s] = "append"] /\ UNCHANGED <<changes, offset, orphan>>
    BY <1>14 DEF LockChangeFile, Collide, Free, Appending
  <2>2. \A t \in Session : pc[t] # "append"
    BY <2>1 DEF WriteLocked
  <2>3. \A t \in Session : (pc'[t] = "append" <=> t = s)
    BY <2>1, <2>2 DEF TypeOK
  <2>4. WriteLocked' = {s} /\ ~ Stale(s)'
    BY <2>1, <2>3 DEF WriteLocked, Stale
  <2> QED BY <2>1, <2>3, <2>4 DEF Appending
<1>15. ASSUME NEW s \in Session, LockTimesOut(s) PROVE Appending'
  <2>1. changes'.lines = changes.lines /\ orphan' \subseteq orphan
    BY <1>15 DEF LockTimesOut, Abandon, TypeOK
  <2>2. \A t \in Session : pc'[t] = "append" => pc[t] = "append" /\ offset'[t] = offset[t]
    BY <1>15 DEF LockTimesOut, Abandon, TypeOK
  <2> QED BY <2>1, <2>2, SameAppending
<1>16. ASSUME NEW s \in Session, AppendAdd(s) PROVE Appending'
  <2>1. /\ op[s].path \in Path /\ pc[s] = "append" /\ base' = base
        /\ pc' = [pc EXCEPT ![s] = "idle"]
    BY <1>16, OperationType, SameOperation DEF AppendAdd, Adding
  <2>2. CASE op[s].path \in view[s]
    <3>1. changes' = changes /\ offset' = offset /\ orphan' \subseteq orphan
      BY <1>16, <2>2 DEF AppendAdd
    <3> QED BY <2>1, <3>1, SameAppending DEF TypeOK
  <2>3. CASE op[s].path \notin view[s]
    <3>1. WriteLine(s, Added(op[s].path)) /\ Added(op[s].path) \in Line
      BY <1>16, <2>1, <2>3 DEF AppendAdd, Line
    <3>2. orphan' = {} /\ \A t \in Session : t # s => pc[t] # "append"
      BY <2>1, <3>1, Writing
    <3> QED BY <2>1, <3>2 DEF Appending, TypeOK
  <2> QED BY <2>2, <2>3
<1>17. ASSUME NEW s \in Session, AppendRemove(s) PROVE Appending'
  <2>1. /\ op[s].path \in Path /\ pc[s] = "append" /\ base' = base
        /\ pc' = [pc EXCEPT ![s] = "recordGone"]
    BY <1>17, OperationType, SameOperation DEF AppendRemove, Removing
  <2>2. WriteLine(s, Removed(op[s].path)) /\ Removed(op[s].path) \in Line
    BY <1>17, <2>1, Zenon DEF AppendRemove, Line
  <2>3. orphan' = {} /\ \A t \in Session : t # s => pc[t] # "append"
    BY <2>1, <2>2, Writing
  <2> QED BY <2>1, <2>3 DEF Appending, TypeOK
<1>18. ASSUME NEW s \in Session, EraseFails(s) PROVE Appending'
  <2>1. changes'.lines = changes.lines /\ orphan' \subseteq orphan
    BY <1>18 DEF EraseFails, Abandon, TypeOK
  <2>2. \A t \in Session : pc'[t] = "append" => pc[t] = "append" /\ offset'[t] = offset[t]
    BY <1>18 DEF EraseFails, Abandon, TypeOK
  <2> QED BY <2>1, <2>2, SameAppending
<1>19. ASSUME NEW s \in Session, UnlinkFile(s) PROVE Appending'
  <2>1. changes'.lines = changes.lines /\ orphan' \subseteq orphan
    BY <1>19 DEF UnlinkFile, TypeOK
  <2>2. \A t \in Session : pc'[t] = "append" => pc[t] = "append" /\ offset'[t] = offset[t]
    BY <1>19 DEF UnlinkFile, TypeOK
  <2> QED BY <2>1, <2>2, SameAppending
<1>20. ASSUME NEW s \in Session, AddMovedFile(s) PROVE Appending'
  <2>1. changes'.lines = changes.lines /\ orphan' \subseteq orphan
    BY <1>20 DEF AddMovedFile, TypeOK
  <2>2. \A t \in Session : pc'[t] = "append" => pc[t] = "append" /\ offset'[t] = offset[t]
    BY <1>20 DEF AddMovedFile, TypeOK
  <2> QED BY <2>1, <2>2, SameAppending
<1>21. ASSUME NEW s \in Session, ScanDisk(s) PROVE Appending'
  <2>1. PastScan(s)'
    BY <1>21 DEF ScanDisk, TypeOK, PastScan, Rebuilding, RebuildSteps
  <2> QED BY <2>1 DEF Free
<1>22. ASSUME NEW s \in Session, WriteTmp(s) PROVE Appending'
  BY <1>22 DEF WriteTmp, Free, PastScan, Rebuilding, RebuildSteps
<1>23. ASSUME NEW s \in Session, DeleteBase(s) PROVE Appending'
  BY <1>23 DEF DeleteBase, Free, PastScan, Rebuilding, RebuildSteps
<1>24. ASSUME NEW s \in Session, MoveTmp(s) PROVE Appending'
  BY <1>24 DEF MoveTmp, Free, PastScan, Rebuilding, RebuildSteps
<1>25. ASSUME NEW s \in Session, DeleteChanges(s) PROVE Appending'
  BY <1>25 DEF DeleteChanges, Free, PastScan, Rebuilding, RebuildSteps
<1>26. CASE UNCHANGED vars
  <2>1. UNCHANGED <<changes, pc, offset, orphan>>
    BY <1>26
  <2> QED BY <2>1, SameAppending
<1> QED BY <1>1, <1>2, <1>3, <1>4, <1>5, <1>6, <1>7, <1>8, <1>9, <1>10, <1>11, <1>12, <1>13,
       <1>14, <1>15, <1>16, <1>17, <1>18, <1>19, <1>20, <1>21, <1>22, <1>23, <1>24, <1>25,
       <1>26 DEF Next, Step

\* The operation of s goes on, and the records with it.
LEMMA RecordedBy ==
  ASSUME TypeOK, Free, Recorded, NEW s \in Session, NEW step, NEW o \in Operation,
         pc' = Set(pc, s, step), op' = Set(op, s, o),
         o.kind \in {"remove", "move"} /\ o.phase = "update" /\ step # "recordGone" =>
           o.path \in Index',
         o.kind = "remove" /\ step = "recordGone" => o.path \notin Index',
         \A t \in Others(s) : Removing(t) => (op[t].path \in Index' <=> op[t].path \in Index),
         Index' \ disk' \subseteq moved',
         \A p \in disk' : \/ p \in Index' \/ p \in dirty' \/ p \in FilesOf(o)
                          \/ \E t \in Others(s) : p \in Concerned(t)
  PROVE  Recorded'
<1> USE DEF Set, Adding, Removing, Moving
<1>1. /\ op'[s] = o /\ pc'[s] = step
      /\ \A t \in Others(s) : op'[t] = op[t] /\ pc'[t] = pc[t]
  BY DEF TypeOK, Others
<1>2. Concerned(s)' = FilesOf(o) /\ \A t \in Others(s) : Concerned(t)' = Concerned(t)
  BY <1>1 DEF Concerned, FilesOf
<1>3. ASSUME NEW t \in Session
      PROVE  /\ Removing(t)' /\ op'[t].phase = "update" /\ pc'[t] # "recordGone" =>
                  op'[t].path \in Index'
             /\ op'[t].kind = "remove" /\ pc'[t] = "recordGone" => op'[t].path \notin Index'
  <2>1. CASE t = s
    BY <2>1, <1>1
  <2>2. CASE t # s
    BY <2>2, <1>1 DEF Recorded, Others
  <2> QED BY <2>1, <2>2
<1>4. ASSUME NEW p \in disk' PROVE p \in Index' \/ p \in dirty' \/ InFlight(p)' # {}
  BY <1>2, <1>4 DEF InFlight, Others
<1> QED BY <1>3, <1>4 DEF Recorded

\* The records and the files are left alone.
LEMMA SameRecorded ==
  ASSUME TypeOK, Free, Recorded, NEW s \in Session, NEW step, NEW o \in Operation,
         pc' = Set(pc, s, step), op' = Set(op, s, o),
         Index' = Index, disk' = disk, moved' = moved, dirty \subseteq dirty',
         o.kind \in {"remove", "move"} /\ o.phase = "update" /\ step # "recordGone" =>
           o.path \in Index,
         o.kind = "remove" /\ step = "recordGone" => o.path \notin Index,
         \A p \in Concerned(s) : p \in FilesOf(o) \/ p \in Index \/ p \in dirty' \/ p \notin disk
  PROVE  Recorded'
<1>1. \A p \in disk' : \/ p \in Index' \/ p \in dirty' \/ p \in FilesOf(o)
                       \/ \E t \in Others(s) : p \in Concerned(t)
  BY DEF Recorded, InFlight, Others
<1>2. Index' \ disk' \subseteq moved'
  BY DEF Recorded
<1> QED BY <1>1, <1>2, RecordedBy

\* What s has not in hand any more is dealt with, or known to be open.
LEMMA AbandonRecorded ==
  ASSUME TypeOK, Free, Recorded, NEW s \in Session,
         pc' = Set(pc, s, "idle"), op' = Set(op, s, NoOp),
         Index' = Index, disk' = disk, moved' = moved, dirty' = dirty \cup Concerned(s)
  PROVE  Recorded'
<1>1. NoOp \in Operation /\ NoOp.kind = "none"
  BY OperationType DEF NoOp, Op
<1>2. \A p \in Concerned(s) : p \in dirty'
  OBVIOUS
<1> HIDE DEF NoOp
<1> QED BY <1>1, <1>2, SameRecorded

\* s goes on to another step, short of the last.
LEMMA GoesOn ==
  ASSUME TypeOK, Free, Recorded, NEW s \in Session, NEW step, step # "recordGone",
         pc[s] # "recordGone", pc' = Set(pc, s, step), op' = op,
         Index' = Index, disk' = disk, moved' = moved, dirty' = dirty
  PROVE  Recorded'
<1>1. op' = Set(op, s, op[s]) /\ op[s] \in Operation
  BY SameOperation
<1>2. op[s].kind \in {"remove", "move"} /\ op[s].phase = "update" => op[s].path \in Index
  BY DEF Recorded, Removing
<1>3. Concerned(s) = FilesOf(op[s])
  BY DEF Concerned, FilesOf, Adding, Removing, Moving
<1> QED BY <1>1, <1>2, <1>3, SameRecorded

\* FileExists is answered from a view that is up to date.
LEMMA ProceedRecorded ==
  ASSUME TypeOK, Operating, Free, Readable, Recorded, NEW s \in Session, NEW step,
         NEW o \in Operation, pc[s] \in {"stat", "clear"}, ProceedTo(s, step, o),
         ~ Stale(s) \/ ~ Checks(s)
  PROVE  /\ o.kind \in {"remove", "move"} /\ o.phase = "update" /\ step # "recordGone" =>
              o.path \in Index
         /\ o.kind = "remove" /\ step = "recordGone" => o.path \notin Index
         /\ \A p \in Concerned(s) : p \in FilesOf(o) \/ p \in Index
<1>1. loaded[s]
  BY DEF Operating, OperatingAt, ApplySteps
<1>2. Checks(s) => view[s] = Index
  BY <1>1, UpToDate
<1>3. Removing(s) /\ op[s].phase = "update" => op[s].path \in Index
  BY DEF Recorded
<1>4. Concerned(s) = FilesOf(op[s])
  BY DEF Concerned, FilesOf, Adding, Removing, Moving
<1>5. CASE op[s].fresh /\ step = "stat" /\ o = Seasoned(op[s])
  <2>1. o.kind = op[s].kind /\ o.path = op[s].path /\ o.dest = op[s].dest /\ o.phase = op[s].phase
    BY <1>5 DEF Seasoned, Flagged
  <2> QED BY <1>3, <1>4, <1>5, <2>1 DEF FilesOf, Removing
<1>6. CASE ~ op[s].fresh /\ op[s].kind = "query" /\ step = "idle" /\ o = NoOp
  BY <1>6 DEF Concerned, Adding, Removing, Moving, NoOp, Op
<1>7. CASE ~ op[s].fresh /\ op[s].phase = "update" /\ step = "open" /\ o = op[s]
  BY <1>3, <1>4, <1>7 DEF Removing
<1>8. CASE Checks(s) /\ Adding(s) /\ op[s].path \in view[s] /\ step = "idle" /\ o = NoOp
  BY <1>2, <1>8 DEF Concerned, Adding, Removing, Moving, NoOp, Op
<1>9. CASE Checks(s) /\ Removing(s) /\ op[s].path \notin view[s] /\ step = "recordGone" /\ o = op[s]
  BY <1>2, <1>4, <1>9
<1>10. CASE Checks(s) /\ Adding(s) /\ ~ base.exists /\ step = "scan" /\ o = op[s]
  BY <1>4, <1>10 DEF Adding
<1>11. CASE Checks(s) /\ (Adding(s) <=> op[s].path \notin view[s]) /\ step = "stat"
              /\ o = Updating(op[s])
  <2>1. o.kind = op[s].kind /\ o.path = op[s].path /\ o.dest = op[s].dest
    BY <1>11 DEF Updating
  <2>2. o.kind \in {"remove", "move"} => o.path \in Index
    BY <1>2, <1>11, <2>1 DEF Adding
  <2>3. FilesOf(o) = Concerned(s)
    BY <1>4, <2>1 DEF FilesOf
  <2> QED BY <1>11, <2>2, <2>3
<1> QED BY <1>5, <1>6, <1>7, <1>8, <1>9, <1>10, <1>11 DEF ProceedTo

\* The records of the files, of those in hand and of the others.
LEMMA RecordedStep ==
  ASSUME TypeOK, Operating, FilesInUse, Rebuilt, Readable, Appending, Recorded, Free, Free',
         [Next]_vars
  PROVE  Recorded'
<1> USE DEF vars, diskVars, sessionVars, historyVars, Goto, Set, Done, Op, NoOp
<1>1. ASSUME NEW s \in Session, Query(s) PROVE Recorded'
  <2> DEFINE o == Op("query", None, None)
  <2>1. /\ op' = Set(op, s, o) /\ o \in Operation /\ Index' = Index /\ Concerned(s) = {}
        /\ o.phase = "check"
    BY <1>1, OperationType DEF Query, Begin, Index, Operating, OperatingAt, Concerned,
       Adding, Removing, Moving
  <2>2. PICK step \in {"stat", "load", "scan"} : pc' = Set(pc, s, step)
    BY <1>1 DEF Query, Begin
  <2>3. disk' = disk /\ moved' = moved /\ dirty' = dirty
    BY <1>1 DEF Query
  <2> HIDE DEF o
  <2> QED BY <2>1, <2>2, <2>3, SameRecorded
<1>2. ASSUME NEW s \in Session, Refresh(s) PROVE Recorded'
  <2> DEFINE o == Op("rebuild", None, None)
  <2>1. /\ op' = Set(op, s, o) /\ o \in Operation /\ Index' = Index /\ Concerned(s) = {}
        /\ o.phase = "check"
    BY <1>2, OperationType DEF Refresh, Begin, Index, Operating, OperatingAt, Concerned,
       Adding, Removing, Moving
  <2>2. PICK step \in {"stat", "load", "scan"} : pc' = Set(pc, s, step)
    BY <1>2 DEF Refresh, Begin
  <2>3. disk' = disk /\ moved' = moved /\ dirty' = dirty
    BY <1>2 DEF Refresh
  <2> HIDE DEF o
  <2> QED BY <2>1, <2>2, <2>3, SameRecorded
<1>3. ASSUME NEW s \in Session, Deliver(s) PROVE Recorded'
  <2>1. UNCHANGED <<base, changes, disk, moved, dirty, pc, op>>
    BY <1>3 DEF Deliver
  <2> QED BY <2>1 DEF Recorded, Index, InFlight, Concerned, Adding, Removing, Moving
<1>4. ASSUME NEW s \in Session, Exit(s) PROVE Recorded'
  <2>1. /\ pc' = Set(pc, s, "idle") /\ op' = Set(op, s, NoOp)
        /\ Index' = Index /\ disk' = disk /\ moved' = moved /\ dirty' = dirty \cup Concerned(s)
    BY <1>4, Zenon DEF Exit, Abandon, Index
  <2> QED BY <2>1, AbandonRecorded, Zenon
<1>5. ASSUME NEW s \in Session, NEW p \in Path, AddFile(s, p) PROVE Recorded'
  <2> DEFINE o == Op("add", p, None)
  <2>1. /\ op' = Set(op, s, o) /\ o \in Operation /\ Index' = Index /\ Concerned(s) = {}
        /\ o.phase = "check"
    BY <1>5, OperationType DEF AddFile, Begin, Index, Operating, OperatingAt, Concerned,
       Adding, Removing, Moving
  <2>2. PICK step \in {"stat", "load", "scan"} : pc' = Set(pc, s, step)
    BY <1>5 DEF AddFile, Begin
  <2>3. \A t \in Others(s) : Removing(t) => (op[t].path \in Index' <=> op[t].path \in Index)
    BY <2>1
  <2>4. Index' \ disk' \subseteq moved'
    BY <1>5, <2>1 DEF AddFile, Recorded
  <2>5. \A r \in disk' : \/ r \in Index' \/ r \in dirty' \/ r \in FilesOf(o)
                         \/ \E t \in Others(s) : r \in Concerned(t)
    BY <1>5, <2>1 DEF AddFile, Recorded, FilesOf, InFlight, Others
  <2> HIDE DEF o
  <2> QED BY <2>1, <2>2, <2>3, <2>4, <2>5, RecordedBy
<1>6. ASSUME NEW s \in Session, NEW p \in Path, RemoveFile(s, p) PROVE Recorded'
  <2> DEFINE o == Op("remove", p, None)
  <2>1. /\ op' = Set(op, s, o) /\ o \in Operation /\ Index' = Index /\ Concerned(s) = {}
        /\ o.phase = "check"
    BY <1>6, OperationType DEF RemoveFile, Begin, Index, Operating, OperatingAt, Concerned,
       Adding, Removing, Moving
  <2>2. PICK step \in {"stat", "load", "scan"} : pc' = Set(pc, s, step)
    BY <1>6 DEF RemoveFile, Begin
  <2>3. disk' = disk /\ moved' = moved /\ dirty' = dirty
    BY <1>6 DEF RemoveFile
  <2> HIDE DEF o
  <2> QED BY <2>1, <2>2, <2>3, SameRecorded
<1>7. ASSUME NEW s \in Session, NEW p \in Path, NEW q \in Path, MoveFile(s, p, q) PROVE Recorded'
  <2> DEFINE o == Op("move", p, q)
  <2>1. /\ op' = Set(op, s, o) /\ o \in Operation /\ Index' = Index /\ Concerned(s) = {}
        /\ o.phase = "check"
    BY <1>7, OperationType DEF MoveFile, Begin, Index, Operating, OperatingAt, Concerned,
       Adding, Removing, Moving
  <2>2. PICK step \in {"stat", "load", "scan"} : pc' = Set(pc, s, step)
    BY <1>7 DEF MoveFile, Begin
  <2>3. \A t \in Others(s) : Removing(t) => (op[t].path \in Index' <=> op[t].path \in Index)
    BY <2>1
  <2>4. Index' \ disk' \subseteq moved'
    BY <1>7, <2>1 DEF MoveFile, Recorded
  <2>5. \A r \in disk' : \/ r \in Index' \/ r \in dirty' \/ r \in FilesOf(o)
                         \/ \E t \in Others(s) : r \in Concerned(t)
    BY <1>7, <2>1 DEF MoveFile, Recorded, FilesOf, InFlight, Others
  <2> HIDE DEF o
  <2> QED BY <2>1, <2>2, <2>3, <2>4, <2>5, RecordedBy
<1>8. ASSUME NEW s \in Session, Load(s) PROVE Recorded'
  <2>1. base.exists
    BY DEF Readable
  <2>2. LoadEffect(s)
    BY <1>8, <2>1, LoadCases
  <2> DEFINE o == Fresh(op[s])
  <2>3. op[s] \in Operation /\ o \in Operation
    BY SameOperation, NoteType
  <2>4. /\ o.kind = op[s].kind /\ o.path = op[s].path
        /\ o.dest = op[s].dest /\ o.phase = op[s].phase
    BY DEF Fresh, Flagged
  <2>5. /\ pc' = Set(pc, s, "stat") /\ op' = Set(op, s, o) /\ pc[s] = "load"
        /\ Index' = Index /\ disk' = disk /\ moved' = moved /\ dirty' = dirty
    BY <2>2 DEF LoadEffect, Index
  <2>6. op[s].kind \in {"remove", "move"} /\ op[s].phase = "update" => op[s].path \in Index
    BY <2>5 DEF Recorded, Removing
  <2>7. FilesOf(o) = Concerned(s)
    BY <2>4 DEF Concerned, FilesOf, Adding, Removing, Moving
  <2> HIDE DEF o
  <2>8. PICK step \in {"stat"} : pc' = Set(pc, s, step)
    BY <2>5
  <2>9. /\ o.kind \in {"remove", "move"} /\ o.phase = "update" /\ step # "recordGone" =>
             o.path \in Index
        /\ ~ (o.kind = "remove" /\ step = "recordGone")
        /\ \A p \in Concerned(s) : p \in FilesOf(o)
    BY <2>4, <2>6, <2>7
  <2> QED BY <2>3, <2>5, <2>8, <2>9, SameRecorded
<1>9. ASSUME NEW s \in Session, StatChangeFile(s) PROVE Recorded'
  <2>1. StatEffect(s) /\ (modified[s] \/ ~ Stale(s) \/ ~ Checks(s))
    BY <1>9, StatCases, StatCollides DEF Free
  <2>2. pc[s] = "stat" /\ Index' = Index /\ disk' = disk /\ moved' = moved /\ dirty' = dirty
    BY <2>1 DEF StatEffect, Index
  <2>3. PICK step \in {"idle", "stat", "open", "recordGone", "scan", "read", "clear"},
             o \in Operation :
          /\ pc' = Set(pc, s, step) /\ op' = Set(op, s, o)
          /\ \/ ~ modified[s] /\ ProceedTo(s, step, o)
             \/ step \in {"read", "clear"} /\ o = op[s]
    BY <2>1 DEF StatEffect
  <2>4. CASE ~ modified[s] /\ ProceedTo(s, step, o)
    BY <2>1, <2>2, <2>3, <2>4, ProceedRecorded, SameRecorded
  <2>5. CASE step \in {"read", "clear"} /\ o = op[s]
    BY <2>2, <2>3, <2>5, SameOperation, GoesOn
  <2> QED BY <2>3, <2>4, <2>5
<1>10. ASSUME NEW s \in Session, ReadChangeFile(s) PROVE Recorded'
  <2>1. /\ \E step \in {"clear", "raise"} : pc' = Set(pc, s, step)
        /\ pc[s] # "recordGone" /\ op' = op /\ disk' = disk /\ moved' = moved /\ dirty' = dirty
        /\ base' = base /\ changes'.lines = changes.lines
    BY <1>10 DEF ReadChangeFile, TypeOK
  <2>2. Index' = Index
    BY <2>1 DEF Index
  <2> QED BY <2>1, <2>2, GoesOn
<1>11. ASSUME NEW s \in Session, ReadFails(s) PROVE Recorded'
  <2>1. /\ \E step \in {"raise"} : pc' = Set(pc, s, step)
        /\ pc[s] # "recordGone" /\ op' = op /\ disk' = disk /\ moved' = moved /\ dirty' = dirty
        /\ base' = base /\ changes'.lines = changes.lines
    BY <1>11 DEF ReadFails, TypeOK
  <2>2. Index' = Index
    BY <2>1 DEF Index
  <2> QED BY <2>1, <2>2, GoesOn
<1>12. ASSUME NEW s \in Session, ClearModified(s) PROVE Recorded'
  <2>1. ClearEffect(s) /\ (pc[s] = "clear" => ~ Stale(s) \/ ~ Checks(s))
    BY <1>12, ClearCases DEF ClearModified, Collide, Free
  <2>2. Index' = Index /\ disk' = disk /\ moved' = moved
    BY <2>1 DEF ClearEffect, Index
  <2>3. PICK step \in {"idle", "stat", "open", "recordGone", "scan"}, o \in Operation :
          /\ pc' = Set(pc, s, step) /\ op' = Set(op, s, o)
          /\ \/ pc[s] = "clear" /\ ProceedTo(s, step, o) /\ dirty' = dirty
             \/ pc[s] = "raise" /\ step = "idle" /\ o = NoOp /\ dirty' = dirty \cup Concerned(s)
    BY <2>1, Zenon DEF ClearEffect
  <2>4. CASE pc[s] = "clear" /\ ProceedTo(s, step, o) /\ dirty' = dirty
    BY <2>1, <2>2, <2>3, <2>4, ProceedRecorded, SameRecorded
  <2>5. CASE step = "idle" /\ o = NoOp /\ dirty' = dirty \cup Concerned(s)
    BY <2>2, <2>3, <2>5, AbandonRecorded, Zenon
  <2> QED BY <2>3, <2>4, <2>5
<1>13. ASSUME NEW s \in Session, OpenChangeFile(s) PROVE Recorded'
  <2>1. /\ \E step \in {"lock"} : pc' = Set(pc, s, step)
        /\ pc[s] # "recordGone" /\ op' = op /\ disk' = disk /\ moved' = moved /\ dirty' = dirty
        /\ base' = base /\ changes'.lines = changes.lines
    BY <1>13 DEF OpenChangeFile, TypeOK
  <2>2. Index' = Index
    BY <2>1 DEF Index
  <2> QED BY <2>1, <2>2, GoesOn
<1>14. ASSUME NEW s \in Session, LockChangeFile(s) PROVE Recorded'
  <2>1. /\ \E step \in {"append"} : pc' = Set(pc, s, step)
        /\ pc[s] # "recordGone" /\ op' = op /\ disk' = disk /\ moved' = moved /\ dirty' = dirty
        /\ base' = base /\ changes'.lines = changes.lines
    BY <1>14 DEF LockChangeFile, TypeOK
  <2>2. Index' = Index
    BY <2>1 DEF Index
  <2> QED BY <2>1, <2>2, GoesOn
<1>15. ASSUME NEW s \in Session, LockTimesOut(s) PROVE Recorded'
  <2>1. /\ pc' = Set(pc, s, "idle") /\ op' = Set(op, s, NoOp)
        /\ Index' = Index /\ disk' = disk /\ moved' = moved /\ dirty' = dirty \cup Concerned(s)
    BY <1>15, Zenon DEF LockTimesOut, Abandon, Index
  <2> QED BY <2>1, AbandonRecorded, Zenon
<1>16. ASSUME NEW s \in Session, AppendAdd(s) PROVE Recorded'
  <2> DEFINE p == op[s].path
  <2>1. /\ p \in Path /\ pc[s] = "append" /\ base' = base /\ Adding(s) /\ disk' = disk
        /\ pc' = Set(pc, s, "idle") /\ op' = Set(op, s, NoOp) /\ moved' = moved
        /\ dirty' = dirty \ {p} /\ loaded[s]
    BY <1>16, OperationType, SameOperation DEF AppendAdd, Adding, Operating, OperatingAt
  <2>2. Index' = Index \cup {p}
    <3>1. CASE p \in view[s]
      <4>1. changes' = changes /\ ~ Stale(s)
        BY <1>16, <3>1 DEF AppendAdd, Appending
      <4>2. view[s] = Index
        BY <2>1, <4>1, UpToDate
      <4> QED BY <2>1, <3>1, <4>1, <4>2 DEF Index
    <3>2. CASE p \notin view[s]
      <4>1. WriteLine(s, Added(p)) /\ Added(p) \in Line
        BY <1>16, <2>1, <3>2, Zenon DEF AppendAdd, Line
      <4>2. Index' = ApplyLine(Index, Added(p))
        BY <2>1, <4>1, Writing
      <4> QED BY <4>2 DEF ApplyLine, Added
    <3> QED BY <3>1, <3>2
  <2>3. p \in disk /\ p \in Concerned(s) /\ Concerned(s) = {p}
    BY <2>1 DEF FilesInUse, Concerned, Adding, Removing, Moving
  <2>4. \A t \in Others(s) : Removing(t) => op[t].path # p
    BY <2>1, <2>3 DEF FilesInUse, Concerned, Adding, Removing, Others
  <2>5. NoOp \in Operation /\ NoOp.kind = "none"
    BY OperationType
  <2>6. Index' \ disk' \subseteq moved'
    BY <2>1, <2>2, <2>3 DEF Recorded
  <2>7. \A r \in disk' : r \in Index' \/ r \in dirty' \/ \E t \in Others(s) : r \in Concerned(t)
    BY <2>1, <2>2, <2>3 DEF Recorded, InFlight, Others
  <2>8. \A t \in Others(s) : Removing(t) => (op[t].path \in Index' <=> op[t].path \in Index)
    BY <2>2, <2>4
  <2> QED BY <2>1, <2>5, <2>6, <2>7, <2>8, RecordedBy
<1>17. ASSUME NEW s \in Session, AppendRemove(s) PROVE Recorded'
  <2> DEFINE p == op[s].path
  <2>1. /\ p \in Path /\ pc[s] = "append" /\ base' = base /\ Removing(s) /\ disk' = disk
        /\ pc' = Set(pc, s, "recordGone") /\ op' = Set(op, s, op[s]) /\ moved' = moved \ {p}
        /\ dirty' = dirty /\ op[s] \in Operation
    BY <1>17, OperationType, SameOperation DEF AppendRemove, Removing
  <2>2. Index' = Index \ {p}
    <3>1. WriteLine(s, Removed(p)) /\ Removed(p) \in Line
      BY <1>17, <2>1, Zenon DEF AppendRemove, Line
    <3>2. Index' = ApplyLine(Index, Removed(p))
      BY <2>1, <3>1, Writing
    <3> QED BY <3>2 DEF ApplyLine, Removed
  <2>3. p \in Concerned(s) /\ Concerned(s) = FilesOf(op[s])
    BY <2>1 DEF Concerned, FilesOf, Adding, Removing, Moving
  <2>4. \A t \in Others(s) : Removing(t) => op[t].path # p
    BY <2>1, <2>3 DEF FilesInUse, Concerned, Adding, Removing, Others
  <2>5. Index' \ disk' \subseteq moved'
    BY <2>1, <2>2 DEF Recorded
  <2>6. \A r \in disk' : \/ r \in Index' \/ r \in dirty' \/ r \in FilesOf(op[s])
                         \/ \E t \in Others(s) : r \in Concerned(t)
    BY <2>1, <2>2, <2>3 DEF Recorded, InFlight, Others
  <2>7. \A t \in Others(s) : Removing(t) => (op[t].path \in Index' <=> op[t].path \in Index)
    BY <2>2, <2>4
  <2> QED BY <2>1, <2>2, <2>5, <2>6, <2>7, RecordedBy
<1>18. ASSUME NEW s \in Session, EraseFails(s) PROVE Recorded'
  <2>1. /\ pc' = Set(pc, s, "idle") /\ op' = Set(op, s, NoOp)
        /\ Index' = Index /\ disk' = disk /\ moved' = moved /\ dirty' = dirty \cup Concerned(s)
    BY <1>18, Zenon DEF EraseFails, Abandon, Index
  <2> QED BY <2>1, AbandonRecorded, Zenon
<1>19. ASSUME NEW s \in Session, UnlinkFile(s) PROVE Recorded'
  <2> DEFINE p == op[s].path
  <2>1. /\ pc[s] = "recordGone" /\ ~ Moving(s) /\ disk' = disk \ {p} /\ dirty' = dirty \ {p}
        /\ pc' = Set(pc, s, "idle") /\ op' = Set(op, s, NoOp) /\ moved' = moved /\ Index' = Index
    BY <1>19 DEF UnlinkFile, Index
  <2>2. op[s].kind = "remove"
    BY <2>1 DEF Operating, OperatingAt, Removing, Moving
  <2>3. Concerned(s) = {p} /\ p \notin Index
    BY <2>1, <2>2 DEF Concerned, Adding, Removing, Moving, Recorded
  <2>4. NoOp \in Operation /\ NoOp.kind = "none"
    BY OperationType
  <2>5. Index' \ disk' \subseteq moved'
    BY <2>1, <2>3 DEF Recorded
  <2>6. \A r \in disk' : r \in Index' \/ r \in dirty' \/ \E t \in Others(s) : r \in Concerned(t)
    BY <2>1, <2>3 DEF Recorded, InFlight, Others
  <2>7. \A t \in Others(s) : Removing(t) => (op[t].path \in Index' <=> op[t].path \in Index)
    BY <2>1
  <2> QED BY <2>1, <2>4, <2>5, <2>6, <2>7, RecordedBy
<1>20. ASSUME NEW s \in Session, AddMovedFile(s) PROVE Recorded'
  <2> DEFINE o == Op("add", op[s].dest, None)
  <2>1. /\ Moving(s) /\ op' = Set(op, s, o) /\ disk' = disk /\ dirty' = dirty /\ moved' = moved
        /\ Index' = Index
    BY <1>20 DEF AddMovedFile, Index
  <2>2. PICK step \in {"stat", "load"} : pc' = Set(pc, s, step)
    BY <1>20 DEF AddMovedFile
  <2>3. o \in Operation /\ o.kind = "add" /\ FilesOf(o) = {op[s].dest}
    BY <2>1, OperationType, SameOperation DEF Moving, FilesOf
  <2>4. Concerned(s) = {op[s].path, op[s].dest} /\ op[s].path \notin disk
    BY <2>1 DEF Concerned, Adding, Removing, Moving, FilesInUse
  <2> HIDE DEF o
  <2> QED BY <2>1, <2>2, <2>3, <2>4, SameRecorded
<1>21. ASSUME NEW s \in Session, ScanDisk(s) PROVE Recorded'
  <2>1. PastScan(s)'
    BY <1>21 DEF ScanDisk, TypeOK, PastScan, Rebuilding, RebuildSteps
  <2> QED BY <2>1 DEF Free
<1>22. ASSUME NEW s \in Session, WriteTmp(s) PROVE Recorded'
  BY <1>22 DEF WriteTmp, Free, PastScan, Rebuilding, RebuildSteps
<1>23. ASSUME NEW s \in Session, DeleteBase(s) PROVE Recorded'
  BY <1>23 DEF DeleteBase, Free, PastScan, Rebuilding, RebuildSteps
<1>24. ASSUME NEW s \in Session, MoveTmp(s) PROVE Recorded'
  BY <1>24 DEF MoveTmp, Free, PastScan, Rebuilding, RebuildSteps
<1>25. ASSUME NEW s \in Session, DeleteChanges(s) PROVE Recorded'
  BY <1>25 DEF DeleteChanges, Free, PastScan, Rebuilding, RebuildSteps
<1>26. CASE UNCHANGED vars
  <2>1. UNCHANGED <<base, changes, disk, moved, dirty, pc, op>>
    BY <1>26
  <2> QED BY <2>1 DEF Recorded, Index, InFlight, Concerned, Adding, Removing, Moving
<1> QED BY <1>1, <1>2, <1>3, <1>4, <1>5, <1>6, <1>7, <1>8, <1>9, <1>10, <1>11, <1>12, <1>13,
       <1>14, <1>15, <1>16, <1>17, <1>18, <1>19, <1>20, <1>21, <1>22, <1>23, <1>24, <1>25,
       <1>26 DEF Next, Step

\* Who does something with the database finds nobody in the way, or has been
\* told so.
LEMMA Unhindered ==
  ASSUME Operating, Rebuilt, NEW s \in Session, ~ collided,
         pc[s] \notin {"idle"} \cup RebuildSteps
  PROVE  Free
BY NobodyRebuilds DEF Free, PastScan, Rebuilding, RebuildSteps

\* An error has a cause.
LEMMA UndamagedStep ==
  ASSUME TypeOK, Operating, Rebuilt, Readable, Appending, Recorded, Undamaged, [Next]_vars
  PROVE  Undamaged'
<1> USE DEF vars, diskVars, sessionVars, historyVars, Goto, Set, Done, Op, NoOp
<1>1. ASSUME NEW s \in Session, Query(s) PROVE Undamaged'
  <2>1. damaged' = damaged /\ (collided => collided')
    BY <1>1 DEF Query, Begin, Collide
  <2> QED BY <2>1 DEF Undamaged
<1>2. ASSUME NEW s \in Session, Refresh(s) PROVE Undamaged'
  <2>1. damaged' = damaged /\ (collided => collided')
    BY <1>2 DEF Refresh
  <2> QED BY <2>1 DEF Undamaged
<1>3. ASSUME NEW s \in Session, Deliver(s) PROVE Undamaged'
  <2>1. damaged' = damaged /\ (collided => collided')
    BY <1>3 DEF Deliver
  <2> QED BY <2>1 DEF Undamaged
<1>4. ASSUME NEW s \in Session, Exit(s) PROVE Undamaged'
  <2>1. damaged' = damaged /\ (collided => collided')
    BY <1>4 DEF Exit, Collide
  <2> QED BY <2>1 DEF Undamaged
<1>5. ASSUME NEW s \in Session, NEW p \in Path, AddFile(s, p) PROVE Undamaged'
  <2>1. damaged' = damaged /\ (collided => collided')
    BY <1>5 DEF AddFile, Begin, Collide
  <2> QED BY <2>1 DEF Undamaged
<1>6. ASSUME NEW s \in Session, NEW p \in Path, RemoveFile(s, p) PROVE Undamaged'
  <2>1. damaged' = damaged /\ (collided => collided')
    BY <1>6 DEF RemoveFile, Begin, Collide
  <2> QED BY <2>1 DEF Undamaged
<1>7. ASSUME NEW s \in Session, NEW p \in Path, NEW q \in Path, MoveFile(s, p, q) PROVE Undamaged'
  <2>1. damaged' = damaged /\ (collided => collided')
    BY <1>7 DEF MoveFile, Begin, Collide
  <2> QED BY <2>1 DEF Undamaged
<1>8. ASSUME NEW s \in Session, Load(s) PROVE Undamaged'
  <2>1. damaged' = damaged /\ (collided => collided')
    BY <1>8 DEF Load
  <2> QED BY <2>1 DEF Undamaged
<1>9. ASSUME NEW s \in Session, StatChangeFile(s) PROVE Undamaged'
  <2>1. damaged' = damaged /\ (collided => collided')
    BY <1>9, StatCollides DEF StatChangeFile
  <2> QED BY <2>1 DEF Undamaged
<1>10. ASSUME NEW s \in Session, ReadChangeFile(s) PROVE Undamaged'
  <2> SUFFICES ASSUME ~ collided PROVE damaged' = damaged
    BY <1>10 DEF Undamaged, ReadChangeFile
  <2>1. Free
    BY <1>10, Unhindered DEF ReadChangeFile, RebuildSteps
  <2>2. loaded[s] /\ changes.lines \in Seq(Line) /\ base.files \in SUBSET Path
    BY <1>10 DEF ReadChangeFile, Operating, OperatingAt, ApplySteps, TypeOK, FileState
  <2>3. PICK k \in 0..Len(changes.lines) : Applied(s, k)
    BY <2>1, <2>2 DEF Readable
  <2>4. ReadOn(view[s], offset[s], changes.lines)
          = [view |-> Index, offset |-> Size(changes.lines), damaged |-> "no"]
    BY <2>1, <2>2, <2>3, ReadToEnd DEF Applied, AllViews, Index, Readable
  <2> QED BY <1>10, <2>4 DEF ReadChangeFile, Raise
<1>11. ASSUME NEW s \in Session, ReadFails(s) PROVE Undamaged'
  <2>1. damaged' = damaged /\ (collided => collided')
    BY <1>11 DEF ReadFails
  <2> QED BY <2>1 DEF Undamaged
<1>12. ASSUME NEW s \in Session, ClearModified(s) PROVE Undamaged'
  <2>1. damaged' = damaged /\ (collided => collided')
    BY <1>12 DEF ClearModified, Collide
  <2> QED BY <2>1 DEF Undamaged
<1>13. ASSUME NEW s \in Session, OpenChangeFile(s) PROVE Undamaged'
  <2>1. damaged' = damaged /\ (collided => collided')
    BY <1>13 DEF OpenChangeFile
  <2> QED BY <2>1 DEF Undamaged
<1>14. ASSUME NEW s \in Session, LockChangeFile(s) PROVE Undamaged'
  <2>1. damaged' = damaged /\ (collided => collided')
    BY <1>14 DEF LockChangeFile, Collide
  <2> QED BY <2>1 DEF Undamaged
<1>15. ASSUME NEW s \in Session, LockTimesOut(s) PROVE Undamaged'
  <2>1. damaged' = damaged /\ (collided => collided')
    BY <1>15 DEF LockTimesOut
  <2> QED BY <2>1 DEF Undamaged
<1>16. ASSUME NEW s \in Session, AppendAdd(s) PROVE Undamaged'
  <2>1. damaged' = damaged /\ (collided => collided')
    BY <1>16 DEF AppendAdd
  <2> QED BY <2>1 DEF Undamaged
<1>17. ASSUME NEW s \in Session, AppendRemove(s) PROVE Undamaged'
  <2>1. damaged' = damaged /\ (collided => collided')
    BY <1>17 DEF AppendRemove
  <2> QED BY <2>1 DEF Undamaged
<1>18. ASSUME NEW s \in Session, EraseFails(s) PROVE Undamaged'
  <2> SUFFICES ASSUME ~ collided PROVE FALSE
    BY <1>18 DEF Undamaged, EraseFails
  <2>1. Free /\ pc[s] = "append" /\ Removing(s) /\ op[s].path \notin view[s]
    BY <1>18, Unhindered DEF EraseFails, RebuildSteps
  <2>2. loaded[s] /\ op[s].phase = "update" /\ ~ Stale(s)
    BY <2>1 DEF Operating, OperatingAt, Appending
  <2>3. view[s] = Index /\ op[s].path \in Index
    BY <2>1, <2>2, UpToDate DEF Recorded
  <2> QED BY <2>1, <2>3
<1>19. ASSUME NEW s \in Session, UnlinkFile(s) PROVE Undamaged'
  <2>1. damaged' = damaged /\ (collided => collided')
    BY <1>19 DEF UnlinkFile
  <2> QED BY <2>1 DEF Undamaged
<1>20. ASSUME NEW s \in Session, AddMovedFile(s) PROVE Undamaged'
  <2>1. damaged' = damaged /\ (collided => collided')
    BY <1>20 DEF AddMovedFile
  <2> QED BY <2>1 DEF Undamaged
<1>21. ASSUME NEW s \in Session, ScanDisk(s) PROVE Undamaged'
  <2>1. collided' \/ damaged' = "no"
    BY <1>21 DEF ScanDisk
  <2> QED BY <2>1 DEF Undamaged
<1>22. ASSUME NEW s \in Session, WriteTmp(s) PROVE Undamaged'
  <2>1. damaged' = damaged /\ (collided => collided')
    BY <1>22 DEF WriteTmp
  <2> QED BY <2>1 DEF Undamaged
<1>23. ASSUME NEW s \in Session, DeleteBase(s) PROVE Undamaged'
  <2>1. damaged' = damaged /\ (collided => collided')
    BY <1>23 DEF DeleteBase
  <2> QED BY <2>1 DEF Undamaged
<1>24. ASSUME NEW s \in Session, MoveTmp(s) PROVE Undamaged'
  <2>1. damaged' = damaged /\ (collided => collided')
    BY <1>24 DEF MoveTmp
  <2> QED BY <2>1 DEF Undamaged
<1>25. ASSUME NEW s \in Session, DeleteChanges(s) PROVE Undamaged'
  <2>1. damaged' = damaged /\ (collided => collided')
    BY <1>25 DEF DeleteChanges
  <2> QED BY <2>1 DEF Undamaged
<1>26. CASE UNCHANGED vars
  <2>1. damaged' = damaged /\ collided' = collided
    BY <1>26
  <2> QED BY <2>1 DEF Undamaged
<1> QED BY <1>1, <1>2, <1>3, <1>4, <1>5, <1>6, <1>7, <1>8, <1>9, <1>10, <1>11, <1>12, <1>13,
       <1>14, <1>15, <1>16, <1>17, <1>18, <1>19, <1>20, <1>21, <1>22, <1>23, <1>24, <1>25,
       <1>26 DEF Next, Step

\* The session s need not be told what it is not told.
SkipsRightly(s) ==
  loaded[s] /\ pc[s] \notin {"read", "clear", "raise", "scan"} =>
    modified[s] \/ event[s] \/ ~ Stale(s)

\* The change file is the same, and so is what s knows of it.
LEMMA SameNotified ==
  ASSUME TypeOK, Notified, NEW s \in Session, NEW step, pc' = Set(pc, s, step),
         ~ collided' /\ ~ lost' => ~ collided /\ ~ lost,
         changes'.lines = changes.lines,
         \A t \in Others(s) : loaded'[t] = loaded[t] /\ modified'[t] = modified[t]
                              /\ event'[t] = event[t] /\ offset'[t] = offset[t],
         ~ collided' /\ ~ lost' => SkipsRightly(s)'
  PROVE  Notified'
<1>1. \A t \in Others(s) : pc'[t] = pc[t]
  BY DEF TypeOK, Set, Others
<1>2. ASSUME ~ collided', ~ lost', NEW t \in Session PROVE SkipsRightly(t)'
  <2>1. CASE t = s
    BY <1>2, <2>1
  <2>2. CASE t # s
    <3>1. SkipsRightly(t)
      BY <1>2 DEF Notified, SkipsRightly
    <3>2. t \in Others(s)
      BY <2>2 DEF Others
    <3> QED BY <3>1, <3>2, <1>1 DEF SkipsRightly, Stale
  <2> QED BY <2>1, <2>2
<1> QED BY <1>2 DEF Notified, SkipsRightly

\* While somebody rebuilds, nobody else has anything in memory.
LEMMA AllUnloaded ==
  ASSUME Operating, Rebuilt, ~ collided, NEW s \in Session, PastScan(s)
  PROVE  \A t \in Session : ~ loaded[t]
BY DEF Operating, OperatingAt, Rebuilt, Others

\* Who will skip the change file has applied it, or is told.
LEMMA NotifiedStep ==
  ASSUME TypeOK, Operating, Rebuilt, Readable, Appending, Notified, [Next]_vars
  PROVE  Notified'
<1> USE DEF vars, diskVars, sessionVars, historyVars, Goto, Set, Done, Op, NoOp
<1>1. ASSUME NEW s \in Session, Query(s) PROVE Notified'
  <2>1. PICK step \in {"stat", "load"} : pc' = Set(pc, s, step)
    BY <1>1 DEF Query, Begin
  <2>2. /\ ~ collided' /\ ~ lost' => ~ collided /\ ~ lost
        /\ changes'.lines = changes.lines
        /\ \A t \in Others(s) : loaded'[t] = loaded[t] /\ modified'[t] = modified[t]
                               /\ event'[t] = event[t] /\ offset'[t] = offset[t]
    BY <1>1 DEF Query, Begin, Collide, TypeOK, Others
  <2>3. ~ collided' /\ ~ lost' => SkipsRightly(s)'
    BY <1>1, <2>1, <2>2 DEF Query, Begin, Collide, SkipsRightly, Stale, TypeOK, Notified
  <2> QED BY <2>1, <2>2, <2>3, SameNotified
<1>2. ASSUME NEW s \in Session, Refresh(s) PROVE Notified'
  <2>1. PICK step \in {"scan"} : pc' = Set(pc, s, step)
    BY <1>2 DEF Refresh
  <2>2. /\ ~ collided' /\ ~ lost' => ~ collided /\ ~ lost
        /\ changes'.lines = changes.lines
        /\ \A t \in Others(s) : loaded'[t] = loaded[t] /\ modified'[t] = modified[t]
                               /\ event'[t] = event[t] /\ offset'[t] = offset[t]
    BY <1>2 DEF Refresh, Collide, TypeOK, Others
  <2>3. ~ collided' /\ ~ lost' => SkipsRightly(s)'
    BY <1>2, <2>1, <2>2 DEF Refresh, Collide, SkipsRightly, Stale, TypeOK, Notified
  <2> QED BY <2>1, <2>2, <2>3, SameNotified
<1>3. ASSUME NEW s \in Session, Deliver(s) PROVE Notified'
  <2>1. PICK step \in {pc[s]} : pc' = Set(pc, s, step)
    BY <1>3 DEF Deliver, TypeOK
  <2>2. /\ ~ collided' /\ ~ lost' => ~ collided /\ ~ lost
        /\ changes'.lines = changes.lines
        /\ \A t \in Others(s) : loaded'[t] = loaded[t] /\ modified'[t] = modified[t]
                               /\ event'[t] = event[t] /\ offset'[t] = offset[t]
    BY <1>3 DEF Deliver, TypeOK, Others
  <2>3. SkipsRightly(s)'
    BY <1>3 DEF Deliver, SkipsRightly, TypeOK
  <2> QED BY <2>1, <2>2, <2>3, SameNotified
<1>4. ASSUME NEW s \in Session, Exit(s) PROVE Notified'
  <2>1. PICK step \in {"idle"} : pc' = Set(pc, s, step)
    BY <1>4 DEF Exit, Abandon, Unload
  <2>2. /\ ~ collided' /\ ~ lost' => ~ collided /\ ~ lost
        /\ changes'.lines = changes.lines
        /\ \A t \in Others(s) : loaded'[t] = loaded[t] /\ modified'[t] = modified[t]
                               /\ event'[t] = event[t] /\ offset'[t] = offset[t]
    BY <1>4 DEF Exit, Abandon, Unload, Collide, TypeOK, Others
  <2>3. ~ collided' /\ ~ lost' => SkipsRightly(s)'
    BY <1>4, <2>1, <2>2 DEF Exit, Abandon, Unload, Collide, SkipsRightly, Stale, TypeOK
  <2> QED BY <2>1, <2>2, <2>3, SameNotified
<1>5. ASSUME NEW s \in Session, NEW p \in Path, AddFile(s, p) PROVE Notified'
  <2>1. PICK step \in {"stat", "load"} : pc' = Set(pc, s, step)
    BY <1>5 DEF AddFile, Begin
  <2>2. /\ ~ collided' /\ ~ lost' => ~ collided /\ ~ lost
        /\ changes'.lines = changes.lines
        /\ \A t \in Others(s) : loaded'[t] = loaded[t] /\ modified'[t] = modified[t]
                               /\ event'[t] = event[t] /\ offset'[t] = offset[t]
    BY <1>5 DEF AddFile, Begin, Collide, TypeOK, Others
  <2>3. ~ collided' /\ ~ lost' => SkipsRightly(s)'
    BY <1>5, <2>1, <2>2 DEF AddFile, Begin, Collide, SkipsRightly, Stale, TypeOK, Notified
  <2> QED BY <2>1, <2>2, <2>3, SameNotified
<1>6. ASSUME NEW s \in Session, NEW p \in Path, RemoveFile(s, p) PROVE Notified'
  <2>1. PICK step \in {"stat", "load"} : pc' = Set(pc, s, step)
    BY <1>6 DEF RemoveFile, Begin
  <2>2. /\ ~ collided' /\ ~ lost' => ~ collided /\ ~ lost
        /\ changes'.lines = changes.lines
        /\ \A t \in Others(s) : loaded'[t] = loaded[t] /\ modified'[t] = modified[t]
                               /\ event'[t] = event[t] /\ offset'[t] = offset[t]
    BY <1>6 DEF RemoveFile, Begin, Collide, TypeOK, Others
  <2>3. ~ collided' /\ ~ lost' => SkipsRightly(s)'
    BY <1>6, <2>1, <2>2 DEF RemoveFile, Begin, Collide, SkipsRightly, Stale, TypeOK,
       Notified
  <2> QED BY <2>1, <2>2, <2>3, SameNotified
<1>7. ASSUME NEW s \in Session, NEW p \in Path, NEW q \in Path, MoveFile(s, p, q) PROVE Notified'
  <2>1. PICK step \in {"stat", "load"} : pc' = Set(pc, s, step)
    BY <1>7 DEF MoveFile, Begin
  <2>2. /\ ~ collided' /\ ~ lost' => ~ collided /\ ~ lost
        /\ changes'.lines = changes.lines
        /\ \A t \in Others(s) : loaded'[t] = loaded[t] /\ modified'[t] = modified[t]
                               /\ event'[t] = event[t] /\ offset'[t] = offset[t]
    BY <1>7 DEF MoveFile, Begin, Collide, TypeOK, Others
  <2>3. ~ collided' /\ ~ lost' => SkipsRightly(s)'
    BY <1>7, <2>1, <2>2 DEF MoveFile, Begin, Collide, SkipsRightly, Stale, TypeOK, Notified
  <2> QED BY <2>1, <2>2, <2>3, SameNotified
<1>8. ASSUME NEW s \in Session, Load(s) PROVE Notified'
  <2>1. CASE base.exists
    <3>1. LoadEffect(s)
      BY <1>8, <2>1, LoadCases
    <3>2. PICK step \in {"stat"} : pc' = Set(pc, s, step)
      BY <3>1 DEF LoadEffect
    <3>3. /\ ~ collided' /\ ~ lost' => ~ collided /\ ~ lost
          /\ changes'.lines = changes.lines
          /\ \A t \in Others(s) : loaded'[t] = loaded[t] /\ modified'[t] = modified[t]
                                 /\ event'[t] = event[t] /\ offset'[t] = offset[t]
      BY <3>1 DEF LoadEffect, TypeOK, Others
    <3>4. SkipsRightly(s)'
      BY <3>1 DEF LoadEffect, SkipsRightly, TypeOK
    <3> QED BY <3>2, <3>3, <3>4, SameNotified
  <2>2. CASE ~ base.exists
    <3>1. NoLoadEffect(s)
      BY <1>8, <2>2, NoLoadCases
    <3>2. PICK step \in {"idle", "recordGone", "scan"} : pc' = Set(pc, s, step)
      BY <3>1 DEF NoLoadEffect
    <3>3. /\ ~ collided' /\ ~ lost' => ~ collided /\ ~ lost
          /\ changes'.lines = changes.lines
          /\ \A t \in Others(s) : loaded'[t] = loaded[t] /\ modified'[t] = modified[t]
                                 /\ event'[t] = event[t] /\ offset'[t] = offset[t]
      BY <3>1 DEF NoLoadEffect
    <3>4. ~ collided' /\ ~ lost' => SkipsRightly(s)'
      BY <3>1, <3>2, <3>3 DEF NoLoadEffect, SkipsRightly, Stale, Notified, TypeOK
    <3> QED BY <3>2, <3>3, <3>4, SameNotified
  <2> QED BY <2>1, <2>2
<1>9. ASSUME NEW s \in Session, StatChangeFile(s) PROVE Notified'
  <2>1. StatEffect(s)
    BY <1>9, StatCases
  <2>2. PICK step \in {"idle", "stat", "open", "recordGone", "scan", "read", "clear"} :
          /\ pc' = Set(pc, s, step)
          /\ ~ modified[s] \/ step \in {"read", "clear"}
    BY <2>1 DEF StatEffect
  <2>3. /\ ~ collided' /\ ~ lost' => ~ collided /\ ~ lost
        /\ changes'.lines = changes.lines
        /\ \A t \in Others(s) : loaded'[t] = loaded[t] /\ modified'[t] = modified[t]
                               /\ event'[t] = event[t] /\ offset'[t] = offset[t]
    BY <1>9, <2>1, StatCollides DEF StatEffect
  <2>4. pc[s] = "stat" /\ UNCHANGED <<loaded, modified, event, offset>>
    BY <2>1 DEF StatEffect
  <2>5. ~ collided' /\ ~ lost' => SkipsRightly(s)'
    BY <2>2, <2>3, <2>4 DEF SkipsRightly, Stale, Notified, TypeOK
  <2> QED BY <2>2, <2>3, <2>5, SameNotified
<1>10. ASSUME NEW s \in Session, ReadChangeFile(s) PROVE Notified'
  <2>1. PICK step \in {"clear", "raise"} : pc' = Set(pc, s, step)
    BY <1>10 DEF ReadChangeFile
  <2>2. /\ ~ collided' /\ ~ lost' => ~ collided /\ ~ lost
        /\ changes'.lines = changes.lines
        /\ \A t \in Others(s) : loaded'[t] = loaded[t] /\ modified'[t] = modified[t]
                               /\ event'[t] = event[t] /\ offset'[t] = offset[t]
    BY <1>10 DEF ReadChangeFile, Collide, TypeOK, Others
  <2>3. ~ collided' /\ ~ lost' => SkipsRightly(s)'
    BY <1>10, <2>1, <2>2 DEF ReadChangeFile, Collide, SkipsRightly, Stale, TypeOK
  <2> QED BY <2>1, <2>2, <2>3, SameNotified
<1>11. ASSUME NEW s \in Session, ReadFails(s) PROVE Notified'
  <2>1. PICK step \in {"raise"} : pc' = Set(pc, s, step)
    BY <1>11 DEF ReadFails
  <2>2. /\ ~ collided' /\ ~ lost' => ~ collided /\ ~ lost
        /\ changes'.lines = changes.lines
        /\ \A t \in Others(s) : loaded'[t] = loaded[t] /\ modified'[t] = modified[t]
                               /\ event'[t] = event[t] /\ offset'[t] = offset[t]
    BY <1>11 DEF ReadFails, Collide, TypeOK, Others
  <2>3. ~ collided' /\ ~ lost' => SkipsRightly(s)'
    BY <1>11, <2>1, <2>2 DEF ReadFails, Collide, SkipsRightly, Stale, TypeOK
  <2> QED BY <2>1, <2>2, <2>3, SameNotified
<1>12. ASSUME NEW s \in Session, ClearModified(s) PROVE Notified'
  <2>1. ClearEffect(s)
    BY <1>12, ClearCases
  <2>2. PICK step \in {"idle", "stat", "open", "recordGone", "scan"} : pc' = Set(pc, s, step)
    BY <2>1 DEF ClearEffect
  <2> DEFINE dropped == pc[s] = "raise" /\ op[s].fresh
  <2>3. /\ lost' = (lost \/ (Stale(s) /\ ~ event[s] /\ ~ dropped))
        /\ collided => collided'
        /\ IF dropped THEN Unload(s) ELSE UNCHANGED <<loaded, view, offset, event>>
    BY <1>12, Zenon DEF ClearModified, Collide
  <2>4. /\ ~ collided' /\ ~ lost' => ~ collided /\ ~ lost
        /\ changes'.lines = changes.lines
        /\ \A t \in Others(s) : loaded'[t] = loaded[t] /\ modified'[t] = modified[t]
                               /\ event'[t] = event[t] /\ offset'[t] = offset[t]
    BY <2>1, <2>3 DEF ClearEffect, Unload, TypeOK, Others
  <2>5. ~ lost' => SkipsRightly(s)'
    <3>1. CASE dropped
      BY <2>3, <3>1 DEF Unload, SkipsRightly, TypeOK
    <3>2. CASE ~ dropped
      BY <2>3, <2>4, <3>2 DEF SkipsRightly, Stale
    <3> QED BY <3>1, <3>2
  <2> QED BY <2>2, <2>4, <2>5, SameNotified
<1>13. ASSUME NEW s \in Session, OpenChangeFile(s) PROVE Notified'
  <2>1. PICK step \in {"lock"} : pc' = Set(pc, s, step)
    BY <1>13 DEF OpenChangeFile
  <2>2. /\ ~ collided' /\ ~ lost' => ~ collided /\ ~ lost
        /\ changes'.lines = changes.lines
        /\ \A t \in Others(s) : loaded'[t] = loaded[t] /\ modified'[t] = modified[t]
                               /\ event'[t] = event[t] /\ offset'[t] = offset[t]
    BY <1>13 DEF OpenChangeFile, Collide, TypeOK, Others
  <2>3. ~ collided' /\ ~ lost' => SkipsRightly(s)'
    BY <1>13, <2>1, <2>2 DEF OpenChangeFile, Collide, SkipsRightly, Stale, TypeOK, Notified
  <2> QED BY <2>1, <2>2, <2>3, SameNotified
<1>14. ASSUME NEW s \in Session, LockChangeFile(s) PROVE Notified'
  <2>1. PICK step \in {"append"} : pc' = Set(pc, s, step)
    BY <1>14 DEF LockChangeFile
  <2>2. /\ ~ collided' /\ ~ lost' => ~ collided /\ ~ lost
        /\ changes'.lines = changes.lines
        /\ \A t \in Others(s) : loaded'[t] = loaded[t] /\ modified'[t] = modified[t]
                               /\ event'[t] = event[t] /\ offset'[t] = offset[t]
    BY <1>14 DEF LockChangeFile, Collide, TypeOK, Others
  <2>3. ~ collided' /\ ~ lost' => SkipsRightly(s)'
    BY <1>14, <2>1, <2>2 DEF LockChangeFile, Collide, SkipsRightly, Stale, TypeOK, Notified
  <2> QED BY <2>1, <2>2, <2>3, SameNotified
<1>15. ASSUME NEW s \in Session, LockTimesOut(s) PROVE Notified'
  <2>1. PICK step \in {"idle"} : pc' = Set(pc, s, step)
    BY <1>15 DEF LockTimesOut, Abandon
  <2>2. /\ ~ collided' /\ ~ lost' => ~ collided /\ ~ lost
        /\ changes'.lines = changes.lines
        /\ \A t \in Others(s) : loaded'[t] = loaded[t] /\ modified'[t] = modified[t]
                               /\ event'[t] = event[t] /\ offset'[t] = offset[t]
    BY <1>15 DEF LockTimesOut, Abandon, Collide, TypeOK, Others
  <2>3. ~ collided' /\ ~ lost' => SkipsRightly(s)'
    BY <1>15, <2>1, <2>2 DEF LockTimesOut, Abandon, Collide, SkipsRightly, Stale, TypeOK,
       Notified
  <2> QED BY <2>1, <2>2, <2>3, SameNotified
<1>16. ASSUME NEW s \in Session, AppendAdd(s) PROVE Notified'
  <2>1. CASE op[s].path \in view[s]
    <3>1. PICK step \in {"idle"} : pc' = Set(pc, s, step)
      BY <1>16 DEF AppendAdd
    <3>2. /\ ~ collided' /\ ~ lost' => ~ collided /\ ~ lost
          /\ changes'.lines = changes.lines
          /\ \A t \in Others(s) : loaded'[t] = loaded[t] /\ modified'[t] = modified[t]
                                 /\ event'[t] = event[t] /\ offset'[t] = offset[t]
      BY <1>16, <2>1 DEF AppendAdd, TypeOK, Others
    <3>3. SkipsRightly(s)'
      BY <1>16, <2>1 DEF AppendAdd, SkipsRightly, TypeOK
    <3> QED BY <3>1, <3>2, <3>3, SameNotified
  <2>2. CASE op[s].path \notin view[s]
    <3>1. ASSUME ~ collided' PROVE event' = [t \in Session |-> event[t] \/ loaded[t]]
      <4>1. Free /\ s \notin orphan
        BY <1>16, <3>1, Unhindered DEF AppendAdd, RebuildSteps, Appending, Free
      <4> QED BY <1>16, <4>1, <2>2, Zenon DEF AppendAdd, WriteLine, WriteLineCounting
    <3>2. loaded' = loaded
      BY <1>16 DEF AppendAdd
    <3> QED BY <3>1, <3>2 DEF Notified
  <2> QED BY <2>1, <2>2
<1>17. ASSUME NEW s \in Session, AppendRemove(s) PROVE Notified'
  <2>1. ASSUME ~ collided' PROVE event' = [t \in Session |-> event[t] \/ loaded[t]]
    <3>1. Free /\ s \notin orphan
      BY <1>17, <2>1, Unhindered DEF AppendRemove, RebuildSteps, Appending, Free
    <3> QED BY <1>17, <3>1, Zenon DEF AppendRemove, WriteLine, WriteLineCounting
  <2>2. loaded' = loaded
    BY <1>17 DEF AppendRemove
  <2> QED BY <2>1, <2>2 DEF Notified
<1>18. ASSUME NEW s \in Session, EraseFails(s) PROVE Notified'
  <2>1. PICK step \in {"idle"} : pc' = Set(pc, s, step)
    BY <1>18 DEF EraseFails, Abandon
  <2>2. /\ ~ collided' /\ ~ lost' => ~ collided /\ ~ lost
        /\ changes'.lines = changes.lines
        /\ \A t \in Others(s) : loaded'[t] = loaded[t] /\ modified'[t] = modified[t]
                               /\ event'[t] = event[t] /\ offset'[t] = offset[t]
    BY <1>18 DEF EraseFails, Abandon, Collide, TypeOK, Others
  <2>3. ~ collided' /\ ~ lost' => SkipsRightly(s)'
    BY <1>18, <2>1, <2>2 DEF EraseFails, Abandon, Collide, SkipsRightly, Stale, TypeOK,
       Notified
  <2> QED BY <2>1, <2>2, <2>3, SameNotified
<1>19. ASSUME NEW s \in Session, UnlinkFile(s) PROVE Notified'
  <2>1. PICK step \in {"idle"} : pc' = Set(pc, s, step)
    BY <1>19 DEF UnlinkFile
  <2>2. /\ ~ collided' /\ ~ lost' => ~ collided /\ ~ lost
        /\ changes'.lines = changes.lines
        /\ \A t \in Others(s) : loaded'[t] = loaded[t] /\ modified'[t] = modified[t]
                               /\ event'[t] = event[t] /\ offset'[t] = offset[t]
    BY <1>19 DEF UnlinkFile, Collide, TypeOK, Others
  <2>3. ~ collided' /\ ~ lost' => SkipsRightly(s)'
    BY <1>19, <2>1, <2>2 DEF UnlinkFile, Collide, SkipsRightly, Stale, TypeOK, Notified
  <2> QED BY <2>1, <2>2, <2>3, SameNotified
<1>20. ASSUME NEW s \in Session, AddMovedFile(s) PROVE Notified'
  <2>1. PICK step \in {"stat", "load"} : pc' = Set(pc, s, step)
    BY <1>20 DEF AddMovedFile
  <2>2. /\ ~ collided' /\ ~ lost' => ~ collided /\ ~ lost
        /\ changes'.lines = changes.lines
        /\ \A t \in Others(s) : loaded'[t] = loaded[t] /\ modified'[t] = modified[t]
                               /\ event'[t] = event[t] /\ offset'[t] = offset[t]
    BY <1>20 DEF AddMovedFile, Collide, TypeOK, Others
  <2>3. ~ collided' /\ ~ lost' => SkipsRightly(s)'
    BY <1>20, <2>1, <2>2 DEF AddMovedFile, Collide, SkipsRightly, Stale, TypeOK, Notified
  <2> QED BY <2>1, <2>2, <2>3, SameNotified
<1>21. ASSUME NEW s \in Session, ScanDisk(s) PROVE Notified'
  <2>1. ~ collided' => \A t \in Session : ~ loaded'[t]
    BY <1>21 DEF ScanDisk, Others, TypeOK
  <2> QED BY <2>1 DEF Notified
<1>22. ASSUME NEW s \in Session, WriteTmp(s) PROVE Notified'
  <2>1. PICK step \in {"deleteBase"} : pc' = Set(pc, s, step)
    BY <1>22 DEF WriteTmp
  <2>2. /\ ~ collided' /\ ~ lost' => ~ collided /\ ~ lost
        /\ changes'.lines = changes.lines
        /\ \A t \in Others(s) : loaded'[t] = loaded[t] /\ modified'[t] = modified[t]
                               /\ event'[t] = event[t] /\ offset'[t] = offset[t]
    BY <1>22 DEF WriteTmp, Collide, TypeOK, Others
  <2>3. ~ collided' /\ ~ lost' => SkipsRightly(s)'
    BY <1>22, <2>1, <2>2 DEF WriteTmp, Collide, SkipsRightly, Stale, TypeOK, Operating,
       OperatingAt, PastScan, Rebuilding, RebuildSteps
  <2> QED BY <2>1, <2>2, <2>3, SameNotified
<1>23. ASSUME NEW s \in Session, DeleteBase(s) PROVE Notified'
  <2>1. PICK step \in {"move"} : pc' = Set(pc, s, step)
    BY <1>23 DEF DeleteBase
  <2>2. /\ ~ collided' /\ ~ lost' => ~ collided /\ ~ lost
        /\ changes'.lines = changes.lines
        /\ \A t \in Others(s) : loaded'[t] = loaded[t] /\ modified'[t] = modified[t]
                               /\ event'[t] = event[t] /\ offset'[t] = offset[t]
    BY <1>23 DEF DeleteBase, Collide, TypeOK, Others
  <2>3. ~ collided' /\ ~ lost' => SkipsRightly(s)'
    BY <1>23, <2>1, <2>2 DEF DeleteBase, Collide, SkipsRightly, Stale, TypeOK, Operating,
       OperatingAt, PastScan, Rebuilding, RebuildSteps
  <2> QED BY <2>1, <2>2, <2>3, SameNotified
<1>24. ASSUME NEW s \in Session, MoveTmp(s) PROVE Notified'
  <2>1. PastScan(s) /\ loaded' = loaded /\ collided' = collided
    BY <1>24 DEF MoveTmp, PastScan, Rebuilding, RebuildSteps
  <2> QED BY <2>1, AllUnloaded DEF Notified
<1>25. ASSUME NEW s \in Session, DeleteChanges(s) PROVE Notified'
  <2>1. PastScan(s) /\ loaded' = loaded /\ collided' = collided
    BY <1>25 DEF DeleteChanges, PastScan, Rebuilding, RebuildSteps
  <2> QED BY <2>1, AllUnloaded DEF Notified
<1>26. CASE UNCHANGED vars
  <2>1. UNCHANGED <<collided, lost, loaded, pc, modified, event, offset, changes>>
    BY <1>26
  <2> QED BY <2>1 DEF Notified, Stale
<1> QED BY <1>1, <1>2, <1>3, <1>4, <1>5, <1>6, <1>7, <1>8, <1>9, <1>10, <1>11, <1>12, <1>13,
       <1>14, <1>15, <1>16, <1>17, <1>18, <1>19, <1>20, <1>21, <1>22, <1>23, <1>24, <1>25,
       <1>26 DEF Next, Step

-----------------------------------------------------------------------------
(* The inductive invariant.                                                *)

IInv ==
  /\ TypeOK /\ Operating /\ FilesInUse /\ Rebuilt
  /\ Readable /\ Appending /\ Recorded /\ Undamaged /\ Notified

\* In the beginning the base file lists the files, and there is nothing else.
LEMMA InvariantInit ==
  ASSUME Init
  PROVE  IInv
<1>1. /\ \A s \in Session : pc[s] = "idle" /\ op[s] = NoOp /\ ~ loaded[s] /\ ~ event[s]
      /\ ~ collided /\ damaged = "no" /\ orphan = {} /\ moved = {}
      /\ base.exists /\ base.files = disk /\ changes.lines = <<>>
  BY DEF Init, NoChanges
<1>2. NoOp \in Operation /\ NoOp.kind = "none" /\ ~ NoOp.fresh
  BY OperationType DEF NoOp, Op
<1>3. TypeOK
  <2>1. base \in FileState /\ tmp \in FileState /\ changes \in [exists : BOOLEAN, lines : Seq(Line)]
    BY DEF Init, NoFile, NoChanges, FileState
  <2>2. op \in [Session -> Operation]
    <3> HIDE DEF NoOp
    <3> QED BY <1>2 DEF Init
  <2>3. /\ loaded \in [Session -> BOOLEAN] /\ modified \in [Session -> BOOLEAN]
        /\ event \in [Session -> BOOLEAN]
    BY DEF Init
  <2> QED BY <2>1, <2>2, <2>3 DEF Init, TypeOK, ApplySteps, UpdateSteps, RebuildSteps
<1> HIDE DEF NoOp
<1>4. Operating
  BY <1>1, <1>2 DEF Operating, OperatingAt, Rebuilding, PastScan, ApplySteps, RebuildSteps
<1>5. FilesInUse
  BY <1>1, <1>2 DEF FilesInUse, Concerned, Adding, Removing, Moving
<1>6. Rebuilt
  BY <1>1 DEF Rebuilt, PastScan, Rebuilding, RebuildSteps
<1>7. Index = disk
  <2>1. <<>> \in Seq(Line) /\ Len(<<>>) = 0 /\ 0 \in 0..Len(<<>>)
    OBVIOUS
  <2>2. Views(base.files, 0, <<>>)[0] = base.files
    BY <2>1, ViewsDef, Zenon
  <2> QED BY <1>1, <2>1, <2>2 DEF Index, Replay
<1>8. Readable
  BY <1>1 DEF Readable
<1>9. Appending /\ Undamaged /\ Notified
  BY <1>1 DEF Appending, Undamaged, Notified
<1>10. Recorded
  BY <1>1, <1>2, <1>7 DEF Recorded, Removing
<1> QED BY <1>3, <1>4, <1>5, <1>6, <1>8, <1>9, <1>10 DEF IInv

\* Every step preserves it.
LEMMA InvariantStep ==
  ASSUME IInv, [Next]_vars
  PROVE  IInv'
<1> USE DEF IInv
<1>1. TypeOK' /\ Operating' /\ FilesInUse' /\ Rebuilt' /\ Undamaged' /\ Notified'
  BY TypeStep, OperatingStep, FilesInUseStep, RebuiltStep, UndamagedStep, NotifiedStep
<1>2. Readable' /\ Appending' /\ Recorded'
  <2>1. CASE ~ Free'
    BY <2>1 DEF Readable, Appending, Recorded
  <2>2. CASE Free' /\ Free
    BY <2>2, ReadableStep, AppendingStep, RecordedStep
  <2>3. CASE Free' /\ \E s \in Session : DeleteChanges(s)
    <3>1. PICK s \in Session : DeleteChanges(s)
      BY <2>3
    <3>2. /\ base'.exists /\ changes'.lines = <<>> /\ Index' = disk' /\ orphan' = {}
          /\ \A t \in Session : ~ loaded'[t] /\ pc'[t] \in {"idle", "scan", "load"}
          /\ \A t \in Session : op'[t].kind \in {"none", "rebuild", "add"}
      BY <2>3, <3>1, AfterRebuild DEF Free
    <3>3. Readable'
      BY <3>2 DEF Readable
    <3>4. Appending' /\ Recorded'
      BY <3>2 DEF Appending, Recorded, Removing
    <3> QED BY <3>3, <3>4
  <2> QED BY <2>1, <2>2, <2>3, FreeStep
<1> QED BY <1>1, <1>2

\* The invariant holds in every state.
THEOREM Invariant == Spec => []IInv
<1>1. Init => IInv
  BY InvariantInit
<1>2. IInv /\ [Next]_vars => IInv'
  BY InvariantStep
<1> QED BY <1>1, <1>2, PTL DEF Spec
-----------------------------------------------------------------------------
(* What the database promises.                                             *)

\* Every variable stays in its range: of the locks, of the operations, of the
\* lines of the change file, which only ever are lines.
THEOREM TypeCorrect == Spec => []TypeOK
<1>1. IInv => TypeOK
  BY DEF IInv
<1> QED BY <1>1, Invariant, PTL

\* ApplyChangeFile leaves what a prefix of the change file makes of the base
\* file, and a size that tells which, unless sessions have got into each
\* other's way.
THEOREM ViewTheorem == Spec => []ViewIsReplay
<1>1. IInv => ViewIsReplay
  <2> SUFFICES ASSUME IInv, ~ collided, NEW s \in Session, loaded[s]
               PROVE  \E k \in 0..Len(changes.lines) :
                        /\ offset[s] = Starts(changes.lines)[k]
                        /\ view[s] = Views(base.files, 0, changes.lines)[k]
    BY DEF ViewIsReplay
  <2>1. Free
    BY AllUnloaded DEF IInv, Free
  <2> QED BY <2>1 DEF IInv, Readable, Applied, AllViews
<1> QED BY <1>1, Invariant, PTL

\* "FNDB damaged" is never raised before sessions have got into each other's
\* way, neither by ApplyChangeFile nor by EraseRecord, and no session has
\* applied more than there is in the change file.
THEOREM DamageTheorem == Spec => []DamageHasCause
<1>1. IInv => DamageHasCause
  <2> SUFFICES ASSUME IInv, ~ collided, NEW s \in Session, pc[s] = "stat", Stale(s)
               PROVE  damaged = "no" /\ Size(changes.lines) > offset[s]
    BY DEF IInv, Undamaged, DamageHasCause, ChangeFileGrows
  <2>1. damaged = "no"
    BY DEF IInv, Undamaged
  <2>2. Free /\ loaded[s] /\ changes.lines \in Seq(Line)
    BY AllUnloaded DEF IInv, Free, Operating, OperatingAt, ApplySteps, TypeOK, FileState
  <2>3. PICK k \in 0..Len(changes.lines) : offset[s] = Starts(changes.lines)[k]
    BY <2>2 DEF IInv, Readable, Applied
  <2>4. Size(changes.lines) \in Nat /\ offset[s] \in Nat /\ offset[s] # Size(changes.lines)
    BY <2>2, <2>3, StartsGrow DEF Stale
  <2>5. k \in 0..Len(changes.lines) /\ Len(changes.lines) \in Nat /\ k # Len(changes.lines)
    BY <2>2, <2>3, <2>4 DEF Size
  <2>6. k < Len(changes.lines)
    BY <2>5
  <2>7. offset[s] < Size(changes.lines)
    BY <2>2, <2>3, <2>5, <2>6, StartsGrow DEF Size
  <2> QED BY <2>1, <2>4, <2>7
<1> QED BY <1>1, Invariant, PTL

\* A session whose flag is clear, and whom no notification will reach, has
\* applied the whole change file.
THEOREM NothingMissedTheorem == Spec => []NothingMissed
<1>1. IInv => NothingMissed
  BY DEF IInv, Notified, NothingMissed
<1> QED BY <1>1, Invariant, PTL

\* The index lists the files that exist, but for those whose update is under
\* way or has been abandoned, and no others, but for those that were renamed.
THEOREM IndexTheorem == Spec => []IndexAgreesWithDisk
<1>1. IInv => IndexAgreesWithDisk
  <2> SUFFICES ASSUME IInv, Quiet
               PROVE  /\ Index \ disk \subseteq moved
                      /\ \A p \in disk : p \in Index \/ p \in dirty \/ InFlight(p) # {}
    BY DEF IndexAgreesWithDisk
  <2>1. Free
    BY DEF Quiet, Free, PastScan
  <2> QED BY <2>1 DEF IInv, Recorded
<1> QED BY <1>1, Invariant, PTL

\* A rebuild that nobody disturbs ends by deleting the change file.
LEMMA LastStep ==
  ASSUME TypeOK, NEW u \in Session, pc[u] = "deleteChanges", pc'[u] # "deleteChanges",
         ~ collided', [Next]_vars
  PROVE  DeleteChanges(u)
<1> USE DEF vars, diskVars, sessionVars, historyVars, Goto, Set, Done, Op, NoOp
<1>1. ASSUME NEW s \in Session, Query(s) PROVE DeleteChanges(u)
  BY <1>1 DEF Query, Begin, Collide, TypeOK
<1>2. ASSUME NEW s \in Session, Refresh(s) PROVE DeleteChanges(u)
  BY <1>2 DEF Refresh, TypeOK
<1>3. ASSUME NEW s \in Session, Deliver(s) PROVE DeleteChanges(u)
  BY <1>3 DEF Deliver, TypeOK
<1>4. ASSUME NEW s \in Session, Exit(s) PROVE DeleteChanges(u)
  <2>1. collided' = (collided \/ (Rebuilding(s) /\ pc[s] # "scan")) /\ pc' = Set(pc, s, "idle")
    BY <1>4, Zenon DEF Exit, Abandon, Collide
  <2>2. CASE s = u
    BY <2>1, <2>2 DEF Rebuilding, RebuildSteps
  <2>3. CASE s # u
    BY <2>1, <2>3 DEF TypeOK
  <2> QED BY <2>2, <2>3
<1>5. ASSUME NEW s \in Session, NEW p \in Path, AddFile(s, p) PROVE DeleteChanges(u)
  BY <1>5 DEF AddFile, Begin, Collide, TypeOK
<1>6. ASSUME NEW s \in Session, NEW p \in Path, RemoveFile(s, p) PROVE DeleteChanges(u)
  BY <1>6 DEF RemoveFile, Begin, Collide, TypeOK
<1>7. ASSUME NEW s \in Session, NEW p \in Path, NEW q \in Path, MoveFile(s, p, q) PROVE DeleteChanges(u)
  BY <1>7 DEF MoveFile, Begin, Collide, TypeOK
<1>8. ASSUME NEW s \in Session, Load(s) PROVE DeleteChanges(u)
  <2>1. /\ pc[s] # "deleteChanges"
        /\ \E step \in {"idle", "stat", "recordGone", "scan"} : pc' = Set(pc, s, step)
    <3>1. CASE base.exists
      BY <1>8, <3>1, LoadCases DEF LoadEffect
    <3>2. CASE ~ base.exists
      BY <1>8, <3>2, NoLoadCases DEF NoLoadEffect
    <3> QED BY <3>1, <3>2
  <2> QED BY <2>1 DEF TypeOK
<1>9. ASSUME NEW s \in Session, StatChangeFile(s) PROVE DeleteChanges(u)
  <2>1. /\ pc[s] # "deleteChanges"
        /\ \E step \in {"idle", "stat", "open", "recordGone", "scan", "read", "clear"} :
             pc' = Set(pc, s, step)
    BY <1>9, StatCases DEF StatEffect
  <2> QED BY <2>1 DEF TypeOK
<1>10. ASSUME NEW s \in Session, ReadChangeFile(s) PROVE DeleteChanges(u)
  BY <1>10 DEF ReadChangeFile, Raise, TypeOK
<1>11. ASSUME NEW s \in Session, ReadFails(s) PROVE DeleteChanges(u)
  BY <1>11 DEF ReadFails, TypeOK
<1>12. ASSUME NEW s \in Session, ClearModified(s) PROVE DeleteChanges(u)
  <2>1. /\ pc[s] # "deleteChanges"
        /\ \E step \in {"idle", "stat", "open", "recordGone", "scan"} :
             pc' = Set(pc, s, step)
    BY <1>12, ClearCases DEF ClearEffect
  <2> QED BY <2>1 DEF TypeOK
<1>13. ASSUME NEW s \in Session, OpenChangeFile(s) PROVE DeleteChanges(u)
  BY <1>13 DEF OpenChangeFile, TypeOK
<1>14. ASSUME NEW s \in Session, LockChangeFile(s) PROVE DeleteChanges(u)
  BY <1>14 DEF LockChangeFile, Collide, TypeOK
<1>15. ASSUME NEW s \in Session, LockTimesOut(s) PROVE DeleteChanges(u)
  BY <1>15 DEF LockTimesOut, Abandon, TypeOK
<1>16. ASSUME NEW s \in Session, AppendAdd(s) PROVE DeleteChanges(u)
  BY <1>16 DEF AppendAdd, WriteLine, WriteLineCounting, TypeOK
<1>17. ASSUME NEW s \in Session, AppendRemove(s) PROVE DeleteChanges(u)
  BY <1>17 DEF AppendRemove, WriteLine, WriteLineCounting, TypeOK
<1>18. ASSUME NEW s \in Session, EraseFails(s) PROVE DeleteChanges(u)
  BY <1>18 DEF EraseFails, Raise, Abandon, TypeOK
<1>19. ASSUME NEW s \in Session, UnlinkFile(s) PROVE DeleteChanges(u)
  BY <1>19 DEF UnlinkFile, TypeOK
<1>20. ASSUME NEW s \in Session, AddMovedFile(s) PROVE DeleteChanges(u)
  BY <1>20 DEF AddMovedFile, TypeOK
<1>21. ASSUME NEW s \in Session, ScanDisk(s) PROVE DeleteChanges(u)
  BY <1>21 DEF ScanDisk, TypeOK
<1>22. ASSUME NEW s \in Session, WriteTmp(s) PROVE DeleteChanges(u)
  BY <1>22 DEF WriteTmp, TypeOK
<1>23. ASSUME NEW s \in Session, DeleteBase(s) PROVE DeleteChanges(u)
  BY <1>23 DEF DeleteBase, NoFile, TypeOK
<1>24. ASSUME NEW s \in Session, MoveTmp(s) PROVE DeleteChanges(u)
  <2>1. /\ pc[s] # "deleteChanges"
        /\ \E step \in {"idle", "deleteChanges"} :
             pc' = Set(pc, s, step)
    BY <1>24, MoveTmpCases DEF MoveTmpEffect
  <2> QED BY <2>1 DEF TypeOK
<1>25. ASSUME NEW s \in Session, DeleteChanges(s) PROVE DeleteChanges(u)
  <2>1. CASE s = u
    BY <1>25, <2>1
  <2>2. CASE s # u
    <3>1. DeleteChangesEffect(s)
      BY <1>25, DeleteChangesCases
    <3> QED BY <2>2, <3>1 DEF DeleteChangesEffect, TypeOK
  <2> QED BY <2>1, <2>2
<1>26. CASE UNCHANGED vars
  BY <1>26 DEF TypeOK
<1> QED BY <1>1, <1>2, <1>3, <1>4, <1>5, <1>6, <1>7, <1>8, <1>9, <1>10, <1>11, <1>12, <1>13,
       <1>14, <1>15, <1>16, <1>17, <1>18, <1>19, <1>20, <1>21, <1>22, <1>23, <1>24, <1>25,
       <1>26 DEF Next, Step

\* A call of Refresh that nobody disturbs leaves an index of exactly the files
\* on the disk.
THEOREM RefreshTheorem == Spec => RefreshRepairs
<1>1. IInv /\ [Next]_vars =>
        [\A s \in Session :
           pc[s] = "deleteChanges" /\ pc'[s] # "deleteChanges" /\ ~ collided' =>
             Index' = disk']_vars
  <2> SUFFICES ASSUME IInv, [Next]_vars, NEW s \in Session,
                      pc[s] = "deleteChanges", pc'[s] # "deleteChanges", ~ collided'
               PROVE  Index' = disk'
    OBVIOUS
  <2>1. DeleteChanges(s)
    BY LastStep DEF IInv
  <2> QED BY <2>1, AfterRebuild DEF IInv
<1> QED BY <1>1, Invariant, PTL DEF Spec, RefreshRepairs
=============================================================================
