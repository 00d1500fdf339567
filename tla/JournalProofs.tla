--------------------------- MODULE JournalProofs ---------------------------
(***************************************************************************)
(* Proofs about Journal, for every set of texts, files and directories:    *)
(* scaffold carries out the commands in their order and in full, and the   *)
(* chain of calls of the manual makes the zipper what one text says.       *)
(***************************************************************************)
EXTENDS Journal, ZipperProofs

\* The journal's zipper and its manifest are objects of the right shape.
OwnIsZipper ==
  /\ DOMAIN zip = Handles
  /\ DOMAIN zip[Own] = DOMAIN make_zipper
  /\ IsSequence(zip[Own].entries) /\ UniquePaths(zip[Own].entries)
  /\ zip[Own].manifest \in Manifests \cup {Nothing}
  /\ DOMAIN manifests = Manifests

\* A list of commands.
IsList(list) ==
  /\ IsSequence(list)
  /\ \A i \in DOMAIN list : list[i].kind = "level" => list[i].text \in Int

\* The text parse read last, as it took it.
TextRead == IF read = Missing THEN <<>> ELSE read

\* What the calls of the chain have left to the next of them, unless there is
\* a message that stops it.
ChainHolds ==
  /\ stage \in {"parsed", "validated", "scaffolded"} /\ diagnostics = {} =>
       commands = CommandsOf(TextRead) /\ ~Malformed(TextRead)
  /\ stage \in {"validated", "scaffolded"} /\ diagnostics = {} =>
       /\ Of(commands, "archive") # {}
       /\ Of(commands, "filter") = {}
       /\ \A c \in Of(commands, "manifest") : c.text = "INIManifest"
  /\ stage = "scaffolded" => diagnostics = {}
  /\ stage = "scaffolded" /\ at = 0 => Means(zip[Own], manifests, commands)

JournalInv ==
  /\ OwnIsZipper
  /\ script \in Scripts \cup {Missing}
  /\ IsList(commands)
  /\ at \in 0 .. Len(commands) + 1
  /\ at # 0 => diagnostics = {}
  /\ ScaffoldFollowsCommands
  /\ ChainHolds
-----------------------------------------------------------------------------
(* Lists of commands: what the last command of a kind is, and what is told a *)
(* manifest, when one more command is added.                                 *)

\* A set of indices that is not empty has a last one.
LEMMA LastExists ==
  ASSUME NEW n \in Nat, NEW I, I \subseteq 1 .. n, I # {}
  PROVE  Max(I) \in I /\ \A i \in I : Max(I) >= i
<1> DEFINE HasLast(k) == (\E i \in I : i <= k) =>
                            \E x \in I : x <= k /\ \A i \in I : i <= k => x >= i
           T == {k \in 0 .. n : HasLast(k)}
<1>1. 0 \in T
  <2>1. \A i \in I : ~(i <= 0)
    OBVIOUS
  <2>2. HasLast(0)
    BY <2>1
  <2> QED BY <2>2
<1>2. ASSUME NEW k \in 1 .. n, k - 1 \in T PROVE k \in T
  <2>1. HasLast(k - 1)
    BY <1>2
  <2>2. CASE k \in I
    BY <2>2
  <2>3. CASE k \notin I
    <3>1. \A i \in I : i <= k <=> i <= k - 1
      BY <2>3
    <3> QED BY <2>1, <3>1
  <2> QED BY <2>2, <2>3
<1> HIDE DEF T
<1>3. 0 .. n \subseteq T
  BY <1>1, <1>2, BoundedInduction
<1>4. HasLast(n)
  <2>1. n \in T
    BY <1>3
  <2> QED BY <2>1 DEF T
<1>5. \E x \in I : \A i \in I : x >= i
  <2>1. \A i \in I : i <= n
    OBVIOUS
  <2>2. \E x \in I : x <= n /\ \A i \in I : i <= n => x >= i
    BY <1>4, <2>1
  <2> QED BY <2>1, <2>2
<1> QED BY <1>5 DEF Max

\* One more element, seen from the elements before.
LEMMA AppendedList ==
  ASSUME NEW S, NEW list \in Seq(S), NEW c \in S
  PROVE  /\ Append(list, c) \in Seq(S)
         /\ Len(list) \in Nat /\ DOMAIN list = 1 .. Len(list)
         /\ Len(Append(list, c)) = Len(list) + 1
         /\ DOMAIN Append(list, c) = 1 .. Len(list) + 1
         /\ Append(list, c)[Len(list) + 1] = c
         /\ \A i \in 1 .. Len(list) : Append(list, c)[i] = list[i]
OBVIOUS

\* The index of the last command of a kind.
LastIndex(list, kind) ==
  LET I == {i \in 1 .. Len(list) : list[i].kind = kind}
  IN  IF I # {} THEN Max(I) ELSE 0

LEMMA LastIndexIs ==
  \A list, kind : SelectLastInSeq(list, LAMBDA c : c.kind = kind) = LastIndex(list, kind)
BY DEF SelectLastInSeq, LastIndex

LEMMA LastIndexOfAppend ==
  ASSUME NEW S, NEW list \in Seq(S), NEW c \in S, NEW kind
  PROVE  /\ LastIndex(list, kind) \in 0 .. Len(list)
         /\ c.kind = kind => LastIndex(Append(list, c), kind) = Len(list) + 1
         /\ c.kind # kind => LastIndex(Append(list, c), kind) = LastIndex(list, kind)
<1> DEFINE n == Len(list)
           t == Append(list, c)
           I == {i \in 1 .. n : list[i].kind = kind}
           J == {i \in 1 .. n + 1 : t[i].kind = kind}
<1>1. /\ n \in Nat /\ Len(t) = n + 1 /\ t[n + 1] = c
      /\ \A i \in 1 .. n : t[i] = list[i]
  BY AppendedList
<1>2. /\ LastIndex(list, kind) = IF I # {} THEN Max(I) ELSE 0
      /\ LastIndex(t, kind) = IF J # {} THEN Max(J) ELSE 0
  BY <1>1 DEF LastIndex
<1>3. I # {} => Max(I) \in 1 .. n
  <2>1. I \subseteq 1 .. n
    OBVIOUS
  <2> HIDE DEF I
  <2> QED BY <1>1, <2>1, LastExists
<1> HIDE DEF t, n
<1>4. ASSUME c.kind = kind PROVE J # {} /\ Max(J) = n + 1
  <2>1. n + 1 \in J /\ J \subseteq 1 .. n + 1 /\ n + 1 \in Nat
    BY <1>1, <1>4
  <2> HIDE DEF J
  <2>2. Max(J) \in J /\ Max(J) >= n + 1
    BY <2>1, LastExists
  <2> QED BY <1>1, <2>1, <2>2
<1>5. c.kind # kind => J = I
  BY <1>1
<1> HIDE DEF I, J
<1> QED BY <1>1, <1>2, <1>3, <1>4, <1>5 DEF n, t

LEMMA LastOfAppend ==
  ASSUME NEW S, NEW list \in Seq(S), NEW c \in S, NEW kind, NEW default
  PROVE  LastOf(Append(list, c), kind, default) =
           IF c.kind = kind THEN c.text ELSE LastOf(list, kind, default)
<1> DEFINE t == Append(list, c)
           i == LastIndex(list, kind)
           j == LastIndex(t, kind)
<1>1. /\ LastOf(list, kind, default) = IF i = 0 THEN default ELSE list[i].text
      /\ LastOf(t, kind, default) = IF j = 0 THEN default ELSE t[j].text
  BY LastIndexIs DEF LastOf
<1>2. /\ i \in 0 .. Len(list)
      /\ c.kind = kind => j = Len(list) + 1
      /\ c.kind # kind => j = i
  BY LastIndexOfAppend
<1>3. /\ Len(list) \in Nat /\ t[Len(list) + 1] = c
      /\ \A k \in 1 .. Len(list) : t[k] = list[k]
  BY AppendedList
<1> HIDE DEF t, i, j
<1> QED BY <1>1, <1>2, <1>3 DEF t

LEMMA OfAppend ==
  ASSUME NEW S, NEW list \in Seq(S), NEW c \in S, NEW kind
  PROVE  Of(Append(list, c), kind) =
           IF c.kind = kind THEN Of(list, kind) \cup {c} ELSE Of(list, kind)
<1> DEFINE t == Append(list, c)
<1>1. /\ Len(list) \in Nat /\ DOMAIN list = 1 .. Len(list)
      /\ DOMAIN t = 1 .. Len(list) + 1
      /\ t[Len(list) + 1] = c
      /\ \A i \in 1 .. Len(list) : t[i] = list[i]
  BY AppendedList
<1> HIDE DEF t
<1> QED BY <1>1 DEF Of, t

\* The loop of Told, and its body.
ToldStep(list, made, f, i) ==
  IF i <= made THEN EmptyManifest
  ELSE IF list[i].kind = "manifest_cmd" THEN consume_command(f[i - 1], list[i].text)
  ELSE f[i - 1]

ToldLoop(list, made) ==
  CHOOSE f : f = [i \in 0 .. Len(list) |-> ToldStep(list, made, f, i)]

LEMMA ToldIsLoop ==
  \A list : Told(list) = ToldLoop(list, LastIndex(list, "manifest"))[Len(list)]
<1> SUFFICES ASSUME NEW list
             PROVE  Told(list) = ToldLoop(list, LastIndex(list, "manifest"))[Len(list)]
  OBVIOUS
<1> DEFINE made == SelectLastInSeq(list, LAMBDA c : c.kind = "manifest")
           Body(f) == [i \in 0 .. Len(list) |->
                         IF i <= made THEN EmptyManifest
                         ELSE IF list[i].kind = "manifest_cmd"
                         THEN consume_command(f[i - 1], list[i].text)
                         ELSE f[i - 1]]
<1>1. made = LastIndex(list, "manifest")
  BY LastIndexIs
<1>2. Told(list) = (CHOOSE f : f = Body(f))[Len(list)]
  BY DEF Told
<1>3. ToldLoop(list, made) = CHOOSE f : f = Body(f)
  BY DEF ToldLoop, ToldStep
<1> HIDE DEF made, Body
<1> QED BY <1>1, <1>2, <1>3

LEMMA ToldLoopEquation ==
  ASSUME NEW list, Len(list) \in Nat, NEW made \in Nat
  PROVE  \A i \in 0 .. Len(list) :
           ToldLoop(list, made)[i] = ToldStep(list, made, ToldLoop(list, made), i)
<1> DEFINE n == Len(list)
           Eq(f, m) == f = [i \in 0 .. m |-> ToldStep(list, made, f, i)]
           T == {m \in 0 .. n : \E f : Eq(f, m)}
<1>1. 0 \in T
  <2> DEFINE f == [i \in 0 .. 0 |-> EmptyManifest]
  <2>1. \A i \in 0 .. 0 : ToldStep(list, made, f, i) = EmptyManifest
    BY DEF ToldStep
  <2>2. Eq(f, 0)
    BY <2>1
  <2> QED BY <2>2
<1>2. ASSUME NEW m \in 1 .. n, m - 1 \in T PROVE m \in T
  <2>1. PICK f : Eq(f, m - 1)
    BY <1>2
  <2> DEFINE h == [i \in 0 .. m |-> IF i < m THEN f[i] ELSE ToldStep(list, made, f, m)]
  <2>2. \A i \in 0 .. m - 1 : f[i] = ToldStep(list, made, f, i) /\ h[i] = f[i]
    BY <2>1
  <2>3. h[m] = ToldStep(list, made, f, m)
    OBVIOUS
  <2>4. DOMAIN h = 0 .. m /\ h = [i \in 0 .. m |-> h[i]]
    OBVIOUS
  <2> HIDE DEF h
  <2>5. ASSUME NEW i \in 0 .. m PROVE h[i] = ToldStep(list, made, h, i)
    <3>1. i # 0 => i - 1 \in 0 .. m - 1
      OBVIOUS
    <3>2. i # 0 => h[i - 1] = f[i - 1]
      BY <2>2, <3>1
    <3>3. ToldStep(list, made, h, i) = ToldStep(list, made, f, i)
      BY <3>2 DEF ToldStep
    <3> QED BY <2>2, <2>3, <3>3
  <2>6. Eq(h, m)
    BY <2>4, <2>5
  <2> HIDE DEF Eq
  <2> QED BY <2>6
<1> HIDE DEF T
<1>3. 0 .. n \subseteq T
  BY <1>1, <1>2, BoundedInduction
<1>4. \E f : Eq(f, n)
  BY <1>3 DEF T
<1>5. ToldLoop(list, made) = CHOOSE f : Eq(f, n)
  BY DEF ToldLoop
<1> DEFINE w == ToldLoop(list, made)
<1> HIDE DEF Eq
<1>6. Eq(w, n)
  BY <1>4, <1>5
<1> HIDE DEF w
<1>7. w = [i \in 0 .. n |-> ToldStep(list, made, w, i)]
  BY <1>6 DEF Eq
<1>8. \A i \in 0 .. n : w[i] = ToldStep(list, made, w, i)
  BY <1>7
<1> QED BY <1>8 DEF w

\* A manifest line starts over, a manifest command is told what there is, and
\* other commands tell it nothing.
LEMMA ToldOfAppend ==
  ASSUME NEW S, NEW list \in Seq(S), NEW c \in S
  PROVE  Told(Append(list, c)) =
           IF c.kind = "manifest" THEN EmptyManifest
           ELSE IF c.kind = "manifest_cmd" THEN consume_command(Told(list), c.text)
           ELSE Told(list)
<1> DEFINE n == Len(list)
           t == Append(list, c)
           made == LastIndex(list, "manifest")
           made2 == LastIndex(t, "manifest")
           f == ToldLoop(list, made)
           g == ToldLoop(t, made2)
<1>1. /\ n \in Nat /\ Len(t) = n + 1 /\ t[n + 1] = c
      /\ \A i \in 1 .. n : t[i] = list[i]
  BY AppendedList
<1>2. /\ made \in 0 .. n
      /\ c.kind = "manifest" => made2 = n + 1
      /\ c.kind # "manifest" => made2 = made
  BY LastIndexOfAppend
<1>3. Told(list) = f[n] /\ Told(t) = g[n + 1]
  BY <1>1, ToldIsLoop
<1>4. \A i \in 0 .. n : f[i] = ToldStep(list, made, f, i)
  BY <1>1, <1>2, ToldLoopEquation
<1>5. \A i \in 0 .. n + 1 : g[i] = ToldStep(t, made2, g, i)
  <2>1. made2 \in Nat /\ Len(t) \in Nat
    BY <1>1, <1>2
  <2> HIDE DEF t, made2
  <2>2. \A i \in 0 .. Len(t) : g[i] = ToldStep(t, made2, g, i)
    BY <2>1, ToldLoopEquation
  <2> QED BY <1>1, <2>2
<1> HIDE DEF n, t, made, made2, f, g
<1>6. n + 1 \in 0 .. n + 1
  BY <1>1
<1>7. CASE c.kind = "manifest"
  <2>1. g[n + 1] = EmptyManifest
    BY <1>1, <1>2, <1>5, <1>6, <1>7 DEF ToldStep
  <2> QED BY <1>3, <1>7, <2>1 DEF t
<1>8. CASE c.kind # "manifest"
  <2> DEFINE T == {i \in 0 .. n : g[i] = f[i]}
  <2>1. 0 \in T
    <3>1. 0 \in 0 .. n /\ 0 \in 0 .. n + 1 /\ 0 <= made
      BY <1>1, <1>2
    <3>2. f[0] = EmptyManifest
      BY <1>4, <3>1 DEF ToldStep
    <3>3. g[0] = EmptyManifest
      BY <1>2, <1>5, <1>8, <3>1 DEF ToldStep
    <3> QED BY <3>1, <3>2, <3>3
  <2>2. ASSUME NEW i \in 1 .. n, i - 1 \in T PROVE i \in T
    <3>1. i \in 0 .. n /\ i \in 0 .. n + 1
      BY <1>1
    <3>2. t[i] = list[i] /\ g[i - 1] = f[i - 1]
      BY <1>1, <2>2
    <3>3. ToldStep(t, made2, g, i) = ToldStep(list, made, f, i)
      BY <1>2, <1>8, <3>2 DEF ToldStep
    <3>4. g[i] = f[i]
      BY <1>4, <1>5, <3>1, <3>3
    <3> QED BY <3>1, <3>4
  <2> HIDE DEF T
  <2>3. 0 .. n \subseteq T
    BY <1>1, <2>1, <2>2, BoundedInduction
  <2>4. g[n] = f[n]
    BY <1>1, <2>3 DEF T
  <2>5. ~(n + 1 <= made2) /\ (n + 1) - 1 = n
    BY <1>1, <1>2, <1>8
  <2>6. g[n + 1] = IF c.kind = "manifest_cmd" THEN consume_command(g[n], c.text) ELSE g[n]
    BY <1>1, <1>5, <1>6, <2>5 DEF ToldStep
  <2> QED BY <1>3, <1>8, <2>4, <2>6 DEF t
<1> QED BY <1>7, <1>8

-----------------------------------------------------------------------------
(* What parse reads of a text is a list of commands. *)

\* The loop of CommandsOf.
KeepLine(kept, line) ==
  IF Legal(line) /\ line \notin Ignored THEN Append(kept, parse_line(line)) ELSE kept

ReadLoop(text) ==
  CHOOSE f : f = [i \in 0 .. Len(text) |->
                    IF i = 0 THEN <<>> ELSE KeepLine(f[i - 1], text[i])]

LEMMA CommandsAreLoop == \A text : CommandsOf(text) = ReadLoop(text)[Len(text)]
<1> SUFFICES ASSUME NEW text PROVE CommandsOf(text) = ReadLoop(text)[Len(text)]
  OBVIOUS
<1> DEFINE Body(f) ==
      [i \in 0 .. Len(text) |->
         IF i = 0 THEN <<>>
         ELSE IF Legal(text[i]) /\ text[i] \notin Ignored
         THEN Append(f[i - 1], parse_line(text[i]))
         ELSE f[i - 1]]
<1>1. CommandsOf(text) = (CHOOSE f : f = Body(f))[Len(text)]
  BY DEF CommandsOf
<1>2. ReadLoop(text) = CHOOSE f : f = Body(f)
  BY DEF ReadLoop, KeepLine
<1> QED BY <1>1, <1>2

\* Whatever the lines are, the loop keeps the commands of some of them.
LEMMA CommandsType ==
  ASSUME NEW text, IsSequence(text)
  PROVE  CommandsOf(text) \in
           Seq({parse_line(text[i]) :
                  i \in {i \in DOMAIN text : Legal(text[i]) /\ text[i] \notin Ignored}})
<1> DEFINE n == Len(text)
           C == {parse_line(text[i]) :
                   i \in {i \in DOMAIN text : Legal(text[i]) /\ text[i] \notin Ignored}}
           S == Seq(C)
           g == [i \in 1 .. n |-> [kept \in S |-> KeepLine(kept, text[i])]]
           Body(f, i) == IF i = 0 THEN <<>> ELSE KeepLine(f[i - 1], text[i])
           Eq(f) == f = [i \in 0 .. n |-> Body(f, i)]
<1>1. n \in Nat /\ DOMAIN text = 1 .. n
  BY DEF IsSequence
<1>2. <<>> \in S
  OBVIOUS
<1>3. ASSUME NEW i \in 1 .. n, NEW kept \in S PROVE KeepLine(kept, text[i]) \in S
  <2>1. CASE Legal(text[i]) /\ text[i] \notin Ignored
    <3>1. parse_line(text[i]) \in C
      BY <1>1, <2>1
    <3> HIDE DEF C
    <3> QED BY <2>1, <3>1 DEF KeepLine
  <2>2. CASE ~(Legal(text[i]) /\ text[i] \notin Ignored)
    BY <2>2 DEF KeepLine
  <2> QED BY <2>1, <2>2
<1> HIDE DEF n, C, S
<1>4. g \in [1 .. n -> [S -> S]]
  BY <1>3
<1>5. PICK f \in [0 .. n -> S] : Solves(f, <<>>, g, n)
  <2> HIDE DEF g
  <2> QED BY <1>1, <1>2, <1>4, LoopExists
<1>6. Eq(f)
  <2>1. ASSUME NEW i \in 1 .. n PROVE g[i][f[i - 1]] = KeepLine(f[i - 1], text[i])
    <3>1. f[i - 1] \in S
      BY <1>1, <1>5
    <3> QED BY <3>1
  <2> DEFINE A(i) == IF i = 0 THEN <<>> ELSE g[i][f[i - 1]]
  <2>2. \A i \in 0 .. n : A(i) = Body(f, i)
    <3> HIDE DEF g
    <3> QED BY <1>1, <2>1
  <2>3. f = [i \in 0 .. n |-> A(i)]
    <3> HIDE DEF g
    <3> QED BY <1>5 DEF Solves
  <2> HIDE DEF A, Body
  <2> QED BY <2>2, <2>3
<1>7. ReadLoop(text) = CHOOSE h : Eq(h)
  BY DEF ReadLoop, n
<1> DEFINE w == ReadLoop(text)
<1> HIDE DEF Eq
<1>8. Eq(w)
  BY <1>6, <1>7
<1> HIDE DEF w
<1>9. \A i \in 0 .. n : w[i] = Body(w, i)
  <2>1. w = [i \in 0 .. n |-> Body(w, i)]
    BY <1>8 DEF Eq
  <2> HIDE DEF Body
  <2> QED BY <2>1
<1> DEFINE T == {i \in 0 .. n : w[i] \in S}
<1>10. 0 \in T
  BY <1>1, <1>2, <1>9
<1>11. ASSUME NEW i \in 1 .. n, i - 1 \in T PROVE i \in T
  <2>1. w[i - 1] \in S /\ i \in 0 .. n
    BY <1>1, <1>11
  <2>2. w[i] = KeepLine(w[i - 1], text[i])
    BY <1>1, <1>9
  <2> QED BY <1>3, <2>1, <2>2
<1> HIDE DEF T
<1>12. 0 .. n \subseteq T
  BY <1>1, <1>10, <1>11, BoundedInduction
<1>13. w[n] \in S
  BY <1>1, <1>12 DEF T
<1>14. CommandsOf(text) = w[n]
  BY CommandsAreLoop DEF w, n
<1> QED BY <1>13, <1>14 DEF S, C

\* A level line has an integer.
LEMMA LevelIsInteger ==
  ASSUME NEW line, IsSequence(line), SimpleLine(line) \/ SourceWithMode(line),
         \A k \in DOMAIN line : line[k][1] = "integer" => line[k][2] \in Int,
         parse_line(line).kind = "level"
  PROVE  parse_line(line).text \in Int
<1>1. line[1][2] = "level" /\ parse_line(line).text = line[2][2]
  BY DEF parse_line, Command
<1>2. \A k : Word(k)[2] = k
  BY DEF Word
<1>3. LineIs(line, {"level"}, <<"integer">>)
  BY <1>1, <1>2 DEF SimpleLine, SourceWithMode, LineIs
<1>4. line[2][1] = "integer" /\ Len(line) = 2
  BY <1>3 DEF LineIs
<1>5. 2 \in DOMAIN line
  BY <1>4 DEF IsSequence
<1> QED BY <1>1, <1>4, <1>5

LEMMA CommandsAreList ==
  ASSUME NEW text \in Scripts \cup {<<>>}
  PROVE  IsList(CommandsOf(text))
<1> DEFINE L == CommandsOf(text)
           I == {i \in DOMAIN text : Legal(text[i]) /\ text[i] \notin Ignored}
           C == {parse_line(text[i]) : i \in I}
<1>1. /\ IsSequence(text)
      /\ \A i \in DOMAIN text :
           /\ IsSequence(text[i])
           /\ \A k \in DOMAIN text[i] :
                text[i][k][1] = "integer" => text[i][k][2] \in Int
  <2>1. CASE text = <<>>
    BY <2>1 DEF IsSequence
  <2>2. CASE text \in Scripts
    BY <2>2, ScriptsAssumption
  <2> QED BY <2>1, <2>2
<1>2. L \in Seq(C)
  BY <1>1, CommandsType
<1>3. ASSUME NEW c \in C, c.kind = "level" PROVE c.text \in Int
  <2>1. PICK i \in I : c = parse_line(text[i])
    OBVIOUS
  <2>2. SimpleLine(text[i]) \/ SourceWithMode(text[i])
    BY <2>1 DEF Legal
  <2> QED BY <1>1, <1>3, <2>1, <2>2, LevelIsInteger
<1> HIDE DEF L, C
<1>4. \A i \in DOMAIN L : L[i] \in C
  BY <1>2
<1>5. IsSequence(L)
  BY <1>2 DEF IsSequence
<1>6. IsList(L)
  BY <1>3, <1>4, <1>5 DEF IsList
<1> QED BY <1>6 DEF L

-----------------------------------------------------------------------------
(* What the operations of the commands do to the zipper *)

\* Assigning one field leaves the others.
LEMMA FieldAssigned ==
  ASSUME OwnIsZipper, NEW name \in DOMAIN make_zipper, NEW value,
         zip' = [zip EXCEPT ![Own] = [@ EXCEPT ![name] = value]]
  PROVE  /\ DOMAIN zip' = Handles
         /\ DOMAIN zip'[Own] = DOMAIN make_zipper
         /\ zip'[Own][name] = value
         /\ \A other \in DOMAIN make_zipper \ {name} : zip'[Own][other] = zip[Own][other]
<1>1. Own \in DOMAIN zip /\ DOMAIN zip[Own] = DOMAIN make_zipper
  BY OwnAssumption DEF OwnIsZipper
<1> QED BY <1>1 DEF OwnIsZipper

LEMMA FieldsOf ==
  DOMAIN make_zipper =
    {"entries", "filters", "codec", "manifest", "destination", "archive_name", "hook", "sealed"}
BY DEF make_zipper

\* The three settings a command may change.
LEMMA SettingAssigned ==
  ASSUME OwnIsZipper, NEW name \in {"codec", "destination", "archive_name"}, NEW value,
         zip' = [zip EXCEPT ![Own] = [@ EXCEPT ![name] = value]],
         manifests' = manifests
  PROVE  /\ OwnIsZipper'
         /\ zip'[Own][name] = value
         /\ \A other \in DOMAIN make_zipper \ {name} : zip'[Own][other] = zip[Own][other]
<1>1. name \in DOMAIN make_zipper
  BY FieldsOf
<1>2. /\ DOMAIN zip' = Handles
      /\ DOMAIN zip'[Own] = DOMAIN make_zipper
      /\ zip'[Own][name] = value
      /\ \A other \in DOMAIN make_zipper \ {name} : zip'[Own][other] = zip[Own][other]
  BY <1>1, FieldAssigned
<1>3. zip'[Own].entries = zip[Own].entries /\ zip'[Own].manifest = zip[Own].manifest
  BY <1>2, FieldsOf
<1>4. OwnIsZipper'
  BY <1>2, <1>3 DEF OwnIsZipper
<1> QED BY <1>2, <1>4

LEMMA EntriesAssigned ==
  ASSUME OwnIsZipper, NEW E, NEW entries \in Lists(E), Put(Own, entries)
  PROVE  /\ OwnIsZipper' /\ manifests' = manifests
         /\ zip'[Own].entries = entries
         /\ \A other \in DOMAIN make_zipper \ {"entries"} : zip'[Own][other] = zip[Own][other]
<1>1. /\ zip' = [zip EXCEPT ![Own] = [@ EXCEPT !["entries"] = entries]]
      /\ manifests' = manifests
  BY DEF Put
<1>2. "entries" \in DOMAIN make_zipper
  BY FieldsOf
<1>3. /\ DOMAIN zip' = Handles
      /\ DOMAIN zip'[Own] = DOMAIN make_zipper
      /\ zip'[Own]["entries"] = entries
      /\ \A other \in DOMAIN make_zipper \ {"entries"} : zip'[Own][other] = zip[Own][other]
  BY <1>1, <1>2, FieldAssigned
<1>4. IsSequence(entries) /\ UniquePaths(entries)
  BY DEF Lists, IsSequence
<1>5. zip'[Own].manifest = zip[Own].manifest
  BY <1>3, FieldsOf
<1>6. OwnIsZipper'
  BY <1>1, <1>3, <1>4, <1>5 DEF OwnIsZipper
<1> QED BY <1>1, <1>3, <1>6

\* A zipper's list, as the lemmas about lists want it.
LEMMA OwnList ==
  ASSUME OwnIsZipper, NEW E, Elements(zip[Own].entries) \subseteq E
  PROVE  zip[Own].entries \in Lists(E)
<1> DEFINE s == zip[Own].entries
<1>1. s \in Seq({s[i] : i \in DOMAIN s}) /\ UniquePaths(s)
  BY DEF OwnIsZipper, IsSequence
<1>2. {s[i] : i \in DOMAIN s} \subseteq E
  BY DEF Elements
<1> HIDE DEF s
<1>3. s \in Seq(E)
  BY <1>1, <1>2, SeqMonotonic
<1> QED BY <1>1, <1>3 DEF Lists, s

\* A source adds entries of its own and no others, its own path among them,
\* whether or not it throws.
LEMMA SourceAdds ==
  ASSUME OwnIsZipper, NEW c, AddSource(c)
  PROVE  /\ OwnIsZipper' /\ manifests' = manifests
         /\ \A other \in DOMAIN make_zipper \ {"entries"} : zip'[Own][other] = zip[Own][other]
         /\ PathsOf(zip[Own].entries) \subseteq PathsOf(zip'[Own].entries)
         /\ c.recursive \/ normalize_relative_path(c.text) \in Dirs
              => DirectoryEntry(c.text).path \in PathsOf(zip'[Own].entries)
         /\ ~(c.recursive \/ normalize_relative_path(c.text) \in Dirs)
              => FileEntry(c.text, c.text).path \in PathsOf(zip'[Own].entries)
         /\ Elements(zip'[Own].entries) \subseteq
              Elements(zip[Own].entries) \cup SourceEntries(c)
<1> DEFINE s == zip[Own].entries
           dir == normalize_relative_path(c.text)
           E == Elements(s) \cup SourceEntries(c)
<1>1. s \in Lists(E)
  BY OwnList
<1>2. CASE ~(c.recursive \/ dir \in Dirs)
  <2> DEFINE e == FileEntry(c.text, c.text)
             t == upsert_entry(s, e)
  <2>1. Put(Own, t)
    BY <1>2 DEF AddSource, AddFileAs
  <2>2. e \in E
    BY <1>2 DEF SourceEntries
  <2> HIDE DEF e, s, E
  <2>3. t \in Lists(E)
    BY <1>1, <2>2, UpsertKeepsLists
  <2>4. PathsOf(t) = PathsOf(s) \cup {e.path}
    BY <1>1, <2>2, UpsertHolds
  <2>5. Elements(t) \subseteq Elements(s) \cup {e}
    BY <1>1, <2>2, UpsertElements
  <2>6. Elements(s) \cup {e} \subseteq E
    BY <2>2 DEF E
  <2> HIDE DEF t
  <2>7. /\ OwnIsZipper' /\ manifests' = manifests
        /\ zip'[Own].entries = t
        /\ \A other \in DOMAIN make_zipper \ {"entries"} : zip'[Own][other] = zip[Own][other]
    BY <2>1, <2>3, EntriesAssigned
  <2>8. Elements(t) \subseteq E
    BY <2>5, <2>6
  <2> QED BY <1>2, <2>4, <2>7, <2>8 DEF e, s, E
<1>3. CASE c.recursive \/ dir \in Dirs
  <2> DEFINE e == DirectoryEntry(c.text)
             root == upsert_entry(s, e)
  <2>1. AddDirectory(Own, c.text, c.recursive)
    BY <1>3 DEF AddSource
  <2>2. e \in E
    BY <1>3 DEF SourceEntries
  <2> HIDE DEF E
  <2>3. root \in Lists(E)
    BY <1>1, <2>2, UpsertKeepsLists
  <2>4. PathsOf(root) = PathsOf(s) \cup {e.path}
    BY <1>1, <2>2, UpsertHolds
  <2>5. Elements(root) \subseteq Elements(s) \cup {e}
    BY <1>1, <2>2, UpsertElements
  <2>6. Elements(s) \cup {e} \subseteq E
    BY <2>2 DEF E
  <2>7. ASSUME NEW t \in Lists(E), Put(Own, t), PathsOf(root) \subseteq PathsOf(t),
               Elements(t) \subseteq E
        PROVE  /\ OwnIsZipper' /\ manifests' = manifests
               /\ \A other \in DOMAIN make_zipper \ {"entries"} : zip'[Own][other] = zip[Own][other]
               /\ PathsOf(s) \subseteq PathsOf(zip'[Own].entries)
               /\ e.path \in PathsOf(zip'[Own].entries)
               /\ Elements(zip'[Own].entries) \subseteq E
    <3> HIDE DEF root, e, s
    <3>1. /\ OwnIsZipper' /\ manifests' = manifests
          /\ zip'[Own].entries = t
          /\ \A other \in DOMAIN make_zipper \ {"entries"} : zip'[Own][other] = zip[Own][other]
      BY <2>7, EntriesAssigned
    <3> QED BY <2>4, <2>7, <3>1
  <2>8. \E t \in Lists(E) : /\ Put(Own, t) /\ PathsOf(root) \subseteq PathsOf(t)
                            /\ Elements(t) \subseteq E
    <3>1. CASE dir \notin Dirs
      <4>1. Put(Own, root)
        BY <2>1, <3>1 DEF AddDirectory
      <4> HIDE DEF root, s, e
      <4> QED BY <2>3, <2>5, <2>6, <4>1
    <3>2. CASE dir \in Dirs
      <4> DEFINE nodes == Listing(dir, c.recursive)
      <4>1. PICK order \in IterationOrder(nodes) :
              \E yielded \in 0 .. Len(order) :
                Put(Own, UpsertAll(root, [i \in 1 .. yielded |-> Child(dir, order[i])]))
        BY <2>1, <3>2 DEF AddDirectory
      <4>2. PICK yielded \in 0 .. Len(order) :
              Put(Own, UpsertAll(root, [i \in 1 .. yielded |-> Child(dir, order[i])]))
        BY <4>1
      <4>3. IsFiniteSet(nodes)
        <5>1. nodes \subseteq Files \cup Dirs
          BY DEF Listing
        <5>2. IsFiniteSet(Files \cup Dirs)
          BY PathsAssumption, FS_Union
        <5> HIDE DEF nodes
        <5> QED BY <5>1, <5>2, FS_Subset
      <4>4. Cardinality(nodes) \in Nat
        <5> HIDE DEF nodes
        <5> QED BY <4>3, FS_CardinalityType
      <4>5. order \in [1 .. Cardinality(nodes) -> nodes]
        <5> HIDE DEF nodes
        <5> QED BY DEF IterationOrder
      <4>6. Len(order) = Cardinality(nodes)
        <5> HIDE DEF nodes
        <5> QED BY <4>4, <4>5
      <4> DEFINE new == [i \in 1 .. yielded |-> Child(dir, order[i])]
      <4>7. ASSUME NEW i \in 1 .. yielded PROVE Child(dir, order[i]) \in SourceEntries(c)
        <5>1. order[i] \in nodes
          <6> HIDE DEF nodes
          <6> QED BY <4>4, <4>5, <4>6
        <5>2. order[i] \in {n \in Files \cup Dirs : Inside(dir, n)}
          BY <5>1 DEF Listing
        <5> QED BY <1>3, <5>2 DEF SourceEntries
      <4>8. new \in Seq(E) /\ Elements(new) \subseteq E
        <5>1. SourceEntries(c) \subseteq E
          BY DEF E
        <5>2. yielded \in Nat
          BY <4>4, <4>6
        <5>3. \A i \in 1 .. yielded : new[i] \in E
          BY <4>7, <5>1
        <5>4. DOMAIN new = 1 .. yielded
          OBVIOUS
        <5>5. new \in [1 .. yielded -> E]
          BY <4>7, <5>1
        <5> HIDE DEF new
        <5> QED BY <5>2, <5>3, <5>4, <5>5, SeqDef DEF Elements
      <4>9. Put(Own, UpsertAll(root, new))
        BY <4>2
      <4> HIDE DEF new, root, s, e
      <4>10. UpsertAll(root, new) \in Lists(E)
        BY <2>3, <4>8, UpsertAllKeepsLists
      <4>11. /\ Elements(UpsertAll(root, new)) \subseteq Elements(root) \cup Elements(new)
             /\ PathsOf(root) \subseteq PathsOf(UpsertAll(root, new))
        BY <2>3, <4>8, UpsertAllElements
      <4> QED BY <2>5, <2>6, <4>8, <4>9, <4>10, <4>11
    <3> QED BY <3>1, <3>2
  <2>9. /\ OwnIsZipper' /\ manifests' = manifests
        /\ \A other \in DOMAIN make_zipper \ {"entries"} : zip'[Own][other] = zip[Own][other]
        /\ PathsOf(s) \subseteq PathsOf(zip'[Own].entries)
        /\ e.path \in PathsOf(zip'[Own].entries)
        /\ Elements(zip'[Own].entries) \subseteq E
    BY <2>7, <2>8
  <2> QED BY <1>3, <2>9 DEF E
<1> QED BY <1>2, <1>3

-----------------------------------------------------------------------------
(* The meaning of a list with one more command *)

LEMMA SettingsStay ==
  ASSUME NEW S, NEW list \in Seq(S), NEW c \in S, NEW y, NEW z, SettingsMean(y, list),
         c.kind \notin {"archive", "save_to", "level"},
         z.archive_name = y.archive_name, z.destination = y.destination, z.codec = y.codec
  PROVE  SettingsMean(z, Append(list, c))
<1>1. \A kind \in {"archive", "save_to", "level"} : \A default :
        LastOf(Append(list, c), kind, default) = LastOf(list, kind, default)
  BY LastOfAppend
<1> HIDE DEF SettingsMean
<1>2. /\ LastOf(Append(list, c), "archive", "archive.mz") = LastOf(list, "archive", "archive.mz")
      /\ LastOf(Append(list, c), "save_to", "") = LastOf(list, "save_to", "")
      /\ LastOf(Append(list, c), "level", 0) = LastOf(list, "level", 0)
  BY <1>1
<1> QED BY <1>2 DEF SettingsMean

LEMMA ManifestStays ==
  ASSUME NEW S, NEW list \in Seq(S), NEW c \in S, NEW y, NEW z, NEW objects,
         ManifestMeans(y, objects, list),
         c.kind \notin {"manifest", "manifest_cmd"}, z.manifest = y.manifest
  PROVE  ManifestMeans(z, objects, Append(list, c))
<1>1. Told(Append(list, c)) = Told(list)
  BY ToldOfAppend
<1>2. Of(Append(list, c), "manifest") = Of(list, "manifest")
  BY OfAppend
<1> QED BY <1>1, <1>2 DEF ManifestMeans

LEMMA EntriesStay ==
  ASSUME NEW S, NEW list \in Seq(S), NEW c \in S, NEW y, NEW z, EntriesMean(y, list),
         c.kind # "source", z.entries = y.entries
  PROVE  EntriesMean(z, Append(list, c))
<1>1. Of(Append(list, c), "source") = Of(list, "source")
  BY OfAppend
<1> QED BY <1>1 DEF EntriesMean

\* A command that is carried out makes the zipper mean one command more.
LEMMA ApplySetting ==
  ASSUME NEW S, NEW list \in Seq(S), NEW c \in S, OwnIsZipper,
         Means(zip[Own], manifests, list), Apply(c),
         c.kind \in {"archive", "save_to", "level"},
         c.kind = "level" => c.text \in Int
  PROVE  OwnIsZipper' /\ Means(zip'[Own], manifests', Append(list, c))
<1> DEFINE y == zip[Own]
           z == zip'[Own]
           t == Append(list, c)
<1>1. SettingsMean(y, list) /\ ManifestMeans(y, manifests, list) /\ EntriesMean(y, list)
  BY DEF Means
<1>2. ASSUME NEW name \in {"codec", "destination", "archive_name"}, NEW value,
             zip' = [zip EXCEPT ![Own] = [@ EXCEPT ![name] = value]],
             manifests' = manifests
      PROVE  /\ OwnIsZipper'
             /\ z[name] = value
             /\ \A other \in {"codec", "destination", "archive_name"} \ {name} :
                  z[other] = y[other]
             /\ z.manifest = y.manifest /\ z.entries = y.entries
  <2>1. /\ OwnIsZipper'
        /\ z[name] = value
        /\ \A other \in DOMAIN make_zipper \ {name} : z[other] = y[other]
    BY <1>2, SettingAssigned
  <2> HIDE DEF y, z
  <2> QED BY <2>1, FieldsOf
<1>3. \A kind \in {"archive", "save_to", "level"} : \A default :
        LastOf(t, kind, default) = IF c.kind = kind THEN c.text ELSE LastOf(list, kind, default)
  BY LastOfAppend
<1> HIDE DEF t
<1>4. /\ LastOf(t, "archive", "archive.mz")
           = IF c.kind = "archive" THEN c.text ELSE LastOf(list, "archive", "archive.mz")
      /\ LastOf(t, "save_to", "")
           = IF c.kind = "save_to" THEN c.text ELSE LastOf(list, "save_to", "")
      /\ LastOf(t, "level", 0)
           = IF c.kind = "level" THEN c.text ELSE LastOf(list, "level", 0)
  BY <1>3
<1>5. /\ manifests' = manifests
      /\ OwnIsZipper'
      /\ SettingsMean(z, t)
      /\ z.manifest = y.manifest /\ z.entries = y.entries
  <2>1. CASE c.kind = "archive"
    <3>1. SetArchiveName(Own, c.text)
      BY <2>1 DEF Apply
    <3>2. /\ zip' = [zip EXCEPT ![Own] = [@ EXCEPT !["archive_name"] = c.text]]
          /\ manifests' = manifests
      BY <3>1 DEF SetArchiveName
    <3>3. /\ OwnIsZipper'
          /\ z.archive_name = c.text /\ z.destination = y.destination /\ z.codec = y.codec
          /\ z.manifest = y.manifest /\ z.entries = y.entries
      BY <1>2, <3>2
    <3> HIDE DEF y, z
    <3>4. SettingsMean(z, t)
      BY <1>1, <1>4, <2>1, <3>3 DEF SettingsMean
    <3> QED BY <3>2, <3>3, <3>4
  <2>2. CASE c.kind = "save_to"
    <3>1. SetDestination(Own, c.text)
      BY <2>2 DEF Apply
    <3>2. /\ zip' = [zip EXCEPT ![Own] = [@ EXCEPT !["destination"] = c.text]]
          /\ manifests' = manifests
      BY <3>1 DEF SetDestination
    <3>3. /\ OwnIsZipper'
          /\ z.destination = c.text /\ z.archive_name = y.archive_name /\ z.codec = y.codec
          /\ z.manifest = y.manifest /\ z.entries = y.entries
      BY <1>2, <3>2
    <3> HIDE DEF y, z
    <3>4. SettingsMean(z, t)
      BY <1>1, <1>4, <2>2, <3>3 DEF SettingsMean
    <3> QED BY <3>2, <3>3, <3>4
  <2>3. CASE c.kind = "level"
    <3>1. PICK codec \in {"stored", "zstd"} :
            /\ c.text # Huge => codec = IF c.text <= 3 THEN "stored" ELSE "zstd"
            /\ SetCodec(Own, codec)
      BY <2>3 DEF Apply
    <3>2. /\ zip' = [zip EXCEPT ![Own] = [@ EXCEPT !["codec"] = codec]]
          /\ manifests' = manifests
      BY <3>1 DEF SetCodec
    <3>3. /\ OwnIsZipper'
          /\ z.codec = codec /\ z.archive_name = y.archive_name
          /\ z.destination = y.destination
          /\ z.manifest = y.manifest /\ z.entries = y.entries
      BY <1>2, <3>2
    <3> HIDE DEF y, z
    <3>4. c.text # Huge => (codec = "zstd" <=> c.text > 3)
      BY <2>3, <3>1
    <3>5. SettingsMean(z, t)
      BY <1>1, <1>4, <2>3, <3>3, <3>4 DEF SettingsMean
    <3> QED BY <3>2, <3>3, <3>5
  <2> QED BY <2>1, <2>2, <2>3
<1> HIDE DEF y, z
<1>6. ManifestMeans(z, manifests, t)
  BY <1>1, <1>5, ManifestStays DEF t
<1>7. EntriesMean(z, t)
  BY <1>1, <1>5, EntriesStay DEF t
<1>8. Means(z, manifests, t)
  BY <1>5, <1>6, <1>7 DEF Means
<1> QED BY <1>5, <1>8 DEF z, t

LEMMA ApplySource ==
  ASSUME NEW S, NEW list \in Seq(S), NEW c \in S, OwnIsZipper,
         Means(zip[Own], manifests, list), Apply(c), c.kind = "source"
  PROVE  OwnIsZipper' /\ Means(zip'[Own], manifests', Append(list, c))
<1> DEFINE y == zip[Own]
           z == zip'[Own]
           t == Append(list, c)
           isDir == c.recursive \/ normalize_relative_path(c.text) \in Dirs
           path == normalize_entry_path(c.text, DirectoryEntry(c.text) \in SourceEntries(c))
<1>1. SettingsMean(y, list) /\ ManifestMeans(y, manifests, list) /\ EntriesMean(y, list)
  BY DEF Means
<1>2. AddSource(c)
  BY DEF Apply
<1>3. /\ OwnIsZipper' /\ manifests' = manifests
      /\ \A other \in DOMAIN make_zipper \ {"entries"} : z[other] = y[other]
      /\ PathsOf(y.entries) \subseteq PathsOf(z.entries)
      /\ isDir => DirectoryEntry(c.text).path \in PathsOf(z.entries)
      /\ ~isDir => FileEntry(c.text, c.text).path \in PathsOf(z.entries)
      /\ Elements(z.entries) \subseteq Elements(y.entries) \cup SourceEntries(c)
  BY <1>2, SourceAdds
<1>4. path \in PathsOf(z.entries)
  <2>1. CASE isDir
    <3>1. DirectoryEntry(c.text) \in SourceEntries(c)
      BY <2>1 DEF SourceEntries
    <3>2. path = normalize_entry_path(c.text, TRUE)
      BY <3>1
    <3>3. DirectoryEntry(c.text).path = path
      BY <3>2 DEF DirectoryEntry, Entry
    <3> QED BY <1>3, <2>1, <3>3
  <2>2. CASE ~isDir
    <3>1. SourceEntries(c) = {FileEntry(c.text, c.text)}
      BY <2>2 DEF SourceEntries
    <3>2. DirectoryEntry(c.text).kind # FileEntry(c.text, c.text).kind
      BY DEF DirectoryEntry, FileEntry, Entry
    <3>3. DirectoryEntry(c.text) \notin SourceEntries(c)
      BY <3>1, <3>2
    <3>4. path = normalize_entry_path(c.text, FALSE)
      <4>1. (DirectoryEntry(c.text) \in SourceEntries(c)) = FALSE
        BY <3>3
      <4> QED BY <4>1
    <3>5. FileEntry(c.text, c.text).path = path
      BY <3>4 DEF FileEntry, Entry
    <3> QED BY <1>3, <2>2, <3>5
  <2> QED BY <2>1, <2>2
<1>5. /\ z.archive_name = y.archive_name /\ z.destination = y.destination
      /\ z.codec = y.codec /\ z.manifest = y.manifest
  <2> HIDE DEF y, z
  <2> QED BY <1>3, FieldsOf
<1>6. Of(t, "source") = Of(list, "source") \cup {c}
  BY OfAppend
<1> HIDE DEF y, z, isDir
<1>7. EntriesMean(z, t)
  <2>1. \A p : \A s : HasPath(s, p) <=> p \in PathsOf(s)
    BY DEF HasPath, PathsOf
  <2>2. \A d \in Of(t, "source") :
          HasPath(z.entries, normalize_entry_path(d.text, DirectoryEntry(d.text) \in SourceEntries(d)))
    <3> SUFFICES ASSUME NEW d \in Of(t, "source")
                 PROVE  normalize_entry_path(d.text, DirectoryEntry(d.text) \in SourceEntries(d))
                          \in PathsOf(z.entries)
      BY <2>1
    <3>1. CASE d = c
      BY <1>4, <3>1
    <3>2. CASE d # c
      <4>1. d \in Of(list, "source")
        BY <1>6, <3>2
      <4>2. HasPath(y.entries, normalize_entry_path(d.text, DirectoryEntry(d.text) \in SourceEntries(d)))
        BY <1>1, <4>1 DEF EntriesMean
      <4> QED BY <1>3, <2>1, <4>2
    <3> QED BY <3>1, <3>2
  <2>3. Elements(z.entries) \subseteq UNION {SourceEntries(d) : d \in Of(t, "source")}
    <3>1. Elements(y.entries) \subseteq UNION {SourceEntries(d) : d \in Of(list, "source")}
      BY <1>1 DEF EntriesMean, ToSet, Elements
    <3>2. (UNION {SourceEntries(d) : d \in Of(list, "source")}) \cup SourceEntries(c)
            \subseteq UNION {SourceEntries(d) : d \in Of(t, "source")}
      BY <1>6
    <3> QED BY <1>3, <3>1, <3>2
  <2>4. ToSet(z.entries) = Elements(z.entries)
    BY DEF ToSet, Elements
  <2> QED BY <2>2, <2>3, <2>4 DEF EntriesMean
<1> HIDE DEF t
<1>8. SettingsMean(z, t)
  BY <1>1, <1>5, SettingsStay DEF t
<1>9. ManifestMeans(z, manifests, t)
  BY <1>1, <1>5, ManifestStays DEF t
<1>10. Means(z, manifests', t)
  BY <1>3, <1>7, <1>8, <1>9 DEF Means
<1> QED BY <1>3, <1>10 DEF z, t

LEMMA ApplyManifest ==
  ASSUME NEW S, NEW list \in Seq(S), NEW c \in S, OwnIsZipper,
         Means(zip[Own], manifests, list), Apply(c), c.kind = "manifest",
         c.text = "INIManifest"
  PROVE  OwnIsZipper' /\ Means(zip'[Own], manifests', Append(list, c))
<1> DEFINE y == zip[Own]
           z == zip'[Own]
           t == Append(list, c)
<1>1. SettingsMean(y, list) /\ EntriesMean(y, list)
  BY DEF Means
<1>2. PICK m \in Manifests : CreateManifest(Own, m)
  BY DEF Apply
<1>3. /\ zip' = [zip EXCEPT ![Own] = [@ EXCEPT !["manifest"] = m]]
      /\ manifests' = [manifests EXCEPT ![m] = EmptyManifest]
  BY <1>2 DEF CreateManifest
<1>4. /\ DOMAIN zip' = Handles
      /\ DOMAIN z = DOMAIN make_zipper
      /\ z.manifest = m
      /\ \A other \in DOMAIN make_zipper \ {"manifest"} : z[other] = y[other]
  BY <1>3, FieldAssigned, FieldsOf
<1>5. DOMAIN manifests' = Manifests /\ manifests'[m] = EmptyManifest
  BY <1>3 DEF OwnIsZipper
<1> HIDE DEF y, z
<1>6. /\ z.archive_name = y.archive_name /\ z.destination = y.destination
      /\ z.codec = y.codec /\ z.entries = y.entries
  BY <1>4, FieldsOf
<1>7. OwnIsZipper'
  <2>1. zip'[Own].entries = zip[Own].entries
    BY <1>6 DEF y, z
  <2> QED BY <1>4, <1>5, <2>1 DEF OwnIsZipper, z
<1>8. ManifestMeans(z, manifests', t)
  <2>1. Told(t) = EmptyManifest
    BY ToldOfAppend
  <2>2. Of(t, "manifest") # {}
    BY OfAppend
  <2>3. m # Nothing
    BY NothingAssumption
  <2> HIDE DEF t
  <2> QED BY <1>4, <1>5, <2>1, <2>2, <2>3 DEF ManifestMeans
<1>9. SettingsMean(z, t) /\ EntriesMean(z, t)
  BY <1>1, <1>6, SettingsStay, EntriesStay
<1> HIDE DEF t
<1>10. Means(z, manifests', t)
  BY <1>8, <1>9 DEF Means
<1> QED BY <1>7, <1>10 DEF z, t

LEMMA ApplyTell ==
  ASSUME NEW S, NEW list \in Seq(S), NEW c \in S, OwnIsZipper,
         Means(zip[Own], manifests, list), Apply(c), c.kind = "manifest_cmd"
  PROVE  OwnIsZipper' /\ Means(zip'[Own], manifests', Append(list, c))
<1> DEFINE y == zip[Own]
           m == zip[Own].manifest
           t == Append(list, c)
<1>1. SettingsMean(y, list) /\ ManifestMeans(y, manifests, list) /\ EntriesMean(y, list)
  BY DEF Means
<1>2. AddToManifest(Own, c.text)
  BY DEF Apply
<1>3. /\ zip' = zip /\ m # Nothing
      /\ manifests' = [manifests EXCEPT ![m] = consume_command(@, c.text)]
  BY <1>2 DEF AddToManifest
<1>4. m \in Manifests /\ DOMAIN manifests = Manifests
  BY <1>3 DEF OwnIsZipper
<1>5. DOMAIN manifests' = Manifests /\ manifests'[m] = consume_command(manifests[m], c.text)
  BY <1>3, <1>4
<1>6. OwnIsZipper'
  BY <1>3, <1>5 DEF OwnIsZipper
<1>7. ManifestMeans(y, manifests', t)
  <2>1. Told(t) = consume_command(Told(list), c.text)
    BY ToldOfAppend
  <2>2. Of(t, "manifest") = Of(list, "manifest")
    BY OfAppend
  <2>3. y.manifest = m
    OBVIOUS
  <2> HIDE DEF t, y, m
  <2>4. manifests[m] = Told(list) /\ Of(list, "manifest") # {}
    BY <1>1, <1>3, <2>3 DEF ManifestMeans
  <2> QED BY <1>3, <1>5, <2>1, <2>2, <2>3, <2>4 DEF ManifestMeans
<1>8. SettingsMean(y, t) /\ EntriesMean(y, t)
  BY <1>1, SettingsStay, EntriesStay
<1> HIDE DEF t, y
<1>9. Means(y, manifests', t)
  BY <1>7, <1>8 DEF Means
<1> QED BY <1>3, <1>6, <1>9 DEF y, t

\* A command scaffold does not carry out changes nothing, in the zipper and in
\* what the list means.
LEMMA ApplyOther ==
  ASSUME NEW S, NEW list \in Seq(S), NEW c \in S, OwnIsZipper,
         Means(zip[Own], manifests, list), Apply(c),
         c.kind \notin {"archive", "save_to", "level", "source", "manifest", "manifest_cmd"}
  PROVE  OwnIsZipper' /\ Means(zip'[Own], manifests', Append(list, c))
<1>1. zip' = zip /\ manifests' = manifests
  BY DEF Apply, vars
<1>2. OwnIsZipper'
  BY <1>1 DEF OwnIsZipper
<1> DEFINE y == zip[Own]
           t == Append(list, c)
<1>3. SettingsMean(y, list) /\ ManifestMeans(y, manifests, list) /\ EntriesMean(y, list)
  BY DEF Means
<1>4. SettingsMean(y, t) /\ ManifestMeans(y, manifests, t) /\ EntriesMean(y, t)
  BY <1>3, SettingsStay, ManifestStays, EntriesStay
<1> HIDE DEF y, t
<1>5. Means(y, manifests', t)
  BY <1>1, <1>4 DEF Means
<1> QED BY <1>1, <1>2, <1>5 DEF y, t

\* Nothing a command does, whole or in part, spoils the zipper.
LEMMA ApplyKeepsZipper ==
  ASSUME OwnIsZipper, NEW c, Apply(c) PROVE OwnIsZipper'
<1>1. ASSUME NEW name \in {"codec", "destination", "archive_name"}, NEW value,
             zip' = [zip EXCEPT ![Own] = [@ EXCEPT ![name] = value]],
             manifests' = manifests
      PROVE  OwnIsZipper'
  BY <1>1, SettingAssigned
<1>2. CASE c.kind = "archive"
  <2>1. SetArchiveName(Own, c.text)
    BY <1>2 DEF Apply
  <2>2. /\ zip' = [zip EXCEPT ![Own] = [@ EXCEPT !["archive_name"] = c.text]]
        /\ manifests' = manifests
    BY <2>1 DEF SetArchiveName
  <2> QED BY <1>1, <2>2
<1>3. CASE c.kind = "save_to"
  <2>1. SetDestination(Own, c.text)
    BY <1>3 DEF Apply
  <2>2. /\ zip' = [zip EXCEPT ![Own] = [@ EXCEPT !["destination"] = c.text]]
        /\ manifests' = manifests
    BY <2>1 DEF SetDestination
  <2> QED BY <1>1, <2>2
<1>4. CASE c.kind = "level"
  <2>1. PICK codec : SetCodec(Own, codec)
    BY <1>4 DEF Apply
  <2>2. /\ zip' = [zip EXCEPT ![Own] = [@ EXCEPT !["codec"] = codec]]
        /\ manifests' = manifests
    BY <2>1 DEF SetCodec
  <2> QED BY <1>1, <2>2
<1>5. CASE c.kind = "source"
  <2>1. AddSource(c)
    BY <1>5 DEF Apply
  <2> QED BY <2>1, SourceAdds
<1>6. CASE c.kind = "manifest" /\ c.text = "INIManifest"
  <2>1. PICK m \in Manifests : CreateManifest(Own, m)
    BY <1>6 DEF Apply
  <2>2. /\ zip' = [zip EXCEPT ![Own] = [@ EXCEPT !["manifest"] = m]]
        /\ manifests' = [manifests EXCEPT ![m] = EmptyManifest]
    BY <2>1 DEF CreateManifest
  <2>3. /\ DOMAIN zip' = Handles
        /\ DOMAIN zip'[Own] = DOMAIN make_zipper
        /\ zip'[Own].manifest = m
        /\ \A other \in DOMAIN make_zipper \ {"manifest"} : zip'[Own][other] = zip[Own][other]
    BY <2>2, FieldAssigned, FieldsOf
  <2>4. zip'[Own].entries = zip[Own].entries
    BY <2>3, FieldsOf
  <2> QED BY <2>2, <2>3, <2>4 DEF OwnIsZipper
<1>7. CASE c.kind = "manifest_cmd"
  <2>1. AddToManifest(Own, c.text)
    BY <1>7 DEF Apply
  <2> QED BY <2>1 DEF AddToManifest, OwnIsZipper
<1>8. CASE \/ c.kind = "manifest" /\ c.text # "INIManifest"
           \/ c.kind \notin {"archive", "save_to", "level", "source", "manifest", "manifest_cmd"}
  <2>1. zip' = zip /\ manifests' = manifests
    BY <1>8 DEF Apply, vars
  <2> QED BY <2>1 DEF OwnIsZipper
<1> QED BY <1>2, <1>3, <1>4, <1>5, <1>6, <1>7, <1>8

LEMMA ApplyMeans ==
  ASSUME NEW S, NEW list \in Seq(S), NEW c \in S, OwnIsZipper,
         Means(zip[Own], manifests, list), Apply(c),
         c.kind = "level" => c.text \in Int,
         c.kind = "manifest" => c.text = "INIManifest"
  PROVE  Means(zip'[Own], manifests', Append(list, c))
<1>1. CASE c.kind \in {"archive", "save_to", "level"}
  BY <1>1, ApplySetting
<1>2. CASE c.kind = "source"
  BY <1>2, ApplySource
<1>3. CASE c.kind = "manifest"
  BY <1>3, ApplyManifest
<1>4. CASE c.kind = "manifest_cmd"
  BY <1>4, ApplyTell
<1>5. CASE c.kind \notin {"archive", "save_to", "level", "source", "manifest", "manifest_cmd"}
  BY <1>5, ApplyOther
<1> QED BY <1>1, <1>2, <1>3, <1>4, <1>5

\* The commands come past grow by the one at hand.
LEMMA PrefixGrows ==
  ASSUME NEW list, IsSequence(list), NEW k \in DOMAIN list
  PROVE  /\ SubSeq(list, 1, k - 1) \in Seq({list[i] : i \in DOMAIN list})
         /\ SubSeq(list, 1, k) = Append(SubSeq(list, 1, k - 1), list[k])
<1> DEFINE S == {list[i] : i \in DOMAIN list}
<1>1. list \in Seq(S) /\ Len(list) \in Nat /\ DOMAIN list = 1 .. Len(list)
  BY DEF IsSequence
<1> HIDE DEF S
<1>2. k \in 1 .. Len(list)
  BY <1>1
<1>3. SubSeq(list, 1, k - 1) \in Seq(S)
  BY <1>1, <1>2
<1>4. SubSeq(list, 1, k) = Append(SubSeq(list, 1, k - 1), list[k])
  BY <1>1, <1>2
<1> QED BY <1>3, <1>4 DEF S

\* No commands mean the new zipper.
LEMMA EmptyMeans ==
  ASSUME NEW objects PROVE Means(make_zipper, objects, <<>>)
<1>1. \A kind : LastIndex(<<>>, kind) = 0
  BY DEF LastIndex
<1>2. ASSUME NEW kind, NEW default PROVE LastOf(<<>>, kind, default) = default
  <2> DEFINE list == <<>>
  <2>1. LastIndex(list, kind) = 0
    BY <1>1
  <2> HIDE DEF list
  <2>2. LastOf(list, kind, default) = default
    BY <2>1, LastIndexIs DEF LastOf
  <2> QED BY <2>2 DEF list
<1>3. SettingsMean(make_zipper, <<>>)
  <2> DEFINE list == <<>>
             fresh == make_zipper
  <2>1. /\ fresh.archive_name = "archive.mz" /\ fresh.destination = ""
        /\ fresh.codec = "stored"
    BY DEF make_zipper
  <2>2. /\ LastOf(list, "archive", "archive.mz") = "archive.mz"
        /\ LastOf(list, "save_to", "") = ""
        /\ LastOf(list, "level", 0) = 0
    BY <1>2
  <2> HIDE DEF list, fresh
  <2>3. ~(LastOf(list, "level", 0) > 3) /\ fresh.codec # "zstd"
    <3>1. LastOf(list, "level", 0) = 0
      BY <2>2, Zenon
    <3>2. ~(LastOf(list, "level", 0) > 3)
      BY <3>1
    <3>3. fresh.codec # "zstd"
      BY <2>1, "stored" # "zstd"
    <3> QED BY <3>2, <3>3
  <2>4. /\ fresh.archive_name = LastOf(list, "archive", "archive.mz")
        /\ fresh.destination = LastOf(list, "save_to", "")
    BY <2>1, <2>2, Zenon
  <2>5. fresh.codec = "zstd" <=> LastOf(list, "level", 0) > 3
    <3>1. (fresh.codec = "zstd") = FALSE
      BY <2>3
    <3>2. (LastOf(list, "level", 0) > 3) = FALSE
      BY <2>3
    <3> QED BY <3>1, <3>2
  <2>6. SettingsMean(fresh, list)
    BY <2>4, <2>5, Zenon DEF SettingsMean
  <2> QED BY <2>6 DEF list, fresh
<1>4. \A kind : Of(<<>>, kind) = {}
  BY DEF Of
<1>5. ManifestMeans(make_zipper, objects, <<>>)
  BY <1>4 DEF ManifestMeans, make_zipper
<1>6. EntriesMean(make_zipper, <<>>)
  BY <1>4 DEF EntriesMean, make_zipper, ToSet
<1> QED BY <1>3, <1>5, <1>6 DEF Means

-----------------------------------------------------------------------------
(* The invariant *)

LEMMA JournalInitInv ==
  ASSUME JournalInit PROVE JournalInv
<1>1. OwnIsZipper
  <2>1. zip = [h \in Handles |-> make_zipper] /\ DOMAIN manifests = Manifests
    BY DEF JournalInit, Init
  <2>2. zip[Own] = make_zipper
    BY <2>1, OwnAssumption
  <2>3. IsSequence(<<>>) /\ UniquePaths(<<>>)
    BY DEF IsSequence, UniquePaths
  <2>4. make_zipper.entries = <<>> /\ make_zipper.manifest = Nothing
    BY DEF make_zipper
  <2> QED BY <2>1, <2>2, <2>3, <2>4 DEF OwnIsZipper
<1>2. /\ script \in Scripts /\ commands = <<>> /\ at = 0
      /\ stage = "none"
  BY DEF JournalInit
<1>3. IsList(commands)
  BY <1>2 DEF IsList, IsSequence
<1>4. at \in 0 .. Len(commands) + 1
  BY <1>2
<1>5. ScaffoldFollowsCommands /\ ChainHolds
  BY <1>2 DEF ScaffoldFollowsCommands, ChainHolds
<1> QED BY <1>1, <1>2, <1>3, <1>4, <1>5 DEF JournalInv

\* The calls that read and check the text leave the zipper alone.
LEMMA LintInv ==
  ASSUME JournalInv, lint PROVE JournalInv'
<1>1. /\ zip' = zip /\ manifests' = manifests /\ script' = script
      /\ commands' = commands /\ at' = at /\ at = 0 /\ stage' = "linted"
  BY DEF lint, Idle, vars
<1>2. OwnIsZipper' /\ IsList(commands)'
  BY <1>1 DEF JournalInv, OwnIsZipper, IsList
<1>3. ScaffoldFollowsCommands' /\ ChainHolds'
  BY <1>1 DEF ScaffoldFollowsCommands, ChainHolds
<1> QED BY <1>1, <1>2, <1>3 DEF JournalInv

LEMMA ParseInv ==
  ASSUME JournalInv, parse PROVE JournalInv'
<1> DEFINE text == IF script = Missing THEN <<>> ELSE script
<1>1. /\ zip' = zip /\ manifests' = manifests /\ script' = script
      /\ at' = at /\ at = 0 /\ stage' \in {"parsed", "none"}
      /\ \/ diagnostics # {} /\ diagnostics' = diagnostics /\ commands' = <<>>
         \/ /\ commands' = CommandsOf(text) /\ read' = script
            /\ diagnostics' = IF Malformed(text) THEN {"malformed"} ELSE {}
  BY DEF parse, Idle, vars, Follow
<1>2. OwnIsZipper'
  BY <1>1 DEF JournalInv, OwnIsZipper
<1>3. IsList(commands')
  <2>1. CASE commands' = <<>>
    BY <2>1 DEF IsList, IsSequence
  <2>2. CASE commands' = CommandsOf(text)
    <3>1. text \in Scripts \cup {<<>>}
      BY DEF JournalInv
    <3> HIDE DEF text
    <3> QED BY <2>2, <3>1, CommandsAreList
  <2> QED BY <1>1, <2>1, <2>2
<1>4. IsList(commands)'
  BY <1>3 DEF IsList
<1>5. ScaffoldFollowsCommands'
  BY <1>1 DEF ScaffoldFollowsCommands
<1>6. ChainHolds'
  <2>1. diagnostics' = {} => commands' = CommandsOf(TextRead') /\ ~Malformed(TextRead')
    <3> SUFFICES ASSUME diagnostics' = {}
                 PROVE  commands' = CommandsOf(TextRead') /\ ~Malformed(TextRead')
      OBVIOUS
    <3>1. TextRead' = text
      BY <1>1 DEF TextRead
    <3> HIDE DEF text
    <3> QED BY <1>1, <3>1
  <2> QED BY <1>1, <2>1 DEF ChainHolds
<1>7. 0 \in 0 .. Len(commands') + 1
  BY <1>3 DEF IsList, IsSequence
<1> QED BY <1>1, <1>2, <1>4, <1>5, <1>6, <1>7 DEF JournalInv

LEMMA ValidateInv ==
  ASSUME JournalInv, validate PROVE JournalInv'
<1>1. /\ zip' = zip /\ manifests' = manifests /\ script' = script /\ read' = read
      /\ commands' = commands /\ at' = at /\ at = 0
      /\ stage' = IF stage = "parsed" THEN "validated" ELSE "none"
      /\ diagnostics' = diagnostics
           \cup (IF Has("archive") THEN {} ELSE {"no archive"})
           \cup (IF Has("filter") THEN {"filter"} ELSE {})
           \cup (IF \E c \in Of(commands, "manifest") : c.text # "INIManifest"
                 THEN {"manifest"} ELSE {})
  BY DEF validate, Idle, vars, Follow
<1>2. OwnIsZipper' /\ IsList(commands)'
  BY <1>1 DEF JournalInv, OwnIsZipper, IsList
<1>3. ScaffoldFollowsCommands'
  BY <1>1 DEF ScaffoldFollowsCommands
<1>4. diagnostics' = {} => /\ diagnostics = {}
                          /\ Of(commands, "archive") # {}
                          /\ Of(commands, "filter") = {}
                          /\ \A c \in Of(commands, "manifest") : c.text = "INIManifest"
  BY <1>1 DEF Has
<1>5. ChainHolds'
  <2>1. TextRead' = TextRead
    BY <1>1 DEF TextRead
  <2> QED BY <1>1, <1>4, <2>1 DEF JournalInv, ChainHolds
<1> QED BY <1>1, <1>2, <1>3, <1>5 DEF JournalInv

\* scaffold begins with the new zipper.
LEMMA ScaffoldInv ==
  ASSUME JournalInv, scaffold PROVE JournalInv'
<1>1. /\ zip' = [zip EXCEPT ![Own] = make_zipper] /\ manifests' = manifests
      /\ script' = script /\ commands' = commands /\ at = 0 /\ at' = 1
      /\ diagnostics' = diagnostics /\ diagnostics = {}
      /\ stage' = stage /\ read' = read
  BY DEF scaffold, Idle
<1>2. zip'[Own] = make_zipper /\ DOMAIN zip' = Handles
  BY <1>1, OwnAssumption DEF JournalInv, OwnIsZipper
<1>3. OwnIsZipper'
  <2>1. IsSequence(<<>>) /\ UniquePaths(<<>>)
    BY DEF IsSequence, UniquePaths
  <2>2. make_zipper.entries = <<>> /\ make_zipper.manifest = Nothing
    BY DEF make_zipper
  <2> QED BY <1>1, <1>2, <2>1, <2>2 DEF JournalInv, OwnIsZipper
<1>4. IsList(commands)' /\ at' \in 0 .. Len(commands') + 1
  BY <1>1 DEF JournalInv, IsList, IsSequence
<1>5. ScaffoldFollowsCommands'
  <2>1. SubSeq(commands, 1, 1 - 1) = <<>>
    OBVIOUS
  <2>2. Means(zip'[Own], manifests', SubSeq(commands', 1, at' - 1))
    BY <1>1, <1>2, <2>1, EmptyMeans
  <2> QED BY <2>2 DEF ScaffoldFollowsCommands
<1>6. ChainHolds'
  <2>1. TextRead' = TextRead
    BY <1>1 DEF TextRead
  <2> QED BY <1>1, <2>1 DEF JournalInv, ChainHolds
<1> QED BY <1>1, <1>3, <1>4, <1>5, <1>6 DEF JournalInv

LEMMA RefuseInv ==
  ASSUME JournalInv, ScaffoldRefuses PROVE JournalInv'
<1>1. /\ zip' = zip /\ manifests' = manifests /\ script' = script
      /\ commands' = commands /\ at' = at /\ at = 0 /\ stage' = "none"
  BY DEF ScaffoldRefuses, Idle, vars
<1>2. OwnIsZipper' /\ IsList(commands)'
  BY <1>1 DEF JournalInv, OwnIsZipper, IsList
<1>3. ScaffoldFollowsCommands' /\ ChainHolds'
  BY <1>1 DEF ScaffoldFollowsCommands, ChainHolds
<1> QED BY <1>1, <1>2, <1>3 DEF JournalInv

\* The command at hand is carried out.
LEMMA StepInv ==
  ASSUME JournalInv, ScaffoldStep PROVE JournalInv'
<1> DEFINE c == commands[at]
           list == SubSeq(commands, 1, at - 1)
           S == {commands[i] : i \in DOMAIN commands}
<1>1. /\ at \in DOMAIN commands /\ at' = at + 1
      /\ script' = script /\ commands' = commands /\ read' = read
      /\ diagnostics' = diagnostics /\ stage' = stage
  BY DEF ScaffoldStep
<1>2. Apply(c)
  BY DEF ScaffoldStep
<1>3. /\ IsSequence(commands) /\ OwnIsZipper
      /\ c.kind = "level" => c.text \in Int
  BY <1>1 DEF JournalInv, IsList
<1>4. /\ at \in 1 .. Len(commands) /\ Len(commands) \in Nat
      /\ diagnostics = {}
  BY <1>1, <1>3 DEF JournalInv, IsSequence
<1>5. /\ list \in Seq(S) /\ c \in S
      /\ SubSeq(commands, 1, at) = Append(list, c)
  BY <1>1, <1>3, PrefixGrows
<1>6. OwnIsZipper'
  BY <1>2, <1>3, ApplyKeepsZipper
<1>7. IsList(commands)' /\ at' \in 0 .. Len(commands') + 1
  BY <1>1, <1>4 DEF JournalInv, IsList
<1>8. ScaffoldFollowsCommands'
  <2> SUFFICES ASSUME \A d \in Of(commands, "manifest") : d.text = "INIManifest"
               PROVE  Means(zip'[Own], manifests', SubSeq(commands', 1, at' - 1))
    BY <1>1 DEF ScaffoldFollowsCommands
  <2>1. Means(zip[Own], manifests, list)
    BY <1>4 DEF JournalInv, ScaffoldFollowsCommands
  <2>2. c.kind = "manifest" => c.text = "INIManifest"
    BY <1>1 DEF Of
  <2>3. SubSeq(commands', 1, at' - 1) = Append(list, c)
    BY <1>1, <1>4, <1>5
  <2> HIDE DEF c, list, S
  <2>4. Means(zip'[Own], manifests', Append(list, c))
    BY <1>2, <1>3, <1>5, <2>1, <2>2, ApplyMeans
  <2> QED BY <2>3, <2>4
<1>9. ChainHolds'
  <2>1. TextRead' = TextRead /\ at' # 0
    BY <1>1, <1>4 DEF TextRead
  <2> QED BY <1>1, <2>1 DEF JournalInv, ChainHolds
<1> QED BY <1>1, <1>4, <1>6, <1>7, <1>8, <1>9 DEF JournalInv

LEMMA ThrowInv ==
  ASSUME JournalInv, ScaffoldThrows PROVE JournalInv'
<1> DEFINE c == commands[at]
<1>1. /\ Throw(c) /\ at' = 0 /\ stage' = "none"
      /\ script' = script /\ commands' = commands
  BY DEF ScaffoldThrows
<1>2. OwnIsZipper'
  <2>1. CASE AddSource(c)
    BY <2>1, SourceAdds DEF JournalInv
  <2>2. CASE UNCHANGED vars
    BY <2>2 DEF JournalInv, OwnIsZipper, vars
  <2> QED BY <1>1, <2>1, <2>2 DEF Throw
<1>3. IsList(commands)' /\ at' \in 0 .. Len(commands') + 1
  BY <1>1 DEF JournalInv, IsList, IsSequence
<1>4. ScaffoldFollowsCommands' /\ ChainHolds'
  BY <1>1 DEF ScaffoldFollowsCommands, ChainHolds
<1> QED BY <1>1, <1>2, <1>3, <1>4 DEF JournalInv

\* All commands are carried out: the zipper is what they mean.
LEMMA ReturnInv ==
  ASSUME JournalInv, ScaffoldReturns PROVE JournalInv'
<1>1. /\ zip' = zip /\ manifests' = manifests /\ script' = script /\ read' = read
      /\ commands' = commands /\ at = Len(commands) + 1 /\ at' = 0
      /\ diagnostics' = diagnostics
      /\ stage' = IF stage = "validated" THEN "scaffolded" ELSE "none"
  BY DEF ScaffoldReturns, vars, Follow
<1>2. IsSequence(commands) /\ Len(commands) \in Nat
  BY DEF JournalInv, IsList, IsSequence
<1>3. OwnIsZipper' /\ IsList(commands)' /\ at' \in 0 .. Len(commands') + 1
  BY <1>1, <1>2 DEF JournalInv, OwnIsZipper, IsList
<1>4. ScaffoldFollowsCommands'
  BY <1>1 DEF ScaffoldFollowsCommands
<1>5. at # 0 /\ diagnostics = {}
  BY <1>1, <1>2 DEF JournalInv
<1>6. SubSeq(commands, 1, at - 1) = commands
  <2> DEFINE S == {commands[i] : i \in DOMAIN commands}
  <2>1. commands \in Seq(S)
    BY <1>2 DEF IsSequence
  <2>2. at - 1 = Len(commands)
    BY <1>1, <1>2
  <2> HIDE DEF S
  <2> QED BY <2>1, <2>2, SubSeqFull
<1>7. stage = "validated" => Means(zip[Own], manifests, commands)
  BY <1>5, <1>6 DEF JournalInv, ScaffoldFollowsCommands, ChainHolds
<1>8. ChainHolds'
  <2>1. TextRead' = TextRead
    BY <1>1 DEF TextRead
  <2> QED BY <1>1, <1>5, <1>7, <2>1 DEF JournalInv, ChainHolds
<1> QED BY <1>1, <1>3, <1>4, <1>8 DEF JournalInv

LEMMA SaveInv ==
  ASSUME JournalInv, save PROVE JournalInv'
<1>1. /\ script' = script /\ commands' = commands /\ at' = at /\ at = 0
      /\ stage' = "none"
  BY DEF save
<1>2. OwnIsZipper'
  <2>1. CASE Build(Own, "file")
    BY <2>1 DEF Build, JournalInv, OwnIsZipper
  <2>2. ASSUME NEW d, NEW n, BuildFile(Own, d, n) PROVE OwnIsZipper'
    <3>1. /\ zip' = [zip EXCEPT ![Own] = [[@ EXCEPT !["archive_name"] = n] EXCEPT !["destination"] = d]]
          /\ manifests' = manifests
      BY <2>2 DEF BuildFile
    <3>2. Own \in DOMAIN zip
      BY OwnAssumption DEF JournalInv, OwnIsZipper
    <3>3. /\ DOMAIN zip' = Handles
          /\ DOMAIN zip'[Own] = DOMAIN make_zipper
          /\ zip'[Own].entries = zip[Own].entries /\ zip'[Own].manifest = zip[Own].manifest
      BY <3>1, <3>2, FieldsOf DEF JournalInv, OwnIsZipper
    <3> QED BY <3>1, <3>3 DEF JournalInv, OwnIsZipper
  <2> QED BY <2>1, <2>2 DEF save
<1>3. IsList(commands)'
  BY <1>1 DEF JournalInv, IsList
<1>4. ScaffoldFollowsCommands' /\ ChainHolds'
  BY <1>1 DEF ScaffoldFollowsCommands, ChainHolds
<1> QED BY <1>1, <1>2, <1>3, <1>4 DEF JournalInv

\* Others may edit the text and the disk, and a build goes on, at any time.
LEMMA OthersInv ==
  ASSUME JournalInv, EditScript \/ Surroundings \/ UNCHANGED allVars PROVE JournalInv'
<1>1. /\ zip' = zip /\ manifests' = manifests
      /\ script' = script \/ script' \in Scripts \cup {Missing}
      /\ commands' = commands /\ diagnostics' = diagnostics
      /\ at' = at /\ stage' = stage /\ read' = read
  <2>1. CASE EditScript
    BY <2>1 DEF EditScript, vars
  <2>2. CASE Surroundings
    BY <2>2 DEF Surroundings, journalVars, BuildStep, Environment, EncodeEntry, LoadFails,
                BuildBytes, NoTarget, WriteArchive, Return, WriteFile, RemoveFile
  <2>3. CASE UNCHANGED allVars
    BY <2>3 DEF allVars, vars, journalVars
  <2> QED BY <2>1, <2>2, <2>3
<1>2. OwnIsZipper' /\ IsList(commands)'
  BY <1>1 DEF JournalInv, OwnIsZipper, IsList
<1>3. ScaffoldFollowsCommands'
  BY <1>1 DEF JournalInv, ScaffoldFollowsCommands
<1>4. ChainHolds'
  <2>1. TextRead' = TextRead
    BY <1>1 DEF TextRead
  <2> QED BY <1>1, <2>1 DEF JournalInv, ChainHolds
<1> QED BY <1>1, <1>2, <1>3, <1>4 DEF JournalInv

\* The inductive invariant of the journal: the shape of its zipper, what the
\* prefix of commands come past means, and what each call of the chain leaves
\* to the next.
THEOREM JournalInvIsInvariant == JournalSpec => []JournalInv
<1>1. JournalInit => JournalInv
  BY JournalInitInv
<1>2. JournalInv /\ [JournalNext]_allVars => JournalInv'
  BY LintInv, ParseInv, ValidateInv, ScaffoldInv, RefuseInv, StepInv, ThrowInv,
     ReturnInv, SaveInv, OthersInv DEF JournalNext
<1> QED BY <1>1, <1>2, PTL DEF JournalSpec

\* scaffold, in whatever order and however often the journal's calls are made
\* and whatever others do to its file meanwhile, starts from an empty zipper
\* and has carried out the commands it has come past, each in full.
THEOREM CommandsAreFollowed == JournalSpec => []ScaffoldFollowsCommands
<1>1. JournalInv => ScaffoldFollowsCommands
  BY DEF JournalInv
<1> QED BY <1>1, JournalInvIsInvariant, PTL

\* After lint, parse, validate and scaffold the zipper is what one version of
\* the text says, for every set of texts.
THEOREM ChainsMeanTheirText == JournalSpec => []ChainMeansText
<1>1. JournalInv => ChainMeansText
  <2> SUFFICES ASSUME JournalInv, stage = "scaffolded", Idle
               PROVE  /\ ~Malformed(TextRead)
                      /\ Of(CommandsOf(TextRead), "archive") # {}
                      /\ Of(CommandsOf(TextRead), "filter") = {}
                      /\ Means(zip[Own], manifests, CommandsOf(TextRead))
    BY DEF ChainMeansText, TextRead
  <2> QED BY DEF JournalInv, ChainHolds, Idle
<1> QED BY <1>1, JournalInvIsInvariant, PTL
=============================================================================
