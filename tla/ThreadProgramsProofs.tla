------------------------- MODULE ThreadProgramsProofs -------------------------
(***************************************************************************)
(* Proofs about ThreadPrograms, for an array of any even length and any    *)
(* number of runs. First the unsynchronised array; then the eight programs *)
(* whose main() creates all its threads, checks, waits for them and checks *)
(* again; then heap_stack and stack_shared_var; at the end the properties  *)
(* of all eleven.                                                          *)
(***************************************************************************)
EXTENDS ThreadPrograms, SequenceTheorems, FiniteSetTheorems, TLAPS

-----------------------------------------------------------------------------
(***************************************************************************)
(* The table of shared_array_raw.                                          *)
(***************************************************************************)
Half == Length \div 2

Array == program.name = "shared_array_raw"

\* The two halves of the array, and the threads that work on it.
LEMMA Halves ==
  /\ Half \in Nat /\ Half >= 2 /\ Length = 2 * Half /\ Length \in Nat
  /\ alloc = 1 /\ even_filler = 2 /\ odd_filler = 3 /\ printer = 4 /\ dealloc = 5
BY ThreadProgramsAssumption DEF Half, alloc, even_filler, odd_filler, printer, dealloc

\* A sequence with one element more, place by place.
LEMMA OneMore ==
  ASSUME NEW S, NEW s \in Seq(S), NEW e \in S
  PROVE  /\ s \o <<e>> \in Seq(S) /\ Len(s \o <<e>>) = Len(s) + 1
         /\ \A k \in 1 .. Len(s) : (s \o <<e>>)[k] = s[k]
         /\ (s \o <<e>>)[Len(s) + 1] = e
<1>. DEFINE r == <<e>>
<1>1. r \in Seq(S) /\ Len(r) = 1 /\ r[1] = e
  OBVIOUS
<1>. HIDE DEF r
<1>2. Len(s) \in Nat
  BY LenProperties
<1>3. /\ s \o r \in Seq(S) /\ Len(s \o r) = Len(s) + Len(r)
      /\ \A k \in 1 .. Len(s) + Len(r) :
           (s \o r)[k] = IF k <= Len(s) THEN s[k] ELSE r[k - Len(s)]
  BY <1>1, ConcatProperties
<1>4. \A k \in 1 .. Len(s) : (s \o r)[k] = s[k]
  BY <1>1, <1>2, <1>3
<1>5. (s \o r)[Len(s) + 1] = e
  BY <1>1, <1>2, <1>3
<1>6. s \o r \in Seq(S) /\ Len(s \o r) = Len(s) + 1
  BY <1>1, <1>3
<1>. QED  BY <1>4, <1>5, <1>6 DEF r

\* A filler writes Half cells, loads the pointer and terminates the string.
LEMMA FillerTable ==
  ASSUME NEW start \in Nat
  PROVE  LET f == filler_thread_body(start)
         IN  /\ Len(f) = Half + 2
             /\ \A k \in 1 .. Half : f[k] = Op("cell", start + 2 * (k - 1), "block")
             /\ f[Half + 1] = Op("load_pointer", 0, "static")
             /\ f[Half + 2] = Op("terminate", 0, "block")
<1>. DEFINE cells == [k \in 1 .. Half |-> Op("cell", start + 2 * (k - 1), "block")]
            load == Op("load_pointer", 0, "static")
            end == Op("terminate", 0, "block")
            T == {cells[k] : k \in 1 .. Half} \cup {load, end}
<1>1. filler_thread_body(start) = (cells \o <<load>>) \o <<end>>
  BY DEF filler_thread_body, Half, Do
<1>2. cells \in Seq(T) /\ Len(cells) = Half
  <2>1. cells \in [1 .. Half -> T]
    OBVIOUS
  <2>2. cells \in Seq(T)
    <3>1. [1 .. Half -> T] \in {[1 .. n -> T] : n \in Nat}
      BY Halves
    <3>2. Seq(T) = UNION {[1 .. n -> T] : n \in Nat}
      BY SeqDef
    <3>. HIDE DEF cells, T
    <3>. QED  BY <2>1, <3>1, <3>2, Zenon
  <2>3. Len(cells) = Half
    BY <2>1, <2>2, Halves, LenProperties
  <2>. QED  BY <2>2, <2>3
<1>3. \A k \in 1 .. Half : cells[k] = Op("cell", start + 2 * (k - 1), "block")
  OBVIOUS
<1>4. load \in T /\ end \in T
  OBVIOUS
<1>. HIDE DEF cells, load, end, T
<1>5. /\ cells \o <<load>> \in Seq(T) /\ Len(cells \o <<load>>) = Half + 1
      /\ \A k \in 1 .. Half : (cells \o <<load>>)[k] = cells[k]
      /\ (cells \o <<load>>)[Half + 1] = load
  BY <1>2, <1>4, OneMore
<1>. DEFINE g == cells \o <<load>>
<1>. HIDE DEF g
<1>6. /\ Len(g \o <<end>>) = Half + 1 + 1
      /\ \A k \in 1 .. Half + 1 : (g \o <<end>>)[k] = g[k]
      /\ (g \o <<end>>)[Half + 1 + 1] = end
  <2>1. g \in Seq(T) /\ Len(g) = Half + 1
    BY <1>5 DEF g
  <2>. QED  BY <2>1, <1>4, OneMore
<1>7. Half + 1 + 1 = Half + 2 /\ Half + 1 \in 1 .. Half + 1
      /\ \A k \in 1 .. Half : k \in 1 .. Half + 1
  BY Halves
<1>8. \A k \in 1 .. Half : (g \o <<end>>)[k] = cells[k]
  BY <1>5, <1>6, <1>7 DEF g
<1>9. (g \o <<end>>)[Half + 1] = load
  BY <1>5, <1>6, <1>7 DEF g
<1>10. /\ Len(g \o <<end>>) = Half + 2
       /\ (g \o <<end>>)[Half + 2] = end
  BY <1>6, <1>7
<1>. QED  BY <1>1, <1>3, <1>8, <1>9, <1>10 DEF g, load, end

\* The places of each thread's body.
Size(t) == CASE t = alloc -> 2
             [] t \in {even_filler, odd_filler} -> Half + 2
             [] t \in {printer, dealloc} -> 1

Start(t) == t - even_filler

\* What the proofs use of the table.
Table ==
  /\ Workers = 1 .. 5
  /\ Len(program.main) = 11
  /\ \A i \in 1 .. 11 :
       /\ program.main[i].name = IF i = 11 THEN "pthread_exit"
                                 ELSE IF i % 2 = 1 THEN "create" ELSE "check"
       /\ program.main[i].object = "static"
       /\ i < 11 /\ i % 2 = 1 => program.main[i].arg = (i + 1) \div 2
  /\ \A t \in 1 .. 5 : Len(program.body[t]) = Size(t)
  /\ program.body[alloc][1] = Op("set_length", 0, "static")
  /\ program.body[alloc][2] = Op("malloc", 0, "static")
  /\ \A f \in {even_filler, odd_filler} :
       /\ \A k \in 1 .. Half :
            program.body[f][k] = Op("cell", Start(f) + 2 * (k - 1), "block")
       /\ program.body[f][Half + 1] = Op("load_pointer", 0, "static")
       /\ program.body[f][Half + 2] = Op("terminate", 0, "block")
  /\ program.body[printer][1] = Op("print_array", 0, "static")
  /\ program.body[dealloc][1] = Op("free", 0, "static")

-----------------------------------------------------------------------------
(***************************************************************************)
(* The inductive invariant.  A thread begins after its creation, and those *)
(* that had ended before it are over.  The length is set with the first    *)
(* step of alloc_thread_body and the pointer with the second.  A filler    *)
(* that began after the allocation has written a letter with each of its   *)
(* turns; the last cell is the only one that both write.                   *)
(***************************************************************************)
ArrayTypes ==
  /\ at \in [0 .. 5 -> Nat]
  /\ after \in [1 .. 5 -> SUBSET (1 .. 5)]
  /\ memory \in [shared_var : {0}, shared_int : {"null"},
                 block : {"null", "live", "freed"}, len : {0, Length},
                 cells : [0 .. Length - 1 -> {"garbage", "letter", "end"}]]
  /\ register \in [1 .. 5 -> {0, 1}]

Places ==
  \A t \in 1 .. 5 :
    /\ at[0] <= 2 * t - 1 => at[t] = 0
    /\ at[t] <= Size(t) + 1
    /\ \A u \in after[t] : at[u] > Size(u)

BlockLife ==
  /\ memory.len = IF at[alloc] > 1 THEN Length ELSE 0
  /\ memory.block # "null" => at[alloc] > 2
  /\ memory.block = "freed" => at[dealloc] > 1

Began(f) == alloc \in after[f]

Filled ==
  memory.block = "live" =>
    /\ Began(even_filler) =>
         \A k \in 1 .. Half : k < at[even_filler] => memory.cells[2 * k - 2] = "letter"
    /\ Began(odd_filler) =>
         /\ \A k \in 1 .. Half : k < at[odd_filler] =>
              \/ memory.cells[2 * k - 1] = "letter"
              \/ k = Half /\ memory.cells[2 * k - 1] = "end"
         /\ at[odd_filler] > Half + 2 => memory.cells[Length - 1] = "end"

Loaded ==
  \A f \in {even_filler, odd_filler} :
    Began(f) /\ at[f] = Half + 2 /\ register[f] = 0 => memory.block = "null"

\* A pointer loaded after the allocation finds the length set.
Unwrapped ==
  /\ \A f \in 1 .. 5 : register[f] = 1 => at[alloc] > 2
  /\ outcome = "undefined" => stray # "wild"

ArrayState == ArrayTypes /\ Places /\ BlockLife /\ Filled /\ Loaded /\ Unwrapped

AllInOrder == \A t \in 1 .. 5 : InOrder(t)

ArrayInv ==
  Array =>
    /\ program.main = shared_array_raw.main /\ program.body = shared_array_raw.body
    /\ ArrayState
    /\ outcome = "undefined" /\ AllInOrder => memory.block = "null"

-----------------------------------------------------------------------------
\* main() of shared_array_raw.c creates a thread, checks, and so on.
LEMMA MainTable ==
  LET m == shared_array_raw.main
  IN  /\ Len(m) = 11
      /\ \A i \in 1 .. 10 : m[i] = IF i % 2 = 1 THEN Op("create", (i + 1) \div 2, "static")
                                   ELSE Op("check", 1, "static")
      /\ m[11] = Op("pthread_exit", 0, "static")
<1>. DEFINE ops == [i \in 1 .. 10 |->
                      IF i % 2 = 1 THEN Op("create", (i + 1) \div 2, "static")
                      ELSE Op("check", 1, "static")]
            exit == Op("pthread_exit", 0, "static")
            T == {ops[i] : i \in 1 .. 10} \cup {exit}
<1>1. shared_array_raw.main = ops \o <<exit>>
  BY DEF shared_array_raw, Do
<1>2. ops \in Seq(T) /\ Len(ops) = 10
  <2>1. ops \in [1 .. 10 -> T]
    OBVIOUS
  <2>2. ops \in Seq(T)
    BY <2>1, SeqDef
  <2>3. Len(ops) = 10
    BY <2>1, <2>2, LenProperties
  <2>. QED  BY <2>2, <2>3
<1>3. \A i \in 1 .. 10 : ops[i] = IF i % 2 = 1 THEN Op("create", (i + 1) \div 2, "static")
                                  ELSE Op("check", 1, "static")
  OBVIOUS
<1>4. exit \in T
  OBVIOUS
<1>. HIDE DEF ops, exit, T
<1>5. /\ Len(ops \o <<exit>>) = Len(ops) + 1
      /\ \A k \in 1 .. Len(ops) : (ops \o <<exit>>)[k] = ops[k]
      /\ (ops \o <<exit>>)[Len(ops) + 1] = exit
  <2>1. ops \in Seq(T)
    BY <1>2
  <2>. QED  BY <2>1, <1>4, OneMore
<1>6. Len(ops) + 1 = 11
  BY <1>2
<1>7. /\ Len(ops \o <<exit>>) = 11
      /\ \A k \in 1 .. 10 : (ops \o <<exit>>)[k] = ops[k]
      /\ (ops \o <<exit>>)[11] = exit
  BY <1>2, <1>5, <1>6
<1>. QED  BY <1>1, <1>3, <1>7 DEF exit

\* What its five threads do.
LEMMA BodyTable ==
  LET b == shared_array_raw.body
  IN  /\ DOMAIN b = 1 .. 5
      /\ Len(b[1]) = 2
      /\ b[1][1] = Op("set_length", 0, "static") /\ b[1][2] = Op("malloc", 0, "static")
      /\ b[2] = filler_thread_body(0) /\ b[3] = filler_thread_body(1)
      /\ b[4] = <<Op("print_array", 0, "static")>>
      /\ b[5] = <<Op("free", 0, "static")>>
<1>. DEFINE A == alloc_thread_body  E == filler_thread_body(0)  O == filler_thread_body(1)
            P == Do("print_array")  F == Do("free")
<1>1. shared_array_raw.body = <<A, E, O, P, F>>
  BY DEF shared_array_raw
<1>2. /\ Len(A) = 2
      /\ A[1] = Op("set_length", 0, "static") /\ A[2] = Op("malloc", 0, "static")
  <2>. DEFINE x == Op("set_length", 0, "static")
              y == Op("malloc", 0, "static")
  <2>1. A = <<x>> \o <<y>>
    BY DEF alloc_thread_body, Do
  <2>. HIDE DEF x, y, A
  <2>2. <<x>> \in Seq({x, y}) /\ Len(<<x>>) = 1 /\ <<x>>[1] = x /\ y \in {x, y}
    OBVIOUS
  <2>3. /\ Len(<<x>> \o <<y>>) = Len(<<x>>) + 1
        /\ \A k \in 1 .. Len(<<x>>) : (<<x>> \o <<y>>)[k] = <<x>>[k]
        /\ (<<x>> \o <<y>>)[Len(<<x>>) + 1] = y
    <3>1. <<x>> \in Seq({x, y}) /\ y \in {x, y}
      BY <2>2
    <3>. DEFINE s == <<x>>
    <3>. HIDE DEF s
    <3>2. s \in Seq({x, y})
      BY <3>1 DEF s
    <3>3. /\ Len(s \o <<y>>) = Len(s) + 1
          /\ \A k \in 1 .. Len(s) : (s \o <<y>>)[k] = s[k]
          /\ (s \o <<y>>)[Len(s) + 1] = y
      BY <3>1, <3>2, OneMore
    <3>. QED  BY <3>3 DEF s
  <2>. DEFINE r == <<x>> \o <<y>>
  <2>. HIDE DEF r
  <2>4. Len(r) = 1 + 1 /\ r[1] = x /\ r[1 + 1] = y
    BY <2>2, <2>3 DEF r
  <2>. QED  BY <2>1, <2>4 DEF r, x, y
<1>3. P = <<Op("print_array", 0, "static")>> /\ F = <<Op("free", 0, "static")>>
  BY DEF Do
<1>. HIDE DEF A, E, O, P, F
<1>4. LET b == <<A, E, O, P, F>>
      IN  /\ DOMAIN b = 1 .. 5
          /\ b[1] = A /\ b[2] = E /\ b[3] = O /\ b[4] = P /\ b[5] = F
  OBVIOUS
<1>5. E = filler_thread_body(0) /\ O = filler_thread_body(1)
  BY DEF E, O
<1>. QED  BY <1>1, <1>2, <1>3, <1>4, <1>5

\* The table of the program that runs.
LEMMA TableHolds ==
  ASSUME program.main = shared_array_raw.main, program.body = shared_array_raw.body
  PROVE  Table
<1>1. /\ Workers = 1 .. 5
      /\ Len(program.body[1]) = 2
      /\ program.body[1][1] = Op("set_length", 0, "static")
      /\ program.body[1][2] = Op("malloc", 0, "static")
      /\ program.body[2] = filler_thread_body(0) /\ program.body[3] = filler_thread_body(1)
      /\ program.body[4] = <<Op("print_array", 0, "static")>>
      /\ program.body[5] = <<Op("free", 0, "static")>>
  BY BodyTable DEF Workers
<1>2. /\ Len(program.main) = 11
      /\ \A i \in 1 .. 11 :
           /\ program.main[i].name = IF i = 11 THEN "pthread_exit"
                                     ELSE IF i % 2 = 1 THEN "create" ELSE "check"
           /\ program.main[i].object = "static"
           /\ i < 11 /\ i % 2 = 1 => program.main[i].arg = (i + 1) \div 2
  <2>1. Len(program.main) = 11
    BY MainTable
  <2>2. ASSUME NEW i \in 1 .. 10
        PROVE  program.main[i] = IF i % 2 = 1 THEN Op("create", (i + 1) \div 2, "static")
                                 ELSE Op("check", 1, "static")
    BY MainTable
  <2>3. program.main[11] = Op("pthread_exit", 0, "static")
    BY MainTable
  <2>4. ASSUME NEW i \in 1 .. 11
        PROVE  /\ program.main[i].name = IF i = 11 THEN "pthread_exit"
                                         ELSE IF i % 2 = 1 THEN "create" ELSE "check"
               /\ program.main[i].object = "static"
               /\ i < 11 /\ i % 2 = 1 => program.main[i].arg = (i + 1) \div 2
    <3>1. CASE i = 11
      BY <3>1, <2>3 DEF Op
    <3>2. CASE i # 11
      <4>1. i \in 1 .. 10
        BY <3>2
      <4>2. CASE i % 2 = 1
        BY <4>1, <4>2, <3>2, <2>2 DEF Op
      <4>3. CASE i % 2 # 1
        BY <4>1, <4>3, <3>2, <2>2 DEF Op
      <4>. QED  BY <4>2, <4>3
    <3>. QED  BY <3>1, <3>2
  <2>. QED  BY <2>1, <2>4
<1>3. ASSUME NEW t \in 1 .. 5
      PROVE  Len(program.body[t]) = Size(t)
  <2>1. /\ Size(1) = 2 /\ Size(2) = Half + 2 /\ Size(3) = Half + 2
        /\ Size(4) = 1 /\ Size(5) = 1
    BY Halves DEF Size
  <2>2. Len(program.body[1]) = 2 /\ Len(program.body[4]) = 1 /\ Len(program.body[5]) = 1
    BY <1>1
  <2>3. Len(program.body[2]) = Half + 2 /\ Len(program.body[3]) = Half + 2
    BY <1>1, FillerTable
  <2>4. t = 1 \/ t = 2 \/ t = 3 \/ t = 4 \/ t = 5
    OBVIOUS
  <2>. QED  BY <2>1, <2>2, <2>3, <2>4, Zenon
<1>4. /\ program.body[alloc][1] = Op("set_length", 0, "static")
      /\ program.body[alloc][2] = Op("malloc", 0, "static")
      /\ program.body[printer][1] = Op("print_array", 0, "static")
      /\ program.body[dealloc][1] = Op("free", 0, "static")
  BY <1>1, Halves
<1>5. ASSUME NEW f \in {even_filler, odd_filler}
      PROVE  /\ \A k \in 1 .. Half :
                  program.body[f][k] = Op("cell", Start(f) + 2 * (k - 1), "block")
             /\ program.body[f][Half + 1] = Op("load_pointer", 0, "static")
             /\ program.body[f][Half + 2] = Op("terminate", 0, "block")
  <2>1. Start(f) \in Nat /\ program.body[f] = filler_thread_body(Start(f))
    BY <1>1, Halves DEF Start
  <2>. QED  BY <2>1, FillerTable
<1>. QED  BY <1>1, <1>2, <1>3, <1>4, <1>5 DEF Table

-----------------------------------------------------------------------------
(***************************************************************************)
(* What the threads of the program do.                                     *)
(***************************************************************************)
LEMMA Sizes ==
  /\ Size(1) = 2 /\ Size(2) = Half + 2 /\ Size(3) = Half + 2 /\ Size(4) = 1 /\ Size(5) = 1
  /\ \A t \in 1 .. 5 : Size(t) \in Nat /\ Size(t) >= 1
  /\ Start(2) = 0 /\ Start(3) = 1
<1>1. /\ Size(1) = 2 /\ Size(2) = Half + 2 /\ Size(3) = Half + 2
      /\ Size(4) = 1 /\ Size(5) = 1
      /\ Start(2) = 0 /\ Start(3) = 1
  BY Halves DEF Size, Start
<1>2. ASSUME NEW t \in 1 .. 5
      PROVE  Size(t) \in Nat /\ Size(t) >= 1
  <2>1. t = 1 \/ t = 2 \/ t = 3 \/ t = 4 \/ t = 5
    OBVIOUS
  <2>2. /\ Size(1) \in Nat /\ Size(1) >= 1 /\ Size(2) \in Nat /\ Size(2) >= 1
        /\ Size(3) \in Nat /\ Size(3) >= 1 /\ Size(4) \in Nat /\ Size(4) >= 1
        /\ Size(5) \in Nat /\ Size(5) >= 1
    BY <1>1, Halves
  <2>. QED  BY <2>1, <2>2, Zenon
<1>. QED  BY <1>1, <1>2

\* What lives as long as the process is never dead; the block may be.
LEMMA TheDead == "static" \notin Dead /\ ("block" \in Dead <=> memory.block # "live")
BY DEF Dead

\* A thread is over when it is past the places of its body.
LEMMA BodySizes ==
  ASSUME Table
  PROVE  /\ Workers = 1 .. 5
         /\ \A t \in 1 .. 5 :
              /\ Code(t) = program.body[t] /\ Len(program.body[t]) = Size(t)
              /\ Over(t) <=> at[t] > Size(t)
<1>1. Workers = 1 .. 5 /\ \A t \in 1 .. 5 : Len(program.body[t]) = Size(t)
  BY Zenon DEF Table
<1>2. ASSUME NEW t \in 1 .. 5
      PROVE  Code(t) = program.body[t]
  BY DEF Code
<1>3. ASSUME NEW t \in 1 .. 5
      PROVE  Over(t) <=> at[t] > Size(t)
  <2>1. Len(Code(t)) = Size(t)
    BY <1>1, <1>2
  <2>. QED  BY <2>1 DEF Over
<1>. QED  BY <1>1, <1>2, <1>3

\* The operation that main(), or a thread, has reached.
LEMMA MainNow ==
  ASSUME Table, ArrayTypes, Ready(0)
  PROVE  /\ at[0] \in 1 .. 11
         /\ Now(0).name = IF at[0] = 11 THEN "pthread_exit"
                          ELSE IF at[0] % 2 = 1 THEN "create" ELSE "check"
         /\ Now(0).object = "static"
         /\ at[0] < 11 /\ at[0] % 2 = 1 => Arg(0) = (at[0] + 1) \div 2
<1>1. at[0] \in Nat
  BY DEF ArrayTypes
<1>2. Len(program.main) = 11
  BY DEF Table
<1>3. at[0] \in 1 .. 11
  <2>1. Code(0) = program.main
    BY DEF Code
  <2>2. at[0] > 0 /\ ~ (at[0] > Len(Code(0)))
    BY DEF Ready, Over
  <2>. DEFINE size == Len(Code(0))
  <2>3. size = 11
    BY <2>1, <1>2
  <2>4. at[0] > 0 /\ ~ (at[0] > size)
    BY <2>2
  <2>. HIDE DEF size
  <2>. QED  BY <1>1, <2>3, <2>4
<1>4. Now(0) = program.main[at[0]]
  BY DEF Now, Code
<1>5. \A i \in 1 .. 11 :
        /\ program.main[i].name = IF i = 11 THEN "pthread_exit"
                                  ELSE IF i % 2 = 1 THEN "create" ELSE "check"
        /\ program.main[i].object = "static"
        /\ i < 11 /\ i % 2 = 1 => program.main[i].arg = (i + 1) \div 2
  BY Zenon DEF Table
<1>. DEFINE i == at[0]
<1>. HIDE DEF i
<1>6. /\ i \in 1 .. 11
      /\ program.main[i].name = IF i = 11 THEN "pthread_exit"
                                ELSE IF i % 2 = 1 THEN "create" ELSE "check"
      /\ program.main[i].object = "static"
      /\ i < 11 /\ i % 2 = 1 => program.main[i].arg = (i + 1) \div 2
  BY <1>3, <1>5 DEF i
<1>. QED  BY <1>4, <1>6 DEF Arg, i

\* The operation a thread of the array is at.
LEMMA WorkerNow ==
  ASSUME Table, ArrayTypes, NEW t \in 1 .. 5, Ready(t)
  PROVE  /\ at[t] \in 1 .. Size(t)
         /\ t = 1 => Now(t) = Op(IF at[t] = 1 THEN "set_length" ELSE "malloc", 0, "static")
         /\ t \in {2, 3} =>
              /\ at[t] <= Half => Now(t) = Op("cell", t - 2 + 2 * (at[t] - 1), "block")
              /\ at[t] = Half + 1 => Now(t) = Op("load_pointer", 0, "static")
              /\ at[t] = Half + 2 => Now(t) = Op("terminate", 0, "block")
         /\ t = 4 => Now(t) = Op("print_array", 0, "static")
         /\ t = 5 => Now(t) = Op("free", 0, "static")
<1>1. at[t] \in Nat /\ Size(t) \in Nat
  BY Sizes DEF ArrayTypes
<1>2. Code(t) = program.body[t] /\ (Over(t) <=> at[t] > Size(t))
  BY BodySizes
<1>3. at[t] \in 1 .. Size(t)
  BY <1>1, <1>2 DEF Ready
<1>4. Now(t) = program.body[t][at[t]]
  BY <1>2 DEF Now
<1>5. ASSUME t = 1
      PROVE  Now(t) = Op(IF at[t] = 1 THEN "set_length" ELSE "malloc", 0, "static")
  <2>1. at[t] = 1 \/ at[t] = 2
    BY <1>3, <1>5, Sizes
  <2>2. /\ program.body[1][1] = Op("set_length", 0, "static")
        /\ program.body[1][2] = Op("malloc", 0, "static")
    BY Halves DEF Table
  <2>. QED  BY <2>1, <2>2, <1>4, <1>5
<1>6. ASSUME t \in {2, 3}
      PROVE  /\ at[t] <= Half => Now(t) = Op("cell", t - 2 + 2 * (at[t] - 1), "block")
             /\ at[t] = Half + 1 => Now(t) = Op("load_pointer", 0, "static")
             /\ at[t] = Half + 2 => Now(t) = Op("terminate", 0, "block")
  <2>1. t \in {even_filler, odd_filler} /\ Start(t) = t - 2
    BY <1>6, Halves DEF Start
  <2>2. at[t] <= Half => at[t] \in 1 .. Half
    BY <1>3, Halves
  <2>3. /\ \A k \in 1 .. Half :
             program.body[t][k] = Op("cell", Start(t) + 2 * (k - 1), "block")
        /\ program.body[t][Half + 1] = Op("load_pointer", 0, "static")
        /\ program.body[t][Half + 2] = Op("terminate", 0, "block")
    BY <2>1, Zenon DEF Table
  <2>4. ASSUME at[t] <= Half
        PROVE  Now(t) = Op("cell", t - 2 + 2 * (at[t] - 1), "block")
    <3>1. at[t] \in 1 .. Half
      BY <2>2, <2>4
    <3>. QED  BY <3>1, <2>1, <2>3, <1>4, Zenon
  <2>5. /\ at[t] = Half + 1 => Now(t) = Op("load_pointer", 0, "static")
        /\ at[t] = Half + 2 => Now(t) = Op("terminate", 0, "block")
    BY <1>4, <2>3, Zenon
  <2>. QED  BY <2>4, <2>5
<1>7. t = 4 => Now(t) = Op("print_array", 0, "static")
  BY <1>3, <1>4, Sizes, Halves DEF Table
<1>8. t = 5 => Now(t) = Op("free", 0, "static")
  BY <1>3, <1>4, Sizes, Halves DEF Table
<1>. QED  BY <1>3, <1>5, <1>6, <1>7, <1>8

\* main() creates, checks and leaves; it strays nowhere.
LEMMA WhatMainDoes ==
  ASSUME Table, ArrayTypes, Main
  PROVE  pthread_create \/ CheckResults \/ pthread_exit \/ LastThreadEnds
<1>1. ASSUME NEW name, Does(0, name)
      PROVE  name \in {"create", "check", "pthread_exit"}
  BY <1>1, MainNow DEF Does
<1>2. ASSUME NEW name, name \notin {"create", "check", "pthread_exit"}
      PROVE  ~ Does(0, name) /\ ~ Works(0, name)
  BY <1>1, <1>2 DEF Works
<1>3. ~ Does(0, "join") /\ ~ Works(0, "join") /\ ~ Works(0, "detach") /\ ~ Does(0, "return")
  BY <1>2
<1>4. ~ Works(0, "setstack") /\ ~ Does(0, "setstack") /\ ~ Works(0, "report")
  BY <1>2
<1>5. ~ Works(0, "report_hidden") /\ ~ Works(0, "spin_init") /\ ~ Works(0, "sem_open")
  BY <1>2
<1>6. ~ Does(0, "sem_open") /\ ~ Works(0, "close")
  BY <1>2
<1>. QED
  BY <1>3, <1>4, <1>5, <1>6
     DEF Main, pthread_join, pthread_detach, Return, setstack, Report, spin_init, sem_open,
         Close

\* main() of the array does nothing that a thread does.
LEMMA MainStepsNowhere ==
  ASSUME Table, ArrayTypes
  PROVE  ~ Step(0)
<1>1. ASSUME NEW name, Does(0, name)
      PROVE  name \in {"create", "check", "pthread_exit"}
  BY <1>1, MainNow DEF Does
<1>2. ASSUME NEW name, name \notin {"create", "check", "pthread_exit"}
      PROVE  ~ Does(0, name) /\ ~ Works(0, name) /\ ~ Touches(0, name)
  BY <1>1, <1>2 DEF Works, Touches
<1>3. ~ malloc(0) /\ ~ free(0) /\ ~ Say(0) /\ ~ Publish(0) /\ ~ Add(0)
  BY <1>2 DEF malloc, free, Say, Publish, Add
<1>4. ~ Load(0) /\ ~ Store(0) /\ ~ Show(0) /\ ~ Lock(0) /\ ~ Unlock(0) /\ ~ Wait(0)
  BY <1>2 DEF Load, Store, Show, Lock, Unlock, Wait
<1>5. ~ SetLength(0) /\ ~ Cell(0) /\ ~ LoadPointer(0) /\ ~ Terminate(0) /\ ~ PrintArray(0)
  BY <1>2 DEF SetLength, Cell, LoadPointer, Terminate, PrintArray
<1>6. ~ GoesAstray(0)
  <2>1. SUFFICES ASSUME GoesAstray(0)
                 PROVE  FALSE
    OBVIOUS
  <2>2. Ready(0) /\ \E object : Strays(0, object)
    BY <2>1 DEF GoesAstray
  <2>3. Now(0).name \in {"create", "check", "pthread_exit"} /\ Now(0).object \notin Dead
    BY <2>2, MainNow, TheDead
  <2>. QED  BY <2>2, <2>3 DEF Strays
<1>. QED  BY <1>3, <1>4, <1>5, <1>6 DEF Step

\* Each thread's operations, or its way astray.
LEMMA WhatWorks ==
  ASSUME Table, ArrayTypes, NEW t \in 1 .. 5, Step(t)
  PROVE  \/ t = 1 /\ at[t] = 1 /\ SetLength(t)
         \/ t = 1 /\ at[t] = 2 /\ malloc(t)
         \/ t \in {2, 3} /\ at[t] <= Half /\ Cell(t)
         \/ t \in {2, 3} /\ at[t] = Half + 1 /\ LoadPointer(t)
         \/ t \in {2, 3} /\ at[t] = Half + 2 /\ Terminate(t)
         \/ t = 4 /\ PrintArray(t)
         \/ t = 5 /\ free(t)
         \/ GoesAstray(t)
<1>1. ASSUME NEW name, Does(t, name)
      PROVE  \/ t = 1 /\ at[t] = 1 /\ name = "set_length"
             \/ t = 1 /\ at[t] = 2 /\ name = "malloc"
             \/ t \in {2, 3} /\ at[t] <= Half /\ name = "cell"
             \/ t \in {2, 3} /\ at[t] = Half + 1 /\ name = "load_pointer"
             \/ t \in {2, 3} /\ at[t] = Half + 2 /\ name = "terminate"
             \/ t = 4 /\ name = "print_array"
             \/ t = 5 /\ name = "free"
  <2>1. Ready(t) /\ Now(t).name = name
    BY <1>1 DEF Does
  <2>2. at[t] \in 1 .. Size(t)
    BY <2>1, WorkerNow
  <2>3. CASE t = 1
    <3>1. at[t] = 1 \/ at[t] = 2
      BY <2>2, <2>3, Sizes
    <3>2. Now(t) = Op(IF at[t] = 1 THEN "set_length" ELSE "malloc", 0, "static")
      BY <2>1, <2>3, WorkerNow
    <3>. QED  BY <3>1, <3>2, <2>1, <2>3 DEF Op
  <2>4. CASE t \in {2, 3}
    <3>1. at[t] <= Half \/ at[t] = Half + 1 \/ at[t] = Half + 2
      BY <2>2, <2>4, Sizes, Halves
    <3>2. /\ at[t] <= Half => Now(t).name = "cell"
          /\ at[t] = Half + 1 => Now(t).name = "load_pointer"
          /\ at[t] = Half + 2 => Now(t).name = "terminate"
      BY <2>1, <2>4, WorkerNow DEF Op
    <3>. QED  BY <3>1, <3>2, <2>1, <2>4
  <2>5. CASE t = 4
    BY <2>1, <2>5, WorkerNow DEF Op
  <2>6. CASE t = 5
    BY <2>1, <2>6, WorkerNow DEF Op
  <2>. QED  BY <2>3, <2>4, <2>5, <2>6
<1>2. ASSUME NEW name,
             name \notin {"set_length", "malloc", "cell", "load_pointer", "terminate",
                          "print_array", "free"}
      PROVE  ~ Does(t, name) /\ ~ Works(t, name) /\ ~ Touches(t, name)
  BY <1>1, <1>2 DEF Works, Touches
<1>3. ~ Say(t) /\ ~ Publish(t) /\ ~ Add(t) /\ ~ Load(t) /\ ~ Store(t)
  BY <1>2 DEF Say, Publish, Add, Load, Store
<1>4. ~ Show(t) /\ ~ Lock(t) /\ ~ Unlock(t) /\ ~ Wait(t)
  BY <1>2 DEF Show, Lock, Unlock, Wait
<1>5. SetLength(t) => t = 1 /\ at[t] = 1
  BY <1>1 DEF SetLength, Touches, Works
<1>6. malloc(t) => t = 1 /\ at[t] = 2
  BY <1>1 DEF malloc, Touches, Works
<1>7. Cell(t) => t \in {2, 3} /\ at[t] <= Half
  BY <1>1 DEF Cell, Touches, Works
<1>8. LoadPointer(t) => t \in {2, 3} /\ at[t] = Half + 1
  BY <1>1 DEF LoadPointer, Works
<1>9. Terminate(t) => t \in {2, 3} /\ at[t] = Half + 2
  BY <1>1 DEF Terminate, Touches, Works
<1>10. PrintArray(t) => t = 4
  BY <1>1 DEF PrintArray, Touches, Works
<1>11. free(t) => t = 5
  BY <1>1 DEF free, Touches, Works
<1>. QED
  BY <1>3, <1>4, <1>5, <1>6, <1>7, <1>8, <1>9, <1>10, <1>11 DEF Step

\* The ways astray: a dead block, a null pointer, an index that wrapped, or a
\* read past the end.
LEMMA WhatStrays ==
  ASSUME Table, ArrayTypes, NEW t \in 1 .. 5, Ready(t), NEW object, Strays(t, object)
  PROVE  \/ /\ t \in {2, 3} /\ at[t] <= Half /\ memory.block # "live"
            /\ t - 2 + 2 * (at[t] - 1) < memory.len /\ object = "block"
         \/ t \in {2, 3} /\ at[t] = Half + 2 /\ register[t] = 0 /\ object = "null"
         \/ t \in {2, 3} /\ at[t] = Half + 2 /\ register[t] = 1 /\ LastCell < 0
         \/ /\ t \in {2, 3} /\ at[t] = Half + 2 /\ register[t] = 1 /\ memory.block # "live"
            /\ object = "block"
         \/ t = 4 /\ memory.block = "freed" /\ object = "block"
         \/ t = 4 /\ ~ Terminated /\ memory.block = "live" /\ object = "overrun"
<1>1. at[t] \in 1 .. Size(t)
  BY WorkerNow
<1>2. CASE t = 1
  <2>1. Now(t).name \in {"set_length", "malloc"} /\ Now(t).object = "static"
    BY <1>2, WorkerNow DEF Op
  <2>. QED  BY <2>1, TheDead DEF Strays
<1>3. CASE t \in {2, 3} /\ at[t] <= Half
  <2>1. Now(t).name = "cell" /\ Arg(t) = t - 2 + 2 * (at[t] - 1)
    BY <1>3, WorkerNow DEF Op, Arg
  <2>. QED  BY <2>1, <1>3, TheDead DEF Strays
<1>4. CASE t \in {2, 3} /\ at[t] = Half + 1
  <2>1. Now(t).name = "load_pointer" /\ Now(t).object = "static"
    BY <1>4, WorkerNow DEF Op
  <2>. QED  BY <2>1, TheDead DEF Strays
<1>5. CASE t \in {2, 3} /\ at[t] = Half + 2
  <2>1. Now(t).name = "terminate"
    BY <1>5, WorkerNow DEF Op
  <2>. QED  BY <2>1, <1>5, TheDead DEF Strays
<1>6. CASE t = 4
  <2>1. Now(t).name = "print_array"
    BY <1>6, WorkerNow DEF Op
  <2>. QED  BY <2>1, <1>6 DEF Strays
<1>7. CASE t = 5
  <2>1. Now(t).name = "free" /\ Now(t).object = "static"
    BY <1>7, WorkerNow DEF Op
  <2>. QED  BY <2>1, TheDead DEF Strays
<1>8. t \in {2, 3} => at[t] <= Half \/ at[t] = Half + 1 \/ at[t] = Half + 2
  BY <1>1, Sizes, Halves
<1>. QED  BY <1>2, <1>3, <1>4, <1>5, <1>6, <1>7, <1>8

-----------------------------------------------------------------------------
(***************************************************************************)
(* Each step preserves the invariant.                                      *)
(***************************************************************************)
LEMMA ArrayInvInit == ProgramsInit => ArrayInv
<1>1. SUFFICES ASSUME ProgramsInit, Array
               PROVE  /\ program.main = shared_array_raw.main
                      /\ program.body = shared_array_raw.body
                      /\ ArrayState /\ outcome # "undefined"
  BY DEF ArrayInv
<1>2. program.main = shared_array_raw.main /\ program.body = shared_array_raw.body
  <2>1. PICK name \in DOMAIN Program :
          program = [name |-> name, main |-> Program[name].main,
                     body |-> Program[name].body]
    BY <1>1 DEF ProgramsInit
  <2>2. name = "shared_array_raw"
    BY <1>1, <2>1 DEF Array
  <2>3. Program[name] = shared_array_raw
    BY <2>2 DEF Program
  <2>. QED  BY <2>1, <2>3
<1>3. ArrayTypes
  BY <1>1, Halves, ThreadProgramsAssumption DEF ProgramsInit, ArrayTypes
<1>4. Places
  BY <1>1, Sizes, ThreadProgramsAssumption DEF ProgramsInit, Places
<1>5. /\ memory.block = "null" /\ memory.len = 0 /\ at[1] = 0 /\ outcome = "running"
      /\ \A f \in 1 .. 5 : register[f] = 0
  BY <1>1, ThreadProgramsAssumption DEF ProgramsInit
<1>6. BlockLife /\ Filled /\ Loaded /\ Unwrapped
  BY <1>5, Halves DEF BlockLife, Filled, Loaded, Unwrapped
<1>. QED  BY <1>2, <1>3, <1>4, <1>5, <1>6 DEF ArrayState

\* A step of main() may begin a thread, and does nothing else to them.
LEMMA MainMoves ==
  ASSUME Table, ArrayState, Main
  PROVE  /\ UNCHANGED <<program, after, memory, register>> /\ outcome' # "undefined"
         /\ at' \in [0 .. 5 -> Nat] /\ at[0] <= at'[0]
         /\ \A t \in 1 .. 5 : at'[t] = at[t] \/ (at[t] = 0 /\ at'[t] = 1 /\ at'[0] >= 2 * t)
<1>. USE DEF ArrayState
<1>0. at \in [0 .. 5 -> Nat]
  BY DEF ArrayTypes
<1>1. pthread_create \/ CheckResults \/ pthread_exit \/ LastThreadEnds
  BY WhatMainDoes
<1>2. ASSUME NEW how, NEW code, how # "undefined", Ends(how, code)
      PROVE  /\ UNCHANGED <<program, after, memory, register, at>>
             /\ outcome' # "undefined"
  BY <1>2 DEF Ends, data
<1>3. ASSUME NEW name, Works(0, name), UNCHANGED data
      PROVE  /\ UNCHANGED <<program, after, memory, register>> /\ outcome' # "undefined"
             /\ at' = [at EXCEPT ![0] = at[0] + 1]
  BY <1>3 DEF Works, Does, Ready, Goto, data, process
<1>4. ASSUME pthread_create
      PROVE  /\ UNCHANGED <<program, after, memory, register>> /\ outcome' # "undefined"
             /\ at[0] < 11 /\ at[0] % 2 = 1 /\ Arg(0) = (at[0] + 1) \div 2
             /\ \/ at' = [at EXCEPT ![0] = at[0] + 1, ![Arg(0)] = 1]
                \/ at' = [at EXCEPT ![0] = at[0] + 1]
  <2>1. Ready(0) /\ Now(0).name = "create"
    BY <1>4 DEF pthread_create, Does
  <2>2. at[0] < 11 /\ at[0] % 2 = 1 /\ Arg(0) = (at[0] + 1) \div 2
    BY <2>1, MainNow
  <2>3. UNCHANGED <<program, after, memory, register>> /\ outcome' # "undefined"
    BY <1>4, <2>1 DEF pthread_create, Ready, data, process
  <2>. QED  BY <1>4, <2>2, <2>3 DEF pthread_create
<1>5. CASE pthread_create
  <2>. DEFINE u == Arg(0)
  <2>1. u \in 1 .. 5 /\ at[0] = 2 * u - 1
    BY <1>0, <1>4, <1>5
  <2>2. at[u] = 0
    BY <2>1 DEF Places
  <2>. HIDE DEF u
  <2>3. CASE at' = [at EXCEPT ![0] = at[0] + 1, ![u] = 1]
    <3>1. at' \in [0 .. 5 -> Nat] /\ at'[0] = at[0] + 1 /\ at'[u] = 1
          /\ \A t \in 1 .. 5 : t # u => at'[t] = at[t]
      BY <1>0, <2>1, <2>3
    <3>. QED  BY <3>1, <1>0, <1>4, <1>5, <2>1, <2>2
  <2>4. CASE at' = [at EXCEPT ![0] = at[0] + 1]
    BY <1>0, <1>4, <1>5, <2>4
  <2>. QED  BY <1>4, <1>5, <2>3, <2>4 DEF u
<1>6. CASE CheckResults \/ pthread_exit \/ LastThreadEnds
  <2>1. CASE UNCHANGED <<program, after, memory, register, at>> /\ outcome' # "undefined"
    BY <2>1, <1>0
  <2>2. CASE /\ UNCHANGED <<program, after, memory, register>> /\ outcome' # "undefined"
             /\ at' = [at EXCEPT ![0] = at[0] + 1]
    BY <2>2, <1>0
  <2>. QED  BY <1>6, <1>2, <1>3, <2>1, <2>2 DEF CheckResults, pthread_exit, LastThreadEnds
<1>. QED  BY <1>1, <1>5, <1>6

\* A step of main() keeps the state of the array, step by step of the threads below.
LEMMA MainKeeps ==
  ASSUME Table, ArrayState, Main
  PROVE  ArrayState'
<1>. USE DEF ArrayState
<1>1. /\ UNCHANGED <<program, after, memory, register>> /\ outcome' # "undefined"
      /\ at' \in [0 .. 5 -> Nat] /\ at[0] <= at'[0]
      /\ \A t \in 1 .. 5 : at'[t] = at[t] \/ (at[t] = 0 /\ at'[t] = 1 /\ at'[0] >= 2 * t)
  BY MainMoves
<1>2. at \in [0 .. 5 -> Nat]
  BY DEF ArrayTypes
<1>3. ArrayTypes'
  BY <1>1 DEF ArrayTypes
<1>4. Places'
  <2>1. SUFFICES ASSUME NEW t \in 1 .. 5
                 PROVE  /\ at'[0] <= 2 * t - 1 => at'[t] = 0
                        /\ at'[t] <= Size(t) + 1
                        /\ \A u \in after[t] : at'[u] > Size(u)
    BY <1>1 DEF Places
  <2>2. at'[0] <= 2 * t - 1 => at'[t] = 0
    BY <1>1, <1>2 DEF Places
  <2>3. at'[t] <= Size(t) + 1
    BY <1>1, <1>2, Sizes DEF Places
  <2>4. ASSUME NEW u \in after[t]
        PROVE  at'[u] > Size(u)
    <3>1. u \in 1 .. 5 /\ at[u] > Size(u)
      BY <2>4 DEF ArrayTypes, Places
    <3>2. at[u] # 0
      BY <3>1, <1>2, Sizes
    <3>. QED  BY <3>1, <3>2, <1>1
  <2>. QED  BY <2>2, <2>3, <2>4
<1>5. at'[1] > 1 <=> at[1] > 1
  BY <1>1, <1>2
<1>6. at[1] > 2 => at'[1] > 2
  BY <1>1, <1>2
<1>7. at[5] > 1 => at'[5] > 1
  BY <1>1, <1>2
<1>8. BlockLife'
  BY <1>1, <1>5, <1>6, <1>7, Halves DEF BlockLife
<1>9. Unwrapped'
  BY <1>1, <1>6, Halves DEF Unwrapped
<1>10. ASSUME NEW f \in {2, 3}
       PROVE  at'[f] = at[f] \/ at'[f] = 1
  BY <1>1, <1>10
<1>11. Filled'
  BY <1>1, <1>2, <1>10, Halves DEF Filled, Began
<1>12. Loaded'
  BY <1>1, <1>2, <1>10, Halves DEF Loaded, Began
<1>. QED  BY <1>3, <1>4, <1>8, <1>9, <1>11, <1>12

\* A thread goes on: what it leaves alone, and what it knows of the allocation.
LEMMA WorkerGoes ==
  ASSUME Table, ArrayState, NEW t \in 1 .. 5, Ready(t), NEW place \in Nat,
         at[t] < place, place <= Size(t) + 1, Goto(t, place)
  PROVE  /\ at' \in [0 .. 5 -> Nat] /\ after' \in [1 .. 5 -> SUBSET (1 .. 5)]
         /\ Places'
         /\ at'[t] = place /\ \A u \in 0 .. 5 : u # t => at'[u] = at[u]
         /\ \A u \in 1 .. 5 : u # t \/ at[t] > 1 => after'[u] = after[u]
         /\ \A f \in 1 .. 5 : Began(f)' => at'[1] > 2
<1>. USE DEF ArrayState
<1>1. at \in [0 .. 5 -> Nat] /\ after \in [1 .. 5 -> SUBSET (1 .. 5)] /\ at[t] > 0
  BY DEF ArrayTypes, Ready
<1>2. at' = [at EXCEPT ![t] = place]
  BY DEF Goto
<1>3. /\ at' \in [0 .. 5 -> Nat] /\ at'[t] = place
      /\ \A u \in 0 .. 5 : u # t => at'[u] = at[u]
  BY <1>1, <1>2
<1>4. \A u \in Ended : u \in 1 .. 5 /\ at[u] > Size(u)
  BY BodySizes DEF Ended
<1>5. after' = IF at[t] = 1 THEN [after EXCEPT ![t] = Ended] ELSE after
  BY DEF Goto
<1>6. Ended \in SUBSET (1 .. 5)
  BY <1>4
<1>7. /\ after' \in [1 .. 5 -> SUBSET (1 .. 5)]
      /\ \A u \in 1 .. 5 : u # t \/ at[t] > 1 => after'[u] = after[u]
  BY <1>1, <1>5, <1>6
<1>8. ASSUME NEW u \in 1 .. 5, NEW v \in after'[u]
      PROVE  v \in 1 .. 5 /\ at[v] > Size(v)
  <2>1. after'[u] = Ended \/ after'[u] = after[u]
    BY <1>1, <1>5
  <2>2. CASE after'[u] = Ended
    BY <2>2, <1>4, <1>8
  <2>3. CASE after'[u] = after[u]
    BY <2>3, <1>1, <1>8 DEF Places
  <2>. QED  BY <2>1, <2>2, <2>3
<1>9. ASSUME NEW u \in 1 .. 5, NEW v \in after'[u]
      PROVE  at'[v] > Size(v)
  <2>1. v \in 1 .. 5 /\ at[v] > Size(v)
    BY <1>8
  <2>2. CASE v = t
    BY <2>1, <2>2, <1>1, <1>3, Sizes
  <2>3. CASE v # t
    BY <2>1, <2>3, <1>3
  <2>. QED  BY <2>2, <2>3
<1>10. Places'
  <2>1. SUFFICES ASSUME NEW u \in 1 .. 5
                 PROVE  (at'[0] <= 2 * u - 1 => at'[u] = 0) /\ at'[u] <= Size(u) + 1
    BY <1>9 DEF Places
  <2>2. at'[0] = at[0]
    BY <1>3
  <2>3. at[0] <= 2 * t - 1 => at[t] = 0
    BY DEF Places
  <2>. QED  BY <2>2, <2>3, <1>1, <1>3 DEF Places
<1>11. ASSUME NEW f \in 1 .. 5, Began(f)'
       PROVE  at'[1] > 2
  <2>1. 1 \in after'[f]
    BY <1>11, Halves DEF Began
  <2>. QED  BY <2>1, <1>9, Sizes
<1>. QED  BY <1>3, <1>7, <1>10, <1>11

\* A place reached is one of the body's, so the next is at most one past its end.
LEMMA NextPlace ==
  ASSUME Table, ArrayState, NEW t \in 1 .. 5, Ready(t)
  PROVE  /\ at[t] \in Nat /\ at[t] >= 1 /\ at[t] + 1 \in Nat /\ at[t] < at[t] + 1
         /\ at[t] + 1 <= Size(t) + 1
<1>1. at[t] \in 1 .. Size(t)
  BY WorkerNow DEF ArrayState
<1>. QED  BY <1>1, Sizes

\* What a filler that a step does not move has done.
EvenDone == \A k \in 1 .. Half : k < at[even_filler] => memory.cells[2 * k - 2] = "letter"
OddDone ==
  /\ \A k \in 1 .. Half : k < at[odd_filler] =>
       \/ memory.cells[2 * k - 1] = "letter"
       \/ k = Half /\ memory.cells[2 * k - 1] = "end"
  /\ at[odd_filler] > Half + 2 => memory.cells[Length - 1] = "end"

\* Filled, for the two fillers.
LEMMA FilledIs ==
  Filled <=> (memory.block = "live" =>
                (Began(2) => EvenDone) /\ (Began(3) => OddDone))
BY Halves DEF Filled, EvenDone, OddDone

\* The allocator sets the length,
LEMMA SetLengthKeeps ==
  ASSUME Table, ArrayState, at[1] = 1, SetLength(1)
  PROVE  ArrayState'
<1>. USE DEF ArrayState
<1>1. /\ Ready(1) /\ Goto(1, at[1] + 1) /\ memory' = [memory EXCEPT !.len = Length]
      /\ UNCHANGED <<program, register, outcome>> /\ outcome = "running"
  BY DEF SetLength, Touches, Works, Does, Ready, process
<1>2. /\ at' \in [0 .. 5 -> Nat] /\ after' \in [1 .. 5 -> SUBSET (1 .. 5)]
      /\ Places'
      /\ at'[1] = at[1] + 1 /\ \A u \in 0 .. 5 : u # 1 => at'[u] = at[u]
      /\ \A f \in 1 .. 5 : Began(f)' => at'[1] > 2
  BY <1>1, NextPlace, WorkerGoes
<1>3. /\ memory'.block = memory.block /\ memory'.len = Length
      /\ memory.block \in {"null", "live", "freed"}
  BY <1>1 DEF ArrayTypes
<1>4. ArrayTypes'
  BY <1>1, <1>2 DEF ArrayTypes
<1>5. memory.block = "null"
  BY Halves DEF BlockLife
<1>6. BlockLife'
  BY <1>2, <1>3, <1>5, Halves DEF BlockLife
<1>7. Filled' /\ Loaded'
  BY <1>3, <1>5 DEF Filled, Loaded
<1>8. Unwrapped'
  BY <1>1, <1>2, Halves DEF Unwrapped
<1>. QED  BY <1>2, <1>4, <1>6, <1>7, <1>8

\* and allocates the array, or does not.
LEMMA MallocKeeps ==
  ASSUME Table, ArrayState, at[1] = 2, malloc(1)
  PROVE  ArrayState'
<1>. USE DEF ArrayState
<1>1. /\ Ready(1) /\ Goto(1, at[1] + 1) /\ UNCHANGED <<program, register, outcome>>
      /\ \E block \in {"null", "live"} : memory' = [memory EXCEPT !.block = block]
      /\ outcome = "running"
  BY DEF malloc, Touches, Works, Does, Ready, process
<1>2. /\ at' \in [0 .. 5 -> Nat] /\ after' \in [1 .. 5 -> SUBSET (1 .. 5)]
      /\ Places'
      /\ at'[1] = at[1] + 1 /\ \A u \in 0 .. 5 : u # 1 => at'[u] = at[u]
      /\ \A u \in 1 .. 5 : u # 1 \/ at[1] > 1 => after'[u] = after[u]
  BY <1>1, NextPlace, WorkerGoes
<1>3. /\ memory'.block \in {"null", "live"} /\ memory'.len = memory.len
  BY <1>1 DEF ArrayTypes
<1>4. ArrayTypes'
  BY <1>1, <1>2 DEF ArrayTypes
<1>5. \A f \in 1 .. 5 : ~ Began(f)'
  <2>1. SUFFICES ASSUME NEW f \in 1 .. 5, 1 \in after[f]
                 PROVE  FALSE
    BY <1>2, Halves DEF Began
  <2>2. at[1] > Size(1)
    BY <2>1 DEF Places
  <2>. QED  BY <2>2, Sizes
<1>6. BlockLife'
  BY <1>2, <1>3, Halves DEF BlockLife
<1>7. Filled' /\ Loaded'
  BY <1>5, Halves DEF Filled, Loaded
<1>8. Unwrapped'
  BY <1>1, <1>2, Halves DEF Unwrapped
<1>. QED  BY <1>2, <1>4, <1>6, <1>7, <1>8

\* The release and the printer: nothing but the block changes, and not to live.
LEMMA OtherStepsKeep ==
  ASSUME Table, ArrayState, NEW t \in {4, 5}, Ready(t), Goto(t, at[t] + 1),
         NEW block \in {"null", "live", "freed"},
         memory' = [memory EXCEPT !.block = block],
         block = memory.block \/ (t = 5 /\ memory.block = "live" /\ block = "freed"),
         UNCHANGED <<program, register, outcome>>, outcome = "running"
  PROVE  ArrayState'
<1>. USE DEF ArrayState
<1>0. t \in 1 .. 5 /\ t # 0 /\ t # 1 /\ t # 2 /\ t # 3
  OBVIOUS
<1>1. /\ at' \in [0 .. 5 -> Nat] /\ after' \in [1 .. 5 -> SUBSET (1 .. 5)]
      /\ Places'
      /\ at'[t] = at[t] + 1 /\ \A u \in 0 .. 5 : u # t => at'[u] = at[u]
      /\ \A u \in 1 .. 5 : u # t \/ at[t] > 1 => after'[u] = after[u]
  BY <1>0, NextPlace, WorkerGoes
<1>2. at'[1] = at[1] /\ at'[2] = at[2] /\ at'[3] = at[3]
      /\ after'[2] = after[2] /\ after'[3] = after[3]
  BY <1>0, <1>1
<1>3. at[t] \in Nat /\ at[t] >= 1
  BY <1>0, NextPlace
<1>4. at[5] > 1 => at'[5] > 1
  BY <1>1, <1>3
<1>5. block # memory.block => at'[5] > 1
  BY <1>1, <1>3
<1>6. memory'.block = block /\ memory'.len = memory.len /\ memory'.cells = memory.cells
  BY DEF ArrayTypes
<1>7. ArrayTypes'
  BY <1>1 DEF ArrayTypes
<1>8. BlockLife'
  BY <1>2, <1>4, <1>5, <1>6, Halves DEF BlockLife
<1>9. block = "live" \/ block = "null" => block = memory.block
  OBVIOUS
<1>10. memory.block = "null" => block = "null"
  OBVIOUS
<1>11. Filled'
  BY <1>2, <1>6, <1>9, Halves DEF Filled, Began
<1>12. Loaded'
  BY <1>2, <1>6, <1>10, Halves DEF Loaded, Began
<1>13. Unwrapped'
  BY <1>2, Halves DEF Unwrapped
<1>. QED  BY <1>1, <1>7, <1>8, <1>11, <1>12, <1>13

\* What holds of a filler's step whatever it writes.
LEMMA FillerGoes ==
  ASSUME Table, ArrayState, NEW f \in {2, 3}, Ready(f), NEW place \in Nat,
         at[f] < place, place <= Size(f) + 1, Goto(f, place),
         memory'.block = memory.block, memory'.len = memory.len
  PROVE  /\ at' \in [0 .. 5 -> Nat] /\ after' \in [1 .. 5 -> SUBSET (1 .. 5)]
         /\ Places' /\ BlockLife'
         /\ at[f] \in 1 .. Half + 2 /\ at'[f] = place
         /\ \A u \in 1 .. 5 : u # f => at'[u] = at[u] /\ after'[u] = after[u]
         /\ at[f] > 1 => after'[f] = after[f]
         /\ at'[1] = at[1]
         /\ \A g \in {2, 3} : Began(g)' => at[1] > 2 /\ memory.len = Length
<1>. USE DEF ArrayState
<1>0. f \in 1 .. 5 /\ f # 0 /\ f # 1 /\ f # 5
  OBVIOUS
<1>1. /\ at' \in [0 .. 5 -> Nat] /\ after' \in [1 .. 5 -> SUBSET (1 .. 5)]
      /\ Places'
      /\ at'[f] = place /\ \A u \in 0 .. 5 : u # f => at'[u] = at[u]
      /\ \A u \in 1 .. 5 : u # f \/ at[f] > 1 => after'[u] = after[u]
      /\ \A g \in 1 .. 5 : Began(g)' => at'[1] > 2
  BY <1>0, WorkerGoes
<1>2. at'[1] = at[1] /\ at'[5] = at[5]
  BY <1>0, <1>1
<1>3. BlockLife'
  BY <1>2, Halves DEF BlockLife
<1>4. at[f] \in 1 .. Half + 2
  BY <1>0, WorkerNow, Sizes
<1>5. ASSUME NEW g \in {2, 3}, Began(g)'
      PROVE  at[1] > 2 /\ memory.len = Length
  <2>1. at[1] > 2 /\ at[1] \in Nat
    <3>1. at[1] \in Nat
      BY DEF ArrayTypes
    <3>. QED  BY <1>1, <1>2, <1>5, <3>1
  <2>2. at[1] > 1
    BY <2>1
  <2>. QED  BY <2>1, <2>2, Halves DEF BlockLife
<1>. QED  BY <1>0, <1>1, <1>2, <1>3, <1>4, <1>5

\* A filler writes a cell, which may be beyond the array,
LEMMA CellKeeps ==
  ASSUME Table, ArrayState, NEW f \in {2, 3}, at[f] <= Half, Cell(f)
  PROVE  ArrayState'
<1>. USE DEF ArrayState
<1>. DEFINE cell == f - 2 + 2 * (at[f] - 1)
<1>0. Ready(f) /\ f \in 1 .. 5 /\ Half \in Nat /\ Half >= 2 /\ Length = 2 * Half
  BY Halves DEF Cell, Touches, Works, Does
<1>1. Arg(f) = cell /\ at[f] \in 1 .. Half
  <2>1. Now(f) = Op("cell", f - 2 + 2 * (at[f] - 1), "block")
    BY <1>0, WorkerNow
  <2>2. at[f] \in Nat /\ at[f] >= 1
    BY <1>0, NextPlace
  <2>. QED  BY <2>1, <2>2, <1>0 DEF Op, Arg
<1>2. cell \in Nat /\ cell < Length
  BY <1>0, <1>1
<1>. HIDE DEF cell
<1>3. CASE /\ Touches(f, "cell") /\ cell < memory.len
           /\ memory' = [memory EXCEPT !.cells[cell] = "letter"]
  <2>1. /\ Goto(f, at[f] + 1) /\ UNCHANGED <<program, register, outcome>>
        /\ outcome = "running"
    BY <1>3 DEF Touches, Works, Does, Ready, process
  <2>2. memory.cells \in [0 .. Length - 1 -> {"garbage", "letter", "end"}]
    BY DEF ArrayTypes
  <2>3. /\ memory'.block = memory.block /\ memory'.len = memory.len
        /\ memory'.cells = [memory.cells EXCEPT ![cell] = "letter"]
    BY <1>3 DEF ArrayTypes
  <2>4. cell \in 0 .. Length - 1 /\ memory'.cells[cell] = "letter"
        /\ \A i \in 0 .. Length - 1 : i # cell => memory'.cells[i] = memory.cells[i]
    BY <1>0, <1>2, <2>2, <2>3
  <2>5. /\ at' \in [0 .. 5 -> Nat] /\ after' \in [1 .. 5 -> SUBSET (1 .. 5)]
        /\ Places' /\ BlockLife'
        /\ at'[f] = at[f] + 1
        /\ \A u \in 1 .. 5 : u # f => at'[u] = at[u] /\ after'[u] = after[u]
        /\ at[f] > 1 => after'[f] = after[f]
        /\ at'[1] = at[1]
    BY <1>0, <2>1, <2>3, NextPlace, FillerGoes
  <2>6. ArrayTypes'
    BY <1>3, <2>1, <2>5 DEF ArrayTypes
  <2>7. ASSUME f = 2
        PROVE  Filled'
    <3>1. cell = 2 * at[2] - 2 /\ at[2] \in 1 .. Half
      BY <2>7, <1>0, <1>1 DEF cell
    <3>2. at'[2] = at[2] + 1 /\ at'[3] = at[3] /\ after'[3] = after[3]
          /\ (at[2] > 1 => after'[2] = after[2])
      BY <2>7, <2>5
    <3>3. ASSUME memory.block = "live", Began(2)', NEW k \in 1 .. Half, k < at'[2]
          PROVE  memory'.cells[2 * k - 2] = "letter"
      <4>1. CASE k = at[2]
        BY <4>1, <3>1, <2>4
      <4>2. CASE k # at[2]
        <5>1. k < at[2] /\ at[2] > 1
          BY <4>2, <3>1, <3>2, <3>3
        <5>2. Began(2)
          BY <5>1, <3>2, <3>3 DEF Began
        <5>3. memory.cells[2 * k - 2] = "letter"
          BY <5>1, <5>2, <3>3, FilledIs DEF EvenDone, even_filler
        <5>4. 2 * k - 2 \in 0 .. Length - 1 /\ 2 * k - 2 # cell
          BY <1>0, <3>1, <4>2
        <5>. QED  BY <5>3, <5>4, <2>4
      <4>. QED  BY <4>1, <4>2
    <3>4. ASSUME NEW k \in 1 .. Half
          PROVE  memory'.cells[2 * k - 1] = memory.cells[2 * k - 1]
      <4>1. 2 * k - 1 \in 0 .. Length - 1 /\ 2 * k - 1 # cell
        BY <1>0, <3>1
      <4>. QED  BY <4>1, <2>4
    <3>5. memory'.cells[Length - 1] = memory.cells[Length - 1]
      BY <3>4, <1>0
    <3>6. ASSUME memory.block = "live", Began(3)'
          PROVE  OddDone'
      <4>1. OddDone
        BY <3>2, <3>6, FilledIs DEF Began
      <4>. QED  BY <4>1, <3>2, <3>4, <3>5, Halves DEF OddDone
    <3>7. Filled'
      BY <2>3, <3>3, <3>6, FilledIs, Halves DEF Filled, EvenDone, OddDone
    <3>. QED  BY <3>7
  <2>8. ASSUME f = 3
        PROVE  Filled'
    <3>1. cell = 2 * at[3] - 1 /\ at[3] \in 1 .. Half
      BY <2>8, <1>0, <1>1 DEF cell
    <3>2. at'[3] = at[3] + 1 /\ at'[2] = at[2] /\ after'[2] = after[2]
          /\ (at[3] > 1 => after'[3] = after[3])
      BY <2>8, <2>5
    <3>3. ASSUME memory.block = "live", Began(3)', NEW k \in 1 .. Half, k < at'[3]
          PROVE  \/ memory'.cells[2 * k - 1] = "letter"
                 \/ k = Half /\ memory'.cells[2 * k - 1] = "end"
      <4>1. CASE k = at[3]
        BY <4>1, <3>1, <2>4
      <4>2. CASE k # at[3]
        <5>1. k < at[3] /\ at[3] > 1
          BY <4>2, <3>1, <3>2, <3>3
        <5>2. Began(3)
          BY <5>1, <3>2, <3>3 DEF Began
        <5>3. \/ memory.cells[2 * k - 1] = "letter"
              \/ k = Half /\ memory.cells[2 * k - 1] = "end"
          BY <5>1, <5>2, <3>3, FilledIs DEF OddDone, odd_filler
        <5>4. 2 * k - 1 \in 0 .. Length - 1 /\ 2 * k - 1 # cell
          BY <1>0, <3>1, <4>2
        <5>. QED  BY <5>3, <5>4, <2>4
      <4>. QED  BY <4>1, <4>2
    <3>4. ASSUME NEW k \in 1 .. Half
          PROVE  memory'.cells[2 * k - 2] = memory.cells[2 * k - 2]
      <4>1. 2 * k - 2 \in 0 .. Length - 1 /\ 2 * k - 2 # cell
        BY <1>0, <3>1
      <4>. QED  BY <4>1, <2>4
    <3>5. ASSUME memory.block = "live", Began(2)'
          PROVE  EvenDone'
      <4>1. EvenDone
        BY <3>2, <3>5, FilledIs DEF Began
      <4>. QED  BY <4>1, <3>2, <3>4, Halves DEF EvenDone
    <3>6. at'[3] <= Half + 1
      BY <3>1, <3>2, <1>0
    <3>7. ASSUME memory.block = "live", Began(3)'
          PROVE  OddDone'
      <4>1. ~ (at'[3] > Half + 2)
        BY <3>1, <3>2, <3>6, <1>0
      <4>. QED  BY <4>1, <3>3, <3>7, Halves DEF OddDone
    <3>8. Filled'
      BY <2>3, <3>5, <3>7, Halves DEF Filled, EvenDone, OddDone
    <3>. QED  BY <3>8
  <2>9. Filled'
    BY <2>7, <2>8
  <2>10. Loaded'
    <3>1. \A g \in {2, 3} : g # f => at'[g] = at[g] /\ after'[g] = after[g]
      BY <2>5
    <3>2. at'[f] # Half + 2
      BY <2>5, <1>0, <1>1
    <3>. QED  BY <3>1, <3>2, <2>1, <2>3, Halves DEF Loaded, Began
  <2>11. Unwrapped'
    BY <2>1, <2>5, Halves DEF Unwrapped
  <2>. QED  BY <2>5, <2>6, <2>9, <2>10, <2>11
<1>4. CASE cell >= memory.len /\ Goto(f, Length \div 2 + 1) /\ UNCHANGED <<process, data>>
  <2>1. /\ Goto(f, Half + 1) /\ UNCHANGED <<program, register, outcome, memory>>
        /\ outcome = "running"
    BY <1>0, <1>4 DEF Half, process, data, Ready
  <2>2. /\ Half + 1 \in Nat /\ at[f] < Half + 1 /\ Half + 1 <= Size(f) + 1
    BY <1>0, <1>1, Sizes
  <2>3. /\ at' \in [0 .. 5 -> Nat] /\ after' \in [1 .. 5 -> SUBSET (1 .. 5)]
        /\ Places' /\ BlockLife'
        /\ at'[f] = Half + 1
        /\ \A u \in 1 .. 5 : u # f => at'[u] = at[u] /\ after'[u] = after[u]
        /\ at'[1] = at[1]
        /\ \A g \in {2, 3} : Began(g)' => at[1] > 2 /\ memory.len = Length
    BY <1>0, <2>1, <2>2, FillerGoes
  <2>4. \A g \in {2, 3} : ~ Began(g)'
    <3>1. ASSUME NEW g \in {2, 3}, Began(g)'
          PROVE  FALSE
      <4>1. memory.len = Length /\ Length \in Nat
        BY <2>3, <3>1, <1>0
      <4>. QED  BY <4>1, <1>2, <1>4
    <3>. QED  BY <3>1
  <2>5. ArrayTypes'
    BY <2>1, <2>3 DEF ArrayTypes
  <2>6. Filled' /\ Loaded'
    BY <2>4, Halves DEF Filled, Loaded
  <2>7. Unwrapped'
    BY <2>1, <2>3, Halves DEF Unwrapped
  <2>. QED  BY <2>3, <2>5, <2>6, <2>7
<1>. QED  BY <1>1, <1>3, <1>4 DEF Cell

\* loads the pointer to it,
LEMMA LoadPointerKeeps ==
  ASSUME Table, ArrayState, NEW f \in {2, 3}, at[f] = Half + 1, LoadPointer(f)
  PROVE  ArrayState'
<1>. USE DEF ArrayState
<1>0. Ready(f) /\ f \in 1 .. 5 /\ Half \in Nat /\ Half >= 2 /\ Length = 2 * Half
  BY Halves DEF LoadPointer, Works, Does
<1>1. /\ Goto(f, at[f] + 1) /\ UNCHANGED <<program, outcome, memory>> /\ outcome = "running"
      /\ register' = [register EXCEPT ![f] = IF memory.block = "null" THEN 0 ELSE 1]
  BY DEF LoadPointer, Works, Does, Ready, process
<1>2. /\ at' \in [0 .. 5 -> Nat] /\ after' \in [1 .. 5 -> SUBSET (1 .. 5)]
      /\ Places' /\ BlockLife'
      /\ at'[f] = at[f] + 1
      /\ \A u \in 1 .. 5 : u # f => at'[u] = at[u] /\ after'[u] = after[u]
      /\ at[f] > 1 => after'[f] = after[f]
      /\ at'[1] = at[1]
  BY <1>0, <1>1, NextPlace, FillerGoes
<1>3. ArrayTypes'
  BY <1>1, <1>2 DEF ArrayTypes
<1>4. at'[f] = Half + 2 /\ after'[f] = after[f]
  BY <1>0, <1>2
<1>5. \A g \in {2, 3} : after'[g] = after[g] /\ (g # f => at'[g] = at[g])
  BY <1>2, <1>4
<1>6. Began(2)' = Began(2) /\ Began(3)' = Began(3)
  BY <1>5 DEF Began
<1>7. ASSUME EvenDone
      PROVE  EvenDone'
  <2>1. SUFFICES ASSUME NEW k \in 1 .. Half, k < at'[2]
                 PROVE  memory.cells[2 * k - 2] = "letter"
    BY <1>1, Halves DEF EvenDone
  <2>2. k < at[2]
    BY <2>1, <1>0, <1>5
  <2>. QED  BY <2>2, <1>7, Halves DEF EvenDone
<1>8. ASSUME OddDone
      PROVE  OddDone'
  <2>1. ASSUME NEW k \in 1 .. Half, k < at'[3]
        PROVE  k < at[3]
    BY <2>1, <1>0, <1>5
  <2>2. at'[3] > Half + 2 => at[3] > Half + 2
    BY <1>0, <1>4, <1>5
  <2>. QED  BY <2>1, <2>2, <1>1, <1>8, Halves DEF OddDone
<1>9. Filled'
  <2>1. memory.block = "live" => (Began(2) => EvenDone) /\ (Began(3) => OddDone)
    BY FilledIs
  <2>2. memory'.block = "live" => (Began(2)' => EvenDone') /\ (Began(3)' => OddDone')
    BY <2>1, <1>1, <1>6, <1>7, <1>8
  <2>. QED  BY <2>2, Halves DEF Filled, EvenDone, OddDone
<1>10. Loaded'
  <2>1. register'[f] = 0 => memory.block = "null"
    BY <1>0, <1>1 DEF ArrayTypes
  <2>2. \A g \in {2, 3} : g # f => register'[g] = register[g]
    BY <1>0, <1>1 DEF ArrayTypes
  <2>. QED  BY <2>1, <2>2, <1>1, <1>5, Halves DEF Loaded, Began
<1>11. Unwrapped'
  <2>1. ASSUME NEW g \in 1 .. 5, register'[g] = 1
        PROVE  at[1] > 2
    <3>1. register[g] = 1 \/ memory.block # "null"
      BY <2>1, <1>0, <1>1 DEF ArrayTypes
    <3>. QED  BY <3>1, Halves DEF Unwrapped, BlockLife
  <2>. QED  BY <2>1, <1>1, <1>2, Halves DEF Unwrapped
<1>. QED  BY <1>2, <1>3, <1>9, <1>10, <1>11

\* and terminates the string.
LEMMA TerminateKeeps ==
  ASSUME Table, ArrayState, NEW f \in {2, 3}, at[f] = Half + 2, Terminate(f)
  PROVE  ArrayState'
<1>. USE DEF ArrayState
<1>0. Ready(f) /\ f \in 1 .. 5 /\ Half \in Nat /\ Half >= 2 /\ Length = 2 * Half
  BY Halves DEF Terminate, Touches, Works, Does
<1>1. /\ Goto(f, at[f] + 1) /\ UNCHANGED <<program, outcome, register>>
      /\ outcome = "running"
      /\ memory' = [memory EXCEPT !.cells[LastCell] = "end"] /\ LastCell >= 0
  BY DEF Terminate, Touches, Works, Does, Ready, process
<1>2. memory.cells \in [0 .. Length - 1 -> {"garbage", "letter", "end"}]
      /\ memory.len \in {0, Length}
  BY DEF ArrayTypes
<1>3. LastCell = Length - 1
  BY <1>0, <1>1, <1>2 DEF LastCell
<1>4. /\ memory'.block = memory.block /\ memory'.len = memory.len
      /\ memory'.cells = [memory.cells EXCEPT ![Length - 1] = "end"]
  BY <1>1, <1>3 DEF ArrayTypes
<1>5. /\ Length - 1 \in 0 .. Length - 1 /\ memory'.cells[Length - 1] = "end"
      /\ \A i \in 0 .. Length - 1 : i # Length - 1 => memory'.cells[i] = memory.cells[i]
  BY <1>0, <1>2, <1>4
<1>6. /\ at' \in [0 .. 5 -> Nat] /\ after' \in [1 .. 5 -> SUBSET (1 .. 5)]
      /\ Places' /\ BlockLife'
      /\ at'[f] = at[f] + 1
      /\ \A u \in 1 .. 5 : u # f => at'[u] = at[u] /\ after'[u] = after[u]
      /\ at[f] > 1 => after'[f] = after[f]
      /\ at'[1] = at[1]
  BY <1>0, <1>1, <1>4, NextPlace, FillerGoes
<1>7. ArrayTypes'
  BY <1>1, <1>3, <1>5, <1>6 DEF ArrayTypes
<1>8. at'[f] = Half + 3 /\ after'[f] = after[f]
  BY <1>0, <1>6
<1>9. \A g \in {2, 3} : after'[g] = after[g] /\ (g # f => at'[g] = at[g])
  BY <1>6, <1>8
<1>10. Began(2)' = Began(2) /\ Began(3)' = Began(3)
  BY <1>9 DEF Began
<1>11. ASSUME EvenDone
       PROVE  EvenDone'
  <2>1. SUFFICES ASSUME NEW k \in 1 .. Half, k < at'[2]
                 PROVE  memory'.cells[2 * k - 2] = "letter"
    BY Halves DEF EvenDone
  <2>2. k < at[2]
    BY <2>1, <1>0, <1>9
  <2>3. memory.cells[2 * k - 2] = "letter"
    BY <2>2, <1>11, Halves DEF EvenDone
  <2>4. 2 * k - 2 \in 0 .. Length - 1 /\ 2 * k - 2 # Length - 1
    BY <1>0
  <2>. QED  BY <2>3, <2>4, <1>5
<1>12. ASSUME OddDone
       PROVE  OddDone'
  <2>1. ASSUME NEW k \in 1 .. Half, k < at'[3]
        PROVE  \/ memory'.cells[2 * k - 1] = "letter"
               \/ k = Half /\ memory'.cells[2 * k - 1] = "end"
    <3>1. k < at[3]
      BY <2>1, <1>0, <1>9
    <3>2. CASE k = Half
      <4>1. 2 * k - 1 = Length - 1
        BY <3>2, <1>0
      <4>. QED  BY <4>1, <3>2, <1>5
    <3>3. CASE k # Half
      <4>1. 2 * k - 1 \in 0 .. Length - 1 /\ 2 * k - 1 # Length - 1
        BY <3>3, <1>0
      <4>2. memory.cells[2 * k - 1] = "letter"
        BY <3>1, <3>3, <1>12, Halves DEF OddDone
      <4>. QED  BY <4>1, <4>2, <1>5
    <3>. QED  BY <3>2, <3>3
  <2>. QED  BY <2>1, <1>5, Halves DEF OddDone
<1>13. Filled'
  <2>1. memory.block = "live" => (Began(2) => EvenDone) /\ (Began(3) => OddDone)
    BY FilledIs
  <2>2. memory'.block = "live" => (Began(2)' => EvenDone') /\ (Began(3)' => OddDone')
    BY <2>1, <1>4, <1>10, <1>11, <1>12
  <2>. QED  BY <2>2, Halves DEF Filled, EvenDone, OddDone
<1>14. Loaded'
  <2>1. at'[f] # Half + 2
    BY <1>8, <1>0
  <2>. QED  BY <2>1, <1>1, <1>4, <1>9, Halves DEF Loaded, Began
<1>15. Unwrapped'
  BY <1>1, <1>6, Halves DEF Unwrapped
<1>. QED  BY <1>6, <1>7, <1>13, <1>14, <1>15

\* A thread that strays leaves the memory alone, and did not begin in order
\* unless there is no block.
LEMMA AstrayKeeps ==
  ASSUME Table, ArrayState, NEW t \in 1 .. 5, GoesAstray(t)
  PROVE  ArrayState' /\ program' = program /\ (AllInOrder' => memory'.block = "null")
<1>. USE DEF ArrayState
<1>0. Half \in Nat /\ Half >= 2 /\ Length = 2 * Half
  BY Halves
<1>1. /\ Ready(t) /\ Goto(t, at[t] + 1) /\ UNCHANGED <<program, memory, register>>
      /\ Strays(t, stray')
  BY DEF GoesAstray, data
<1>2. /\ at' \in [0 .. 5 -> Nat] /\ after' \in [1 .. 5 -> SUBSET (1 .. 5)]
      /\ Places'
      /\ at'[t] = at[t] + 1 /\ \A u \in 0 .. 5 : u # t => at'[u] = at[u]
      /\ \A u \in 1 .. 5 : u # t \/ at[t] > 1 => after'[u] = after[u]
  BY <1>1, NextPlace, WorkerGoes
<1>3. /\ memory.block \in {"null", "live", "freed"} /\ memory.len \in {0, Length}
      /\ register[t] \in {0, 1}
  BY DEF ArrayTypes
<1>4. ~ (register[t] = 1 /\ LastCell < 0)
  <2>1. SUFFICES ASSUME register[t] = 1, LastCell < 0
                 PROVE  FALSE
    OBVIOUS
  <2>2. at[1] > 2
    BY <2>1, Halves DEF Unwrapped
  <2>3. at[1] > 1
    BY <2>2 DEF ArrayTypes
  <2>4. memory.len = Length
    BY <2>3, Halves DEF BlockLife
  <2>. QED  BY <2>1, <2>4, <1>0 DEF LastCell
<1>5. \/ t \in {2, 3} /\ at[t] <= Half /\ memory.block # "live"
      \/ t \in {2, 3} /\ at[t] = Half + 2 /\ register[t] = 0
      \/ t \in {2, 3} /\ at[t] = Half + 2 /\ memory.block # "live"
      \/ t = 4 /\ memory.block = "freed"
      \/ t = 4 /\ ~ Terminated /\ memory.block = "live"
  BY <1>1, <1>4, WhatStrays
<1>6. stray' # "wild"
  BY <1>1, <1>4, WhatStrays
<1>7. at'[1] = at[1] /\ at'[5] = at[5] /\ after'[5] = after[5]
  BY <1>2, <1>5
<1>8. ArrayTypes' /\ BlockLife' /\ Unwrapped'
  BY <1>1, <1>2, <1>6, <1>7, Halves DEF ArrayTypes, BlockLife, Unwrapped
<1>9. ASSUME NEW f \in {2, 3}, f # t
      PROVE  at'[f] = at[f] /\ after'[f] = after[f]
  BY <1>2, <1>9
<1>10. Filled'
  <2>1. SUFFICES ASSUME memory.block = "live"
                 PROVE  Filled'
    BY <1>1 DEF Filled
  <2>2. /\ Began(2) => EvenDone
        /\ Began(3) => OddDone
    BY <2>1, FilledIs
  <2>3. ASSUME t \in {2, 3}
        PROVE  ~ Began(t)'
    <3>1. at[t] = Half + 2 /\ register[t] = 0
      BY <1>5, <2>1, <2>3
    <3>2. after'[t] = after[t]
      BY <1>0, <1>2, <3>1
    <3>. QED  BY <3>1, <3>2, <2>1, <2>3, Halves DEF Loaded, Began
  <2>4. Began(2)' => EvenDone'
    <3>1. SUFFICES ASSUME Began(2)'
                   PROVE  EvenDone'
      OBVIOUS
    <3>2. at'[2] = at[2] /\ after'[2] = after[2]
      BY <3>1, <2>3, <1>9
    <3>. QED  BY <3>1, <3>2, <2>2, <1>1, Halves DEF Began, EvenDone
  <2>5. Began(3)' => OddDone'
    <3>1. SUFFICES ASSUME Began(3)'
                   PROVE  OddDone'
      OBVIOUS
    <3>2. at'[3] = at[3] /\ after'[3] = after[3]
      BY <3>1, <2>3, <1>9
    <3>. QED  BY <3>1, <3>2, <2>2, <1>1, Halves DEF Began, OddDone
  <2>. QED  BY <2>4, <2>5, Halves DEF Filled, EvenDone, OddDone
<1>11. Loaded'
  <2>1. t \in {2, 3} => at'[t] # Half + 2
    BY <1>0, <1>2, <1>5, NextPlace, <1>1
  <2>. QED  BY <2>1, <1>1, <1>9, Halves DEF Loaded, Began
<1>12. ASSUME AllInOrder'
       PROVE  memory.block = "null"
  <2>1. Workers' = 1 .. 5
    BY <1>1 DEF Workers, Table
  <2>2. /\ at'[2] > 1 => 1 \in after'[2]
        /\ at'[3] > 1 => 1 \in after'[3]
        /\ at'[4] > 1 => 2 \in after'[4] /\ 3 \in after'[4]
        /\ at'[5] > 1 => 4 \in after'[5]
    <3>1. Needs'[2] = {1} /\ Needs'[3] = {1} /\ Needs'[4] = {2, 3} /\ Needs'[5] = {4}
      BY <2>1, Halves DEF Needs
    <3>. QED  BY <1>12, <3>1 DEF AllInOrder, InOrder
  <2>3. at[t] \in Nat /\ at[t] >= 1 /\ ~ (at[t] > Size(t))
    BY <1>1, WorkerNow, Sizes
  <2>4. ASSUME memory.block = "freed"
        PROVE  4 \in after[5] /\ at[4] > 1
    <3>1. 4 \in after[5]
      BY <2>2, <2>4, <1>7, Halves DEF BlockLife
    <3>. QED  BY <3>1, Sizes DEF Places
  <2>5. CASE t \in {2, 3} /\ memory.block # "live"
    <3>1. SUFFICES ASSUME memory.block = "freed"
                   PROVE  FALSE
      BY <2>5, <1>3
    <3>2. at'[4] > 1 /\ after'[4] = after[4]
      BY <2>4, <3>1, <2>5, <1>2
    <3>3. t \in after[4]
      BY <3>2, <2>2, <2>5
    <3>4. at[t] > Size(t)
      BY <3>3 DEF Places
    <3>. QED  BY <3>4, <2>3
  <2>6. CASE t \in {2, 3} /\ at[t] = Half + 2 /\ register[t] = 0
    <3>1. at'[t] > 1 /\ after'[t] = after[t]
      BY <2>6, <1>0, <1>2
    <3>2. 1 \in after[t]
      BY <3>1, <2>2, <2>6
    <3>. QED  BY <3>2, <2>6, Halves DEF Loaded, Began
  <2>7. CASE t = 4 /\ memory.block = "freed"
    <3>1. at[4] > Size(4)
      BY <2>4, <2>7 DEF Places
    <3>. QED  BY <3>1, <2>3, <2>7
  <2>8. CASE t = 4 /\ ~ Terminated /\ memory.block = "live"
    <3>1. at'[4] > 1
      BY <2>8, <1>2, <2>3
    <3>2. 3 \in after'[4]
      BY <3>1, <2>2
    <3>3. at'[3] > Size(3) /\ at'[3] = at[3] /\ after'[3] = after[3]
      BY <3>2, <1>2, <2>8 DEF Places
    <3>4. at[3] > Half + 2 /\ at'[3] > 1
      BY <3>3, <1>0, Sizes DEF ArrayTypes
    <3>5. Began(3)
      BY <3>3, <3>4, <2>2, Halves DEF Began
    <3>6. memory.cells[Length - 1] = "end"
      BY <3>4, <3>5, <2>8, Halves DEF Filled
    <3>. QED  BY <3>6, <2>8, <1>0 DEF Terminated
  <2>. QED  BY <1>5, <2>5, <2>6, <2>7, <2>8
<1>. QED  BY <1>1, <1>2, <1>8, <1>10, <1>11, <1>12

\* A process runs one program from its start to its end, and in its next runs.
LEMMA ProgramStays == [ProgramsNext]_vars => program' = program
<1>1. CASE UNCHANGED vars
  BY <1>1 DEF vars, process
<1>2. ASSUME NEW t, NEW name, Works(t, name) \/ Touches(t, name)
      PROVE  program' = program
  BY <1>2 DEF Touches, Works, process
<1>3. ASSUME NEW how, NEW code, Ends(how, code)
      PROVE  program' = program
  BY <1>3 DEF Ends
<1>4. CASE Main
  <2>1. CASE pthread_create
    BY <2>1 DEF pthread_create, process
  <2>2. CASE CheckResults \/ pthread_join \/ pthread_detach \/ pthread_exit
    BY <2>2, <1>2, <1>3 DEF CheckResults, pthread_join, pthread_detach, pthread_exit
  <2>3. CASE LastThreadEnds \/ Return \/ setstack \/ Report
    BY <2>3, <1>2, <1>3 DEF LastThreadEnds, Return, setstack, Report
  <2>4. CASE spin_init \/ sem_open \/ Close
    BY <2>4, <1>2, <1>3 DEF spin_init, sem_open, Close
  <2>. QED  BY <1>4, <2>1, <2>2, <2>3, <2>4 DEF Main
<1>5. ASSUME NEW t \in Workers \cup {0}, Step(t)
      PROVE  program' = program
  <2>1. CASE malloc(t) \/ free(t) \/ Say(t) \/ Publish(t) \/ Add(t) \/ Load(t)
    BY <2>1, <1>2 DEF malloc, free, Say, Publish, Add, Load
  <2>2. CASE Store(t) \/ Show(t) \/ Lock(t) \/ Unlock(t) \/ SetLength(t) \/ LoadPointer(t)
    BY <2>2, <1>2 DEF Store, Show, Lock, Unlock, SetLength, LoadPointer
  <2>3. CASE Terminate(t) \/ PrintArray(t)
    BY <2>3, <1>2 DEF Terminate, PrintArray
  <2>4. CASE Wait(t) \/ Cell(t) \/ GoesAstray(t)
    BY <2>4, <1>2 DEF Wait, Cell, GoesAstray, process
  <2>. QED  BY <1>5, <2>1, <2>2, <2>3, <2>4 DEF Step
<1>6. CASE Kill \/ Restart
  BY <1>6, <1>3 DEF Kill, Restart
<1>. QED  BY <1>1, <1>4, <1>5, <1>6 DEF ProgramsNext

\* Every step keeps the invariant of the array.
LEMMA ArrayInvNext == ArrayInv /\ [ProgramsNext]_vars => ArrayInv'
<1>1. SUFFICES ASSUME ArrayInv, [ProgramsNext]_vars, Array'
               PROVE  /\ program'.main = shared_array_raw.main
                      /\ program'.body = shared_array_raw.body
                      /\ ArrayState'
                      /\ outcome' = "undefined" /\ AllInOrder' => memory'.block = "null"
  BY DEF ArrayInv
<1>2. program' = program /\ Array
  BY <1>1, ProgramStays DEF Array
<1>3. program.main = shared_array_raw.main /\ program.body = shared_array_raw.body
  BY <1>1, <1>2 DEF ArrayInv
<1>4. Table /\ ArrayState
  BY <1>1, <1>2, <1>3, TableHolds DEF ArrayInv
<1>5. ArrayTypes
  BY <1>4 DEF ArrayState
<1>6. SUFFICES /\ ArrayState'
               /\ outcome' = "undefined" /\ AllInOrder' => memory'.block = "null"
  BY <1>2, <1>3
<1>7. CASE UNCHANGED vars
  <2>1. UNCHANGED <<program, outcome, stray, at, after, memory, register>>
    BY <1>7 DEF vars, process, data
  <2>2. ArrayState'
    BY <1>4, <2>1
       DEF ArrayState, ArrayTypes, Places, BlockLife, Filled, Loaded, Unwrapped, Began
  <2>3. AllInOrder' <=> AllInOrder
    BY <2>1 DEF AllInOrder, InOrder, Needs, Workers
  <2>. QED  BY <1>1, <1>2, <2>1, <2>2, <2>3 DEF ArrayInv
<1>8. CASE Main
  BY <1>4, <1>8, MainMoves, MainKeeps
<1>9. ASSUME NEW t \in Workers \cup {0}, Step(t)
      PROVE  /\ ArrayState'
             /\ outcome' = "undefined" /\ AllInOrder' => memory'.block = "null"
  <2>1. t \in 1 .. 5
    <3>1. ~ Step(0) /\ Workers = 1 .. 5
      BY <1>4, <1>5, MainStepsNowhere, BodySizes
    <3>. QED  BY <1>9, <3>1
  <2>2. CASE GoesAstray(t)
    BY <1>4, <2>1, <2>2, AstrayKeeps
  <2>3. ASSUME NEW name, Works(t, name)
        PROVE  UNCHANGED <<program, outcome>> /\ outcome' # "undefined" /\ Ready(t)
               /\ Goto(t, at[t] + 1)
    BY <2>3 DEF Works, Does, Ready, process
  <2>4. CASE t = 1 /\ at[t] = 1 /\ SetLength(t)
    BY <1>4, <2>3, <2>4, SetLengthKeeps DEF SetLength, Touches
  <2>5. CASE t = 1 /\ at[t] = 2 /\ malloc(t)
    BY <1>4, <2>3, <2>5, MallocKeeps DEF malloc, Touches
  <2>6. CASE t \in {2, 3} /\ at[t] <= Half /\ Cell(t)
    <3>1. outcome' # "undefined"
      BY <2>3, <2>6 DEF Cell, Touches, Does, Ready, process
    <3>. QED  BY <1>4, <2>6, <3>1, CellKeeps
  <2>7. CASE t \in {2, 3} /\ at[t] = Half + 1 /\ LoadPointer(t)
    BY <1>4, <2>3, <2>7, LoadPointerKeeps DEF LoadPointer
  <2>8. CASE t \in {2, 3} /\ at[t] = Half + 2 /\ Terminate(t)
    BY <1>4, <2>3, <2>8, TerminateKeeps DEF Terminate, Touches
  <2>9. CASE t = 4 /\ PrintArray(t)
    <3>1. /\ Ready(t) /\ Goto(t, at[t] + 1) /\ UNCHANGED <<program, register, outcome>>
          /\ memory' = memory /\ outcome' # "undefined" /\ outcome = "running"
      BY <2>3, <2>9 DEF PrintArray, Touches, Ready
    <3>2. /\ memory.block \in {"null", "live", "freed"}
          /\ memory' = [memory EXCEPT !.block = memory.block]
      BY <1>5, <3>1 DEF ArrayTypes
    <3>. QED  BY <1>4, <2>9, <3>1, <3>2, OtherStepsKeep
  <2>10. CASE t = 5 /\ free(t)
    <3>. DEFINE block == IF memory.block = "live" THEN "freed" ELSE memory.block
    <3>1. /\ Ready(t) /\ Goto(t, at[t] + 1) /\ UNCHANGED <<program, register, outcome>>
          /\ memory' = [memory EXCEPT !.block = block]
          /\ outcome' # "undefined" /\ outcome = "running"
      BY <2>3, <2>10 DEF free, Touches, Ready
    <3>2. /\ block \in {"null", "live", "freed"}
          /\ block = memory.block \/ (t = 5 /\ memory.block = "live" /\ block = "freed")
      BY <1>5, <2>10 DEF ArrayTypes
    <3>. HIDE DEF block
    <3>. QED  BY <1>4, <2>10, <3>1, <3>2, OtherStepsKeep
  <2>. QED
    BY <1>4, <1>5, <1>9, <2>1, <2>2, <2>4, <2>5, <2>6, <2>7, <2>8, <2>9, <2>10, WhatWorks
<1>10. CASE Kill \/ Restart
  BY <1>2, <1>10 DEF Kill, Restart, Array
<1>. QED  BY <1>1, <1>7, <1>8, <1>9, <1>10 DEF ProgramsNext

-----------------------------------------------------------------------------
\* The invariant of the array implies what is checked of it.
LEMMA ArrayInvImplies == ArrayInv => OrderedArrayIsWhole
<1>0. SUFFICES ASSUME ArrayInv, Array
               PROVE  OrderedArrayIsWhole
  BY DEF OrderedArrayIsWhole, Array
<1>1. Table /\ ArrayState /\ (outcome = "undefined" /\ AllInOrder => memory.block = "null")
  BY <1>0, TableHolds DEF ArrayInv
<1>2. Workers = 1 .. 5 /\ Half \in Nat /\ Half >= 2 /\ Length = 2 * Half
  BY <1>1, Halves DEF Table
<1>3. SUFFICES
        /\ AllInOrder =>
             /\ outcome = "undefined" => memory.block = "null"
             /\ Over(4) /\ memory.block = "live" =>
                  \A i \in 0 .. Length - 1 :
                    memory.cells[i] = IF i = Length - 1 THEN "end" ELSE "letter"
        /\ Over(3) /\ InOrder(3) /\ memory.block = "live" =>
             memory.cells[Length - 1] = "end"
  BY <1>2, Halves DEF OrderedArrayIsWhole, AllInOrder
<1>4. Needs[3] = {1} /\ Needs[2] = {1} /\ Needs[4] = {2, 3}
  BY <1>2, Halves DEF Needs
<1>5. /\ at[2] \in Nat /\ at[3] \in Nat /\ at[4] \in Nat
      /\ (Over(3) => at[3] > Half + 2) /\ (Over(4) => at[4] > 1)
  <2>1. ASSUME NEW t \in 1 .. 5
        PROVE  (Over(t) <=> at[t] > Size(t)) /\ at[t] \in Nat
    <3>1. at[t] \in Nat
      BY <1>1 DEF ArrayState, ArrayTypes
    <3>. QED  BY <1>1, <3>1, BodySizes
  <2>. QED  BY <2>1, Sizes
<1>6. ASSUME at[3] > Half + 2, InOrder(3), memory.block = "live"
      PROVE  OddDone
  <2>1. 1 \in after[3]
    BY <1>2, <1>4, <1>5, <1>6 DEF InOrder
  <2>. QED  BY <1>1, <1>6, <2>1, FilledIs, Halves DEF ArrayState, Began
<1>7. Over(3) /\ InOrder(3) /\ memory.block = "live" => memory.cells[Length - 1] = "end"
  BY <1>2, <1>5, <1>6, Halves DEF OddDone
<1>8. ASSUME AllInOrder, Over(4), memory.block = "live", NEW i \in 0 .. Length - 1
      PROVE  memory.cells[i] = IF i = Length - 1 THEN "end" ELSE "letter"
  <2>1. InOrder(2) /\ InOrder(3) /\ InOrder(4)
    BY <1>8 DEF AllInOrder
  <2>2. 2 \in after[4] /\ 3 \in after[4]
    BY <1>4, <1>5, <1>8, <2>1 DEF InOrder
  <2>3. at[2] > Half + 2 /\ at[3] > Half + 2
    BY <1>1, <2>2, Sizes DEF ArrayState, Places
  <2>4. 1 \in after[2]
    BY <1>2, <1>4, <1>5, <2>1, <2>3 DEF InOrder
  <2>5. EvenDone
    BY <1>1, <1>8, <2>4, FilledIs, Halves DEF ArrayState, Began
  <2>6. OddDone
    BY <1>6, <1>8, <2>1, <2>3
  <2>7. CASE i = Length - 1
    BY <2>3, <2>6, <2>7, Halves DEF OddDone
  <2>8. CASE i # Length - 1 /\ i % 2 = 0
    <3>1. PICK k \in 1 .. Half : i = 2 * k - 2
      <4>. DEFINE h == (i + 2) \div 2
      <4>1. h \in 1 .. Half /\ i = 2 * h - 2
        BY <1>2, <2>8
      <4>. QED  BY <4>1
    <3>2. k < at[2]
      BY <1>2, <1>5, <2>3
    <3>. QED  BY <3>1, <3>2, <2>5, <2>8, Halves DEF EvenDone
  <2>9. CASE i # Length - 1 /\ i % 2 = 1
    <3>1. PICK k \in 1 .. Half : i = 2 * k - 1
      <4>. DEFINE h == (i + 1) \div 2
      <4>1. h \in 1 .. Half /\ i = 2 * h - 1
        BY <1>2, <2>9
      <4>. QED  BY <4>1
    <3>2. k < at[3] /\ k # Half
      BY <1>2, <1>5, <2>3, <2>9, <3>1
    <3>. QED  BY <3>1, <3>2, <2>6, <2>9, Halves DEF OddDone
  <2>10. i % 2 = 0 \/ i % 2 = 1
    OBVIOUS
  <2>. QED  BY <2>7, <2>8, <2>9, <2>10
<1>. QED  BY <1>1, <1>7, <1>8

(***************************************************************************)
(* The inductive invariant holds, for an array of any even length.         *)
(***************************************************************************)
THEOREM ArrayInvariant == ProgramsSafetySpec => []ArrayInv
<1>. QED  BY ArrayInvInit, ArrayInvNext, PTL DEF ProgramsSafetySpec

(***************************************************************************)
(* ExtremeC_examples_chapter16_5_raw.c, with an array of any even length:  *)
(* whatever else is interleaved, threads that begin in the order that      *)
(* shared_heap.c enforces do no harm and the printer finds the whole       *)
(* string; an odd filler in order leaves it terminated.                    *)
(***************************************************************************)
THEOREM ArrayIsWhole == ProgramsSafetySpec => []OrderedArrayIsWhole
<1>. QED  BY ArrayInvariant, ArrayInvImplies, PTL

(***************************************************************************)
(* Without any order, the fillers never apply an index that wrapped to a   *)
(* pointer that is not null: the length is set before the pointer.         *)
(***************************************************************************)
THEOREM NoWildWrite ==
  ProgramsSafetySpec => [](Array /\ outcome = "undefined" => stray # "wild")
<1>1. ArrayInv => (Array /\ outcome = "undefined" => stray # "wild")
  BY DEF ArrayInv, ArrayState, Unwrapped
<1>. QED  BY <1>1, ArrayInvariant, PTL

-----------------------------------------------------------------------------
(***************************************************************************)
(* The tables of the eight programs with the usual main().                 *)
(***************************************************************************)
\* The operations there are.
Names ==
  {"create", "check", "join", "detach", "return", "pthread_exit", "spin_init", "sem_open",
   "close", "report", "report_hidden", "say", "add", "load", "store", "show", "lock",
   "unlock", "malloc", "setstack", "free", "publish", "wait", "read"}
Objects == {"static", "main", "local", "block", "lock"}
AnyOp == [name : Names, arg : Int, object : Objects]

\* A concatenation, place by place.
LEMMA Glue ==
  ASSUME NEW S, NEW s \in Seq(S), NEW r \in Seq(S)
  PROVE  /\ s \o r \in Seq(S) /\ Len(s \o r) = Len(s) + Len(r)
         /\ \A k \in 1 .. Len(s) : (s \o r)[k] = s[k]
         /\ \A k \in 1 .. Len(r) : (s \o r)[Len(s) + k] = r[k]
<1>. DEFINE m == Len(s)  n == Len(r)
<1>1. m \in Nat /\ n \in Nat
  BY LenProperties
<1>2. /\ s \o r \in Seq(S) /\ Len(s \o r) = m + n
      /\ \A k \in 1 .. m + n : (s \o r)[k] = IF k <= m THEN s[k] ELSE r[k - m]
  BY ConcatProperties
<1>. HIDE DEF m, n
<1>3. \A k \in 1 .. m : (s \o r)[k] = s[k]
  BY <1>1, <1>2
<1>4. ASSUME NEW k \in 1 .. n
      PROVE  (s \o r)[m + k] = r[k]
  <2>. DEFINE i == m + k
  <2>1. i \in 1 .. m + n /\ ~ (i <= m) /\ i - m = k
    BY <1>1
  <2>. HIDE DEF i
  <2>2. (s \o r)[i] = r[i - m]
    BY <1>2, <2>1
  <2>. QED  BY <2>1, <2>2 DEF i
<1>5. /\ s \o r \in Seq(S) /\ Len(s \o r) = m + n
      /\ \A k \in 1 .. m : (s \o r)[k] = s[k]
      /\ \A k \in 1 .. n : (s \o r)[m + k] = r[k]
  BY <1>2, <1>3, <1>4
<1>. QED  BY <1>5, Zenon DEF m, n

\* The fields of an operation.
LEMMA OpIs ==
  ASSUME NEW name, NEW arg, NEW object
  PROVE  /\ Op(name, arg, object).name = name
         /\ Op(name, arg, object).arg = arg
         /\ Op(name, arg, object).object = object
         /\ name \in Names /\ arg \in Int /\ object \in Objects
              => Op(name, arg, object) \in AnyOp
BY DEF Op, AnyOp

\* An operation of main() on nothing that dies.
LEMMA StaticOp ==
  ASSUME NEW name \in Names, NEW arg \in Int
  PROVE  Op(name, arg, "static") \in AnyOp
<1>1. "static" \in Objects
  BY DEF Objects
<1>. QED  BY <1>1, OpIs

\* A single operation.
LEMMA OneOp ==
  ASSUME NEW e \in AnyOp
  PROVE  <<e>> \in Seq(AnyOp) /\ Len(<<e>>) = 1 /\ <<e>>[1] = e
OBVIOUS

\* An operation for each thread.
LEMMA EachTable ==
  ASSUME NEW name \in Names, NEW n \in Nat
  PROVE  /\ Each(name, n) \in Seq(AnyOp) /\ Len(Each(name, n)) = n
         /\ \A k \in 1 .. n : Each(name, n)[k] = Op(name, k, "static")
<1>1. \A k \in 1 .. n : Op(name, k, "static") \in AnyOp
  BY StaticOp
<1>2. Each(name, n) \in [1 .. n -> AnyOp]
  BY <1>1 DEF Each
<1>3. Each(name, n) \in Seq(AnyOp)
  <2>1. Seq(AnyOp) = UNION {[1 .. k -> AnyOp] : k \in Nat}
    BY SeqDef
  <2>. QED  BY <1>2, <2>1, Zenon
<1>4. DOMAIN Each(name, n) = 1 .. n
  BY DEF Each
<1>5. Len(Each(name, n)) = n
  BY <1>3, <1>4, LenProperties
<1>. QED  BY <1>3, <1>5 DEF Each

\* An operation by its name.
LEMMA DoTable ==
  ASSUME NEW name \in Names
  PROVE  /\ Do(name) \in Seq(AnyOp) /\ Len(Do(name)) = 1
         /\ Do(name)[1] = Op(name, 0, "static")
<1>1. Op(name, 0, "static") \in AnyOp
  BY StaticOp
<1>. QED  BY <1>1, OneOp DEF Do

\* The check of what has failed.
LEMMA CheckTable ==
  ASSUME NEW code \in Int
  PROVE  /\ exit_if_failed(code) \in Seq(AnyOp) /\ Len(exit_if_failed(code)) = 1
         /\ exit_if_failed(code)[1] = Op("check", code, "static")
<1>1. "check" \in Names
  BY DEF Names
<1>2. Op("check", code, "static") \in AnyOp
  BY <1>1, StaticOp
<1>. QED  BY <1>2, OneOp DEF exit_if_failed

\* Creates, a check, a wait for each thread, another check.
UsualPart(n, wait) ==
  Starts(n) \o (Each(wait, n) \o exit_if_failed(2))

\* The part of main() that the eight programs share.
LEMMA UsualPartTable ==
  ASSUME NEW n \in Nat, NEW wait \in Names
  PROVE  LET u == UsualPart(n, wait)
         IN  /\ u \in Seq(AnyOp) /\ Len(u) = 2 * n + 2
             /\ \A k \in 1 .. n : u[k] = Op("create", k, "static")
             /\ u[n + 1] = Op("check", 1, "static")
             /\ \A k \in 1 .. n : u[n + 1 + k] = Op(wait, k, "static")
             /\ u[2 * n + 2] = Op("check", 2, "static")
<1>. DEFINE a == Each("create", n)  b == exit_if_failed(1)
            c == Each(wait, n)  d == exit_if_failed(2)
            s == a \o b  r == c \o d
<1>0. "create" \in Names
  BY DEF Names
<1>1. /\ a \in Seq(AnyOp) /\ Len(a) = n
      /\ \A k \in 1 .. n : a[k] = Op("create", k, "static")
  BY <1>0, EachTable
<1>2. /\ c \in Seq(AnyOp) /\ Len(c) = n
      /\ \A k \in 1 .. n : c[k] = Op(wait, k, "static")
  BY EachTable
<1>3. b \in Seq(AnyOp) /\ Len(b) = 1 /\ b[1] = Op("check", 1, "static")
  BY CheckTable
<1>4. d \in Seq(AnyOp) /\ Len(d) = 1 /\ d[1] = Op("check", 2, "static")
  BY CheckTable
<1>. HIDE DEF a, b, c, d
<1>5. /\ s \in Seq(AnyOp) /\ Len(s) = n + 1
      /\ \A k \in 1 .. n : s[k] = a[k]
      /\ s[n + 1] = b[1]
  <2>1. /\ a \o b \in Seq(AnyOp) /\ Len(a \o b) = Len(a) + Len(b)
        /\ \A k \in 1 .. Len(a) : (a \o b)[k] = a[k]
        /\ \A k \in 1 .. Len(b) : (a \o b)[Len(a) + k] = b[k]
    <3>1. a \in Seq(AnyOp) /\ b \in Seq(AnyOp)
      BY <1>1, <1>3
    <3>. QED  BY <3>1, Glue
  <2>. HIDE DEF s
  <2>2. /\ s \in Seq(AnyOp) /\ Len(s) = Len(a) + Len(b)
        /\ \A k \in 1 .. Len(a) : s[k] = a[k]
        /\ \A k \in 1 .. Len(b) : s[Len(a) + k] = b[k]
    BY <2>1 DEF s
  <2>. QED  BY <1>1, <1>3, <2>2
<1>6. /\ r \in Seq(AnyOp) /\ Len(r) = n + 1
      /\ \A k \in 1 .. n : r[k] = c[k]
      /\ r[n + 1] = d[1]
  <2>1. /\ c \o d \in Seq(AnyOp) /\ Len(c \o d) = Len(c) + Len(d)
        /\ \A k \in 1 .. Len(c) : (c \o d)[k] = c[k]
        /\ \A k \in 1 .. Len(d) : (c \o d)[Len(c) + k] = d[k]
    <3>1. c \in Seq(AnyOp) /\ d \in Seq(AnyOp)
      BY <1>2, <1>4
    <3>. QED  BY <3>1, Glue
  <2>. HIDE DEF r
  <2>2. /\ r \in Seq(AnyOp) /\ Len(r) = Len(c) + Len(d)
        /\ \A k \in 1 .. Len(c) : r[k] = c[k]
        /\ \A k \in 1 .. Len(d) : r[Len(c) + k] = d[k]
    BY <2>1 DEF r
  <2>. QED  BY <1>2, <1>4, <2>2
<1>. HIDE DEF s, r
<1>7. /\ s \o r \in Seq(AnyOp) /\ Len(s \o r) = (n + 1) + (n + 1)
      /\ \A k \in 1 .. n + 1 : (s \o r)[k] = s[k]
      /\ \A k \in 1 .. n + 1 : (s \o r)[n + 1 + k] = r[k]
  <2>1. /\ s \o r \in Seq(AnyOp) /\ Len(s \o r) = Len(s) + Len(r)
        /\ \A k \in 1 .. Len(s) : (s \o r)[k] = s[k]
        /\ \A k \in 1 .. Len(r) : (s \o r)[Len(s) + k] = r[k]
    <3>1. s \in Seq(AnyOp) /\ r \in Seq(AnyOp)
      BY <1>5, <1>6
    <3>. QED  BY <3>1, Glue
  <2>. QED  BY <1>5, <1>6, <2>1
<1>8. UsualPart(n, wait) = s \o r
  BY DEF UsualPart, Starts, s, r, a, b, c, d
<1>. DEFINE u == s \o r
<1>. HIDE DEF u
<1>9. /\ u \in Seq(AnyOp) /\ Len(u) = (n + 1) + (n + 1)
      /\ \A k \in 1 .. n + 1 : u[k] = s[k]
      /\ \A k \in 1 .. n + 1 : u[n + 1 + k] = r[k]
  BY <1>7 DEF u
<1>10. \A k \in 1 .. n : u[k] = Op("create", k, "static")
  BY <1>1, <1>5, <1>9
<1>11. u[n + 1] = Op("check", 1, "static")
  BY <1>3, <1>5, <1>9
<1>12. \A k \in 1 .. n : u[n + 1 + k] = Op(wait, k, "static")
  BY <1>2, <1>6, <1>9
<1>13. u[2 * n + 2] = Op("check", 2, "static")
  <2>1. n + 1 + (n + 1) = 2 * n + 2 /\ n + 1 \in 1 .. n + 1
    OBVIOUS
  <2>. QED  BY <1>4, <1>6, <1>9, <2>1
<1>14. u \in Seq(AnyOp) /\ Len(u) = 2 * n + 2
  BY <1>9
<1>. QED  BY <1>8, <1>10, <1>11, <1>12, <1>13, <1>14 DEF u

\* A main() that has done p operations before it creates n threads.
Usually(m, p, n, wait) ==
  /\ m \in Seq(AnyOp) /\ Len(m) >= p + 2 * n + 2
  /\ \A k \in 1 .. n : m[p + k] = Op("create", k, "static")
  /\ m[p + n + 1] = Op("check", 1, "static")
  /\ \A k \in 1 .. n : m[p + n + 1 + k] = Op(wait, k, "static")
  /\ m[p + 2 * n + 2] = Op("check", 2, "static")

\* It is usual from its first operation on.
LEMMA UsuallyPart ==
  ASSUME NEW n \in Nat, NEW wait \in Names
  PROVE  /\ Usually(UsualPart(n, wait), 0, n, wait)
         /\ Len(UsualPart(n, wait)) = 2 * n + 2
<1>. DEFINE u == UsualPart(n, wait)
<1>1. /\ u \in Seq(AnyOp) /\ Len(u) = 2 * n + 2
      /\ \A k \in 1 .. n : u[k] = Op("create", k, "static")
      /\ u[n + 1] = Op("check", 1, "static")
      /\ \A k \in 1 .. n : u[n + 1 + k] = Op(wait, k, "static")
      /\ u[2 * n + 2] = Op("check", 2, "static")
  BY UsualPartTable
<1>. HIDE DEF u
<1>2. Usually(u, 0, n, wait) /\ Len(u) = 2 * n + 2
  <2>1. /\ 0 + 2 * n + 2 = 2 * n + 2 /\ 0 + n + 1 = n + 1
        /\ \A k \in 1 .. n : 0 + k = k /\ 0 + n + 1 + k = n + 1 + k
    OBVIOUS
  <2>. QED  BY <1>1, <2>1 DEF Usually
<1>. QED  BY <1>2 DEF u

\* An operation at the end leaves it usual.
LEMMA UsuallyMore ==
  ASSUME NEW p \in Nat, NEW n \in Nat, NEW wait, NEW m, Usually(m, p, n, wait),
         NEW name \in Names
  PROVE  /\ Usually(m \o Do(name), p, n, wait)
         /\ Len(m \o Do(name)) = Len(m) + 1
         /\ \A k \in 1 .. Len(m) : (m \o Do(name))[k] = m[k]
         /\ (m \o Do(name))[Len(m) + 1] = Op(name, 0, "static")
<1>. DEFINE e == Op(name, 0, "static")
            r == m \o Do(name)
            size == Len(m)
<1>1. e \in AnyOp /\ r = m \o <<e>>
  BY StaticOp DEF Do
<1>. HIDE DEF e
<1>2. m \in Seq(AnyOp)
  BY DEF Usually
<1>3. /\ r \in Seq(AnyOp) /\ Len(r) = size + 1
      /\ \A k \in 1 .. size : r[k] = m[k]
      /\ r[size + 1] = e
  BY <1>1, <1>2, OneMore
<1>. HIDE DEF r
<1>4. size \in Nat
  BY <1>2, LenProperties
<1>5. /\ size >= p + 2 * n + 2
      /\ \A k \in 1 .. n : m[p + k] = Op("create", k, "static")
      /\ m[p + n + 1] = Op("check", 1, "static")
      /\ \A k \in 1 .. n : m[p + n + 1 + k] = Op(wait, k, "static")
      /\ m[p + 2 * n + 2] = Op("check", 2, "static")
  BY DEF Usually
<1>. HIDE DEF size
<1>6. /\ \A k \in 1 .. n : p + k \in 1 .. size /\ p + n + 1 + k \in 1 .. size
      /\ p + n + 1 \in 1 .. size /\ p + 2 * n + 2 \in 1 .. size
  BY <1>4, <1>5
<1>7. Usually(r, p, n, wait)
  <2>1. \A k \in 1 .. n : r[p + k] = Op("create", k, "static")
    BY <1>3, <1>5, <1>6
  <2>2. \A k \in 1 .. n : r[p + n + 1 + k] = Op(wait, k, "static")
    BY <1>3, <1>5, <1>6
  <2>3. r[p + n + 1] = Op("check", 1, "static") /\ r[p + 2 * n + 2] = Op("check", 2, "static")
    BY <1>3, <1>5, <1>6
  <2>4. Len(r) >= p + 2 * n + 2
    BY <1>3, <1>4, <1>5
  <2>. QED  BY <1>3, <2>1, <2>2, <2>3, <2>4 DEF Usually
<1>. QED  BY <1>3, <1>7 DEF r, e, size

\* After an operation at the beginning it is usual one place later.
LEMMA UsuallyAfterDo ==
  ASSUME NEW n \in Nat, NEW wait \in Names, NEW name \in Names
  PROVE  LET m == Do(name) \o UsualPart(n, wait)
         IN  /\ Usually(m, 1, n, wait)
             /\ Len(m) = 2 * n + 3
             /\ m[1] = Op(name, 0, "static")
<1>. DEFINE u == UsualPart(n, wait)
            d == Do(name)
            m == d \o u
<1>1. /\ u \in Seq(AnyOp) /\ Len(u) = 2 * n + 2
      /\ \A k \in 1 .. n : u[k] = Op("create", k, "static")
      /\ u[n + 1] = Op("check", 1, "static")
      /\ \A k \in 1 .. n : u[n + 1 + k] = Op(wait, k, "static")
      /\ u[2 * n + 2] = Op("check", 2, "static")
  BY UsualPartTable
<1>2. d \in Seq(AnyOp) /\ Len(d) = 1 /\ d[1] = Op(name, 0, "static")
  BY DoTable
<1>. HIDE DEF u, d
<1>3. /\ m \in Seq(AnyOp) /\ Len(m) = Len(d) + Len(u)
      /\ \A k \in 1 .. Len(d) : m[k] = d[k]
      /\ \A k \in 1 .. Len(u) : m[Len(d) + k] = u[k]
  <2>1. d \in Seq(AnyOp) /\ u \in Seq(AnyOp)
    BY <1>1, <1>2
  <2>. QED  BY <2>1, Glue
<1>. HIDE DEF m
<1>4. /\ Len(m) = 2 * n + 3 /\ m[1] = Op(name, 0, "static")
      /\ \A k \in 1 .. 2 * n + 2 : m[1 + k] = u[k]
  BY <1>1, <1>2, <1>3
<1>5. \A k \in 1 .. n : m[1 + k] = Op("create", k, "static")
  BY <1>1, <1>4
<1>6. m[1 + n + 1] = Op("check", 1, "static")
  <2>1. 1 + n + 1 = 1 + (n + 1) /\ n + 1 \in 1 .. 2 * n + 2
    OBVIOUS
  <2>. QED  BY <1>1, <1>4, <2>1
<1>7. ASSUME NEW k \in 1 .. n
      PROVE  m[1 + n + 1 + k] = Op(wait, k, "static")
  <2>1. 1 + n + 1 + k = 1 + (n + 1 + k) /\ n + 1 + k \in 1 .. 2 * n + 2
    OBVIOUS
  <2>. QED  BY <1>1, <1>4, <2>1
<1>8. m[1 + 2 * n + 2] = Op("check", 2, "static")
  <2>1. 1 + 2 * n + 2 = 1 + (2 * n + 2) /\ 2 * n + 2 \in 1 .. 2 * n + 2
    OBVIOUS
  <2>. QED  BY <1>1, <1>4, <2>1
<1>9. Len(m) >= 1 + 2 * n + 2
  BY <1>4
<1>10. Usually(m, 1, n, wait)
  BY <1>3, <1>5, <1>6, <1>7, <1>8, <1>9 DEF Usually
<1>. QED  BY <1>4, <1>10 DEF m, u, d

\* The programs with the usual main(): what it does before it creates its
\* threads, how many it creates, and what it does with them.
Usual == Counting \cup {"join_thread", "detach_thread", "race", "race_corrupt_memory"}

Pre(name) == IF name \in Locked THEN 1 ELSE 0

Num(name) == CASE name \in {"join_thread", "detach_thread"}    -> 1
               [] name \in {"race_to_data", "race_to_data_s"} -> 2
               [] name \in Locked \cup {"race", "race_corrupt_memory"} -> 3

Way(name) == IF name \in {"detach_thread", "race_corrupt_memory"} THEN "detach" ELSE "join"

\* What it does after them.
Static(name) == Op(name, 0, "static")

Tails(m, name) ==
  /\ name = "join_thread" => Len(m) = 5 /\ m[5] = Static("return")
  /\ name = "detach_thread" => Len(m) = 5 /\ m[5] = Static("pthread_exit")
  /\ name \in {"race", "race_corrupt_memory"} => Len(m) = 9 /\ m[9] = Static("pthread_exit")
  /\ name = "race_to_data_s" =>
       Len(m) = 8 /\ m[7] = Static("report") /\ m[8] = Static("return")
  /\ name = "race_to_data" =>
       Len(m) = 8 /\ m[7] = Static("report") /\ m[8] = Static("pthread_exit")
  /\ name \in Locked =>
       Len(m) = 12 /\ m[10] = Static("close") /\ m[12] = Static("return")
  /\ name = "race_to_data_mutex" =>
       m[1] = Static("spin_init") /\ m[11] = Static("report_hidden")
  /\ name = "race_to_data_sem" => m[1] = Static("sem_open") /\ m[11] = Static("report")

\* The names that main() uses.
LEMMA Literals ==
  /\ {"create", "check", "join", "detach", "return", "pthread_exit", "spin_init",
      "sem_open", "close", "report", "report_hidden"} \subseteq Names
BY DEF Names

\* How the programs write that part.
LEMMA PartIs ==
  ASSUME NEW n \in Nat
  PROVE  /\ Starts(n) \o Waits(n) = UsualPart(n, "join")
         /\ (Starts(n) \o Each("detach", n)) \o exit_if_failed(2) = UsualPart(n, "detach")
         /\ \A name \in Names : (Do(name) \o Starts(n)) \o Waits(n)
                                  = Do(name) \o UsualPart(n, "join")
<1>1. ASSUME NEW name \in Names
      PROVE  Each(name, n) \in Seq(AnyOp) /\ Do(name) \in Seq(AnyOp)
  BY EachTable, DoTable
<1>2. "create" \in Names /\ "join" \in Names /\ "detach" \in Names
  BY Literals
<1>. DEFINE a == Each("create", n)  b == exit_if_failed(1)
            j == Each("join", n)  d == Each("detach", n)  c == exit_if_failed(2)
<1>3. /\ a \in Seq(AnyOp) /\ b \in Seq(AnyOp) /\ j \in Seq(AnyOp) /\ d \in Seq(AnyOp)
      /\ c \in Seq(AnyOp)
  <2>1. b \in Seq(AnyOp) /\ c \in Seq(AnyOp)
    BY CheckTable
  <2>. QED  BY <1>1, <1>2, <2>1
<1>4. Starts(n) = a \o b /\ Waits(n) = j \o c
  BY DEF Starts, Waits
<1>5. /\ UsualPart(n, "join") = Starts(n) \o (j \o c)
      /\ UsualPart(n, "detach") = Starts(n) \o (d \o c)
  BY DEF UsualPart
<1>. HIDE DEF a, b, j, d, c
<1>6. Starts(n) \in Seq(AnyOp) /\ Waits(n) \in Seq(AnyOp)
  BY <1>3, <1>4, ConcatProperties
<1>7. (Starts(n) \o d) \o c = Starts(n) \o (d \o c)
  <2>1. d \in Seq(AnyOp) /\ c \in Seq(AnyOp)
    BY <1>3
  <2>2. Starts(n) \in Seq(AnyOp)
    BY <1>6
  <2>. QED  BY <2>1, <2>2, ConcatAssociative
<1>8. ASSUME NEW name \in Names
      PROVE  (Do(name) \o Starts(n)) \o Waits(n) = Do(name) \o (Starts(n) \o Waits(n))
  <2>1. Do(name) \in Seq(AnyOp)
    BY <1>1
  <2>. QED  BY <1>6, <2>1, ConcatAssociative
<1>. QED  BY <1>4, <1>5, <1>7, <1>8 DEF d, c

\* A main() that does one operation more at its end.
MoreOp(m, p, n, wait, name) ==
  /\ Usually(m \o Do(name), p, n, wait)
  /\ Len(m \o Do(name)) = Len(m) + 1
  /\ \A k \in 1 .. Len(m) : (m \o Do(name))[k] = m[k]
  /\ (m \o Do(name))[Len(m) + 1] = Op(name, 0, "static")

\* UsuallyMore, in the form the mains use.
LEMMA MoreOpHolds ==
  ASSUME NEW p \in Nat, NEW n \in Nat, NEW wait, NEW m, Usually(m, p, n, wait),
         NEW name \in Names
  PROVE  MoreOp(m, p, n, wait, name)
BY UsuallyMore DEF MoreOp

\* main() of the programs that neither report nor lock.
LEMMA ShortMain ==
  ASSUME NEW n \in Nat, NEW wait \in Names, NEW end \in Names
  PROVE  LET m == UsualPart(n, wait) \o Do(end)
         IN  Usually(m, 0, n, wait) /\ Len(m) = 2 * n + 3 /\ m[2 * n + 3] = Static(end)
<1>. DEFINE u == UsualPart(n, wait)
            m == u \o Do(end)
            size == Len(u)
<1>1. Usually(u, 0, n, wait) /\ size = 2 * n + 2
  BY UsuallyPart
<1>. HIDE DEF u
<1>2. /\ Usually(m, 0, n, wait) /\ Len(m) = size + 1
      /\ m[size + 1] = Op(end, 0, "static")
  <2>1. MoreOp(u, 0, n, wait, end)
    BY <1>1, MoreOpHolds
  <2>. QED  BY <2>1 DEF MoreOp
<1>. HIDE DEF m, size
<1>3. Usually(m, 0, n, wait) /\ Len(m) = 2 * n + 3 /\ m[2 * n + 3] = Static(end)
  <2>1. size + 1 = 2 * n + 3
    BY <1>1
  <2>. QED  BY <1>2, <2>1 DEF Static
<1>. QED  BY <1>3 DEF m, u

\* main() of the programs that report.
LEMMA ReportMain ==
  ASSUME NEW n \in Nat, NEW end \in Names
  PROVE  LET m == (UsualPart(n, "join") \o Do("report")) \o Do(end)
         IN  /\ Usually(m, 0, n, "join") /\ Len(m) = 2 * n + 4
             /\ m[2 * n + 3] = Static("report") /\ m[2 * n + 4] = Static(end)
<1>. DEFINE u == UsualPart(n, "join") \o Do("report")
            m == u \o Do(end)
            size == Len(u)
<1>0. "report" \in Names /\ "join" \in Names
  BY Literals
<1>1. Usually(u, 0, n, "join") /\ size = 2 * n + 3 /\ u[2 * n + 3] = Static("report")
  BY <1>0, ShortMain
<1>. HIDE DEF u
<1>2. /\ Usually(m, 0, n, "join") /\ Len(m) = size + 1
      /\ \A k \in 1 .. size : m[k] = u[k]
      /\ m[size + 1] = Op(end, 0, "static")
  <2>1. MoreOp(u, 0, n, "join", end)
    BY <1>1, MoreOpHolds
  <2>. QED  BY <2>1 DEF MoreOp
<1>. HIDE DEF m, size
<1>3. /\ Usually(m, 0, n, "join") /\ Len(m) = 2 * n + 4
      /\ m[2 * n + 3] = Static("report") /\ m[2 * n + 4] = Static(end)
  <2>1. size + 1 = 2 * n + 4 /\ 2 * n + 3 \in 1 .. size
    BY <1>1
  <2>. QED  BY <1>1, <1>2, <2>1 DEF Static
<1>. QED  BY <1>3 DEF m, u

LockedIs(n, wait, make, next, tell, end) ==
  LET m == (((Do(make) \o UsualPart(n, wait)) \o Do(next)) \o Do(tell)) \o Do(end)
  IN  /\ Usually(m, 1, n, wait) /\ Len(m) = 2 * n + 6
      /\ m[1] = Static(make) /\ m[2 * n + 4] = Static(next)
      /\ m[2 * n + 5] = Static(tell) /\ m[2 * n + 6] = Static(end)

\* main() of the programs with a lock.
LEMMA LockedMain ==
  ASSUME NEW n \in Nat, NEW wait \in Names, NEW make \in Names, NEW next \in Names,
         NEW tell \in Names, NEW end \in Names
  PROVE  LockedIs(n, wait, make, next, tell, end)
<1>. DEFINE s == Do(make) \o UsualPart(n, wait)
            u == s \o Do(next)
            v == u \o Do(tell)
            m == v \o Do(end)
<1>1. Usually(s, 1, n, wait) /\ Len(s) = 2 * n + 3 /\ s[1] = Static(make)
  BY UsuallyAfterDo DEF Static
<1>. HIDE DEF s
<1>2. /\ Usually(u, 1, n, wait) /\ Len(u) = 2 * n + 4
      /\ u[1] = Static(make) /\ u[2 * n + 4] = Static(next)
  <2>1. MoreOp(s, 1, n, wait, next)
    BY <1>1, MoreOpHolds
  <2>2. /\ Usually(u, 1, n, wait) /\ Len(u) = Len(s) + 1 /\ u[Len(s) + 1] = Static(next)
        /\ \A k \in 1 .. Len(s) : u[k] = s[k]
    BY <2>1 DEF MoreOp, Static
  <2>. HIDE DEF u
  <2>3. Len(s) + 1 = 2 * n + 4 /\ 1 \in 1 .. Len(s)
    BY <1>1
  <2>. QED  BY <1>1, <2>2, <2>3
<1>. HIDE DEF u
<1>3. /\ Usually(v, 1, n, wait) /\ Len(v) = 2 * n + 5
      /\ v[1] = Static(make) /\ v[2 * n + 4] = Static(next) /\ v[2 * n + 5] = Static(tell)
  <2>1. MoreOp(u, 1, n, wait, tell)
    BY <1>2, MoreOpHolds
  <2>2. /\ Usually(v, 1, n, wait) /\ Len(v) = Len(u) + 1 /\ v[Len(u) + 1] = Static(tell)
        /\ \A k \in 1 .. Len(u) : v[k] = u[k]
    BY <2>1 DEF MoreOp, Static
  <2>. HIDE DEF v
  <2>3. Len(u) + 1 = 2 * n + 5 /\ 1 \in 1 .. Len(u) /\ 2 * n + 4 \in 1 .. Len(u)
    BY <1>2
  <2>. QED  BY <1>2, <2>2, <2>3
<1>. HIDE DEF v
<1>4. /\ Usually(m, 1, n, wait) /\ Len(m) = 2 * n + 6
      /\ m[1] = Static(make) /\ m[2 * n + 4] = Static(next)
      /\ m[2 * n + 5] = Static(tell) /\ m[2 * n + 6] = Static(end)
  <2>1. MoreOp(v, 1, n, wait, end)
    BY <1>3, MoreOpHolds
  <2>2. /\ Usually(m, 1, n, wait) /\ Len(m) = Len(v) + 1 /\ m[Len(v) + 1] = Static(end)
        /\ \A k \in 1 .. Len(v) : m[k] = v[k]
    BY <2>1 DEF MoreOp, Static
  <2>. HIDE DEF m
  <2>3. Len(v) + 1 = 2 * n + 6 /\ 1 \in 1 .. Len(v) /\ 2 * n + 4 \in 1 .. Len(v)
        /\ 2 * n + 5 \in 1 .. Len(v)
    BY <1>3
  <2>. QED  BY <1>3, <2>2, <2>3
<1>. QED  BY <1>4 DEF LockedIs, m, v, u, s

\* main() and the bodies of each of them.
LEMMA MainsAre ==
  /\ Program["join_thread"].main = UsualPart(1, "join") \o Do("return")
  /\ Program["detach_thread"].main = UsualPart(1, "detach") \o Do("pthread_exit")
  /\ Program["race"].main = UsualPart(3, "join") \o Do("pthread_exit")
  /\ Program["race_corrupt_memory"].main = UsualPart(3, "detach") \o Do("pthread_exit")
  /\ Program["race_to_data_s"].main = (UsualPart(2, "join") \o Do("report")) \o Do("return")
  /\ Program["race_to_data"].main
       = (UsualPart(2, "join") \o Do("report")) \o Do("pthread_exit")
  /\ Program["race_to_data_mutex"].main
       = (((Do("spin_init") \o UsualPart(3, "join")) \o Do("close")) \o Do("report_hidden"))
            \o Do("return")
  /\ Program["race_to_data_sem"].main
       = (((Do("sem_open") \o UsualPart(3, "join")) \o Do("close")) \o Do("report"))
            \o Do("return")
<1>1. /\ Program["join_thread"] = join_thread
      /\ Program["detach_thread"] = detach_thread
      /\ Program["race"] = race
      /\ Program["race_corrupt_memory"] = race_corrupt_memory
      /\ Program["race_to_data_s"] = race_to_data_s
      /\ Program["race_to_data"] = race_to_data
      /\ Program["race_to_data_mutex"] = race_to_data_mutex
      /\ Program["race_to_data_sem"] = race_to_data_sem
  BY DEF Program
<1>2. /\ join_thread.main = (Starts(1) \o Waits(1)) \o Do("return")
      /\ race.main = (Starts(3) \o Waits(3)) \o Do("pthread_exit")
      /\ race_to_data_s.main = ((Starts(2) \o Waits(2)) \o Do("report")) \o Do("return")
      /\ race_to_data.main = ((Starts(2) \o Waits(2)) \o Do("report")) \o Do("pthread_exit")
  BY DEF join_thread, race, race_to_data_s, race_to_data
<1>3. /\ detach_thread.main
           = ((Starts(1) \o Each("detach", 1)) \o exit_if_failed(2)) \o Do("pthread_exit")
      /\ race_corrupt_memory.main
           = ((Starts(3) \o Each("detach", 3)) \o exit_if_failed(2)) \o Do("pthread_exit")
  BY DEF detach_thread, race_corrupt_memory
<1>4. /\ race_to_data_mutex.main
           = ((((Do("spin_init") \o Starts(3)) \o Waits(3)) \o Do("close"))
                 \o Do("report_hidden")) \o Do("return")
      /\ race_to_data_sem.main
           = ((((Do("sem_open") \o Starts(3)) \o Waits(3)) \o Do("close"))
                 \o Do("report")) \o Do("return")
  BY DEF race_to_data_mutex, race_to_data_sem
<1>5. ASSUME NEW n \in Nat
      PROVE  /\ Starts(n) \o Waits(n) = UsualPart(n, "join")
             /\ (Starts(n) \o Each("detach", n)) \o exit_if_failed(2) = UsualPart(n, "detach")
             /\ (Do("spin_init") \o Starts(n)) \o Waits(n)
                  = Do("spin_init") \o UsualPart(n, "join")
             /\ (Do("sem_open") \o Starts(n)) \o Waits(n)
                  = Do("sem_open") \o UsualPart(n, "join")
  <2>1. "spin_init" \in Names /\ "sem_open" \in Names
    BY DEF Names
  <2>. QED  BY <2>1, PartIs
<1>6. 1 \in Nat /\ 2 \in Nat /\ 3 \in Nat
  OBVIOUS
<1>7. /\ Starts(1) \o Waits(1) = UsualPart(1, "join")
      /\ Starts(2) \o Waits(2) = UsualPart(2, "join")
      /\ Starts(3) \o Waits(3) = UsualPart(3, "join")
  BY <1>5, <1>6, Zenon
<1>8. /\ (Starts(1) \o Each("detach", 1)) \o exit_if_failed(2) = UsualPart(1, "detach")
      /\ (Starts(3) \o Each("detach", 3)) \o exit_if_failed(2) = UsualPart(3, "detach")
  BY <1>5, <1>6, Zenon
<1>9. /\ (Do("spin_init") \o Starts(3)) \o Waits(3) = Do("spin_init") \o UsualPart(3, "join")
      /\ (Do("sem_open") \o Starts(3)) \o Waits(3) = Do("sem_open") \o UsualPart(3, "join")
  BY <1>5, <1>6, Zenon
<1>10. /\ Program["join_thread"].main = UsualPart(1, "join") \o Do("return")
       /\ Program["race"].main = UsualPart(3, "join") \o Do("pthread_exit")
       /\ Program["race_to_data_s"].main
            = (UsualPart(2, "join") \o Do("report")) \o Do("return")
       /\ Program["race_to_data"].main
            = (UsualPart(2, "join") \o Do("report")) \o Do("pthread_exit")
  BY <1>1, <1>2, <1>7, Zenon
<1>11. /\ Program["detach_thread"].main = UsualPart(1, "detach") \o Do("pthread_exit")
       /\ Program["race_corrupt_memory"].main
            = UsualPart(3, "detach") \o Do("pthread_exit")
  BY <1>1, <1>3, <1>8, Zenon
<1>12. /\ Program["race_to_data_mutex"].main
            = (((Do("spin_init") \o UsualPart(3, "join")) \o Do("close"))
                  \o Do("report_hidden")) \o Do("return")
       /\ Program["race_to_data_sem"].main
            = (((Do("sem_open") \o UsualPart(3, "join")) \o Do("close")) \o Do("report"))
                 \o Do("return")
  BY <1>1, <1>4, <1>9, Zenon
<1>. QED  BY <1>10, <1>11, <1>12

MainIs(m, name) == Usually(m, Pre(name), Num(name), Way(name)) /\ Tails(m, name)

\* What the proofs use of main().
LEMMA MainTables ==
  ASSUME NEW name \in Usual
  PROVE  MainIs(Program[name].main, name)
<1>0. /\ "join" \in Names /\ "detach" \in Names /\ "return" \in Names
      /\ "pthread_exit" \in Names /\ "close" \in Names /\ "report" \in Names
      /\ "report_hidden" \in Names /\ "spin_init" \in Names /\ "sem_open" \in Names
  BY DEF Names
<1>1. ASSUME name = "join_thread"
      PROVE  MainIs(Program[name].main, name)
  <2>. DEFINE m == UsualPart(1, "join") \o Do("return")
  <2>1. Program[name].main = m
    BY <1>1, MainsAre
  <2>2. Usually(m, 0, 1, "join") /\ Len(m) = 2 * 1 + 3 /\ m[2 * 1 + 3] = Static("return")
    BY <1>0, ShortMain
  <2>. HIDE DEF m
  <2>3. Len(m) = 5 /\ m[5] = Static("return")
    <3>1. 2 * 1 + 3 = 5
      OBVIOUS
    <3>. QED  BY <2>2, <3>1
  <2>4. Pre(name) = 0 /\ Num(name) = 1 /\ Way(name) = "join"
    BY <1>1 DEF Pre, Num, Way, Locked
  <2>5. Tails(m, name)
    BY <1>1, <2>3 DEF Tails, Locked
  <2>6. MainIs(m, name)
    BY <2>2, <2>4, <2>5 DEF MainIs
  <2>. QED  BY <2>1, <2>6
<1>2. ASSUME name = "detach_thread"
      PROVE  MainIs(Program[name].main, name)
  <2>. DEFINE m == UsualPart(1, "detach") \o Do("pthread_exit")
  <2>1. Program[name].main = m
    BY <1>2, MainsAre
  <2>2. /\ Usually(m, 0, 1, "detach") /\ Len(m) = 2 * 1 + 3
        /\ m[2 * 1 + 3] = Static("pthread_exit")
    BY <1>0, ShortMain
  <2>. HIDE DEF m
  <2>3. Len(m) = 5 /\ m[5] = Static("pthread_exit")
    <3>1. 2 * 1 + 3 = 5
      OBVIOUS
    <3>. QED  BY <2>2, <3>1
  <2>4. Pre(name) = 0 /\ Num(name) = 1 /\ Way(name) = "detach"
    BY <1>2 DEF Pre, Num, Way, Locked
  <2>5. Tails(m, name)
    BY <1>2, <2>3 DEF Tails, Locked
  <2>6. MainIs(m, name)
    BY <2>2, <2>4, <2>5 DEF MainIs
  <2>. QED  BY <2>1, <2>6
<1>3. ASSUME name = "race"
      PROVE  MainIs(Program[name].main, name)
  <2>. DEFINE m == UsualPart(3, "join") \o Do("pthread_exit")
  <2>1. Program[name].main = m
    BY <1>3, MainsAre
  <2>2. Usually(m, 0, 3, "join") /\ Len(m) = 2 * 3 + 3 /\ m[2 * 3 + 3] = Static("pthread_exit")
    BY <1>0, ShortMain
  <2>. HIDE DEF m
  <2>3. Len(m) = 9 /\ m[9] = Static("pthread_exit")
    <3>1. 2 * 3 + 3 = 9
      OBVIOUS
    <3>. QED  BY <2>2, <3>1
  <2>4. Pre(name) = 0 /\ Num(name) = 3 /\ Way(name) = "join"
    BY <1>3 DEF Pre, Num, Way, Locked
  <2>5. Tails(m, name)
    BY <1>3, <2>3 DEF Tails, Locked
  <2>6. MainIs(m, name)
    BY <2>2, <2>4, <2>5 DEF MainIs
  <2>. QED  BY <2>1, <2>6
<1>4. ASSUME name = "race_corrupt_memory"
      PROVE  MainIs(Program[name].main, name)
  <2>. DEFINE m == UsualPart(3, "detach") \o Do("pthread_exit")
  <2>1. Program[name].main = m
    BY <1>4, MainsAre
  <2>2. /\ Usually(m, 0, 3, "detach") /\ Len(m) = 2 * 3 + 3
        /\ m[2 * 3 + 3] = Static("pthread_exit")
    BY <1>0, ShortMain
  <2>. HIDE DEF m
  <2>3. Len(m) = 9 /\ m[9] = Static("pthread_exit")
    <3>1. 2 * 3 + 3 = 9
      OBVIOUS
    <3>. QED  BY <2>2, <3>1
  <2>4. Pre(name) = 0 /\ Num(name) = 3 /\ Way(name) = "detach"
    BY <1>4 DEF Pre, Num, Way, Locked
  <2>5. Tails(m, name)
    BY <1>4, <2>3 DEF Tails, Locked
  <2>6. MainIs(m, name)
    BY <2>2, <2>4, <2>5 DEF MainIs
  <2>. QED  BY <2>1, <2>6
<1>5. ASSUME name = "race_to_data_s"
      PROVE  MainIs(Program[name].main, name)
  <2>. DEFINE m == (UsualPart(2, "join") \o Do("report")) \o Do("return")
  <2>1. Program[name].main = m
    BY <1>5, MainsAre
  <2>2. /\ Usually(m, 0, 2, "join") /\ Len(m) = 2 * 2 + 4
        /\ m[2 * 2 + 3] = Static("report") /\ m[2 * 2 + 4] = Static("return")
    BY <1>0, ReportMain
  <2>. HIDE DEF m
  <2>3. Len(m) = 8 /\ m[7] = Static("report") /\ m[8] = Static("return")
    <3>1. 2 * 2 + 4 = 8 /\ 2 * 2 + 3 = 7
      OBVIOUS
    <3>. QED  BY <2>2, <3>1
  <2>4. Pre(name) = 0 /\ Num(name) = 2 /\ Way(name) = "join"
    BY <1>5 DEF Pre, Num, Way, Locked
  <2>5. Tails(m, name)
    BY <1>5, <2>3 DEF Tails, Locked
  <2>6. MainIs(m, name)
    BY <2>2, <2>4, <2>5 DEF MainIs
  <2>. QED  BY <2>1, <2>6
<1>6. ASSUME name = "race_to_data"
      PROVE  MainIs(Program[name].main, name)
  <2>. DEFINE m == (UsualPart(2, "join") \o Do("report")) \o Do("pthread_exit")
  <2>1. Program[name].main = m
    BY <1>6, MainsAre
  <2>2. /\ Usually(m, 0, 2, "join") /\ Len(m) = 2 * 2 + 4
        /\ m[2 * 2 + 3] = Static("report") /\ m[2 * 2 + 4] = Static("pthread_exit")
    BY <1>0, ReportMain
  <2>. HIDE DEF m
  <2>3. Len(m) = 8 /\ m[7] = Static("report") /\ m[8] = Static("pthread_exit")
    <3>1. 2 * 2 + 4 = 8 /\ 2 * 2 + 3 = 7
      OBVIOUS
    <3>. QED  BY <2>2, <3>1
  <2>4. Pre(name) = 0 /\ Num(name) = 2 /\ Way(name) = "join"
    BY <1>6 DEF Pre, Num, Way, Locked
  <2>5. Tails(m, name)
    BY <1>6, <2>3 DEF Tails, Locked
  <2>6. MainIs(m, name)
    BY <2>2, <2>4, <2>5 DEF MainIs
  <2>. QED  BY <2>1, <2>6
<1>7. ASSUME name = "race_to_data_mutex"
      PROVE  MainIs(Program[name].main, name)
  <2>. DEFINE m == (((Do("spin_init") \o UsualPart(3, "join")) \o Do("close"))
                      \o Do("report_hidden")) \o Do("return")
  <2>1. Program[name].main = m
    BY <1>7, MainsAre
  <2>2. /\ Usually(m, 1, 3, "join") /\ Len(m) = 2 * 3 + 6
        /\ m[1] = Static("spin_init") /\ m[2 * 3 + 4] = Static("close")
        /\ m[2 * 3 + 5] = Static("report_hidden") /\ m[2 * 3 + 6] = Static("return")
    <3>1. LockedIs(3, "join", "spin_init", "close", "report_hidden", "return")
      BY <1>0, LockedMain
    <3>. QED  BY <3>1 DEF LockedIs
  <2>. HIDE DEF m
  <2>3. /\ Len(m) = 12 /\ m[1] = Static("spin_init") /\ m[10] = Static("close")
        /\ m[11] = Static("report_hidden") /\ m[12] = Static("return")
    <3>1. 2 * 3 + 4 = 10 /\ 2 * 3 + 5 = 11 /\ 2 * 3 + 6 = 12
      OBVIOUS
    <3>. QED  BY <2>2, <3>1
  <2>4. Pre(name) = 1 /\ Num(name) = 3 /\ Way(name) = "join"
    BY <1>7 DEF Pre, Num, Way, Locked
  <2>5. Tails(m, name)
    BY <1>7, <2>3 DEF Tails, Locked
  <2>6. MainIs(m, name)
    BY <2>2, <2>4, <2>5 DEF MainIs
  <2>. QED  BY <2>1, <2>6
<1>8. ASSUME name = "race_to_data_sem"
      PROVE  MainIs(Program[name].main, name)
  <2>. DEFINE m == (((Do("sem_open") \o UsualPart(3, "join")) \o Do("close"))
                      \o Do("report")) \o Do("return")
  <2>1. Program[name].main = m
    BY <1>8, MainsAre
  <2>2. /\ Usually(m, 1, 3, "join") /\ Len(m) = 2 * 3 + 6
        /\ m[1] = Static("sem_open") /\ m[2 * 3 + 4] = Static("close")
        /\ m[2 * 3 + 5] = Static("report") /\ m[2 * 3 + 6] = Static("return")
    <3>1. LockedIs(3, "join", "sem_open", "close", "report", "return")
      BY <1>0, LockedMain
    <3>. QED  BY <3>1 DEF LockedIs
  <2>. HIDE DEF m
  <2>3. /\ Len(m) = 12 /\ m[1] = Static("sem_open") /\ m[10] = Static("close")
        /\ m[11] = Static("report") /\ m[12] = Static("return")
    <3>1. 2 * 3 + 4 = 10 /\ 2 * 3 + 5 = 11 /\ 2 * 3 + 6 = 12
      OBVIOUS
    <3>. QED  BY <2>2, <3>1
  <2>4. Pre(name) = 1 /\ Num(name) = 3 /\ Way(name) = "join"
    BY <1>8 DEF Pre, Num, Way, Locked
  <2>5. Tails(m, name)
    BY <1>8, <2>3 DEF Tails, Locked
  <2>6. MainIs(m, name)
    BY <2>2, <2>4, <2>5 DEF MainIs
  <2>. QED  BY <2>1, <2>6
<1>. QED
  BY <1>1, <1>2, <1>3, <1>4, <1>5, <1>6, <1>7, <1>8 DEF Usual, Counting, Locked

\* The two operations that print a sum.
LEMMA ShowsTable ==
  ASSUME NEW object \in Objects
  PROVE  /\ Shows(object) \in Seq(AnyOp) /\ Len(Shows(object)) = 2
         /\ Shows(object)[1] = Op("load", 0, object)
         /\ Shows(object)[2] = Static("show")
<1>. DEFINE a == <<Op("load", 0, object)>>  b == Do("show")  s == a \o b
<1>1. "load" \in Names /\ "show" \in Names
  BY DEF Names
<1>2. Op("load", 0, object) \in AnyOp
  BY <1>1, OpIs
<1>3. a \in Seq(AnyOp) /\ Len(a) = 1 /\ a[1] = Op("load", 0, object)
  BY <1>2, OneOp
<1>4. b \in Seq(AnyOp) /\ Len(b) = 1 /\ b[1] = Static("show")
  BY <1>1, DoTable DEF Static
<1>5. Shows(object) = s
  BY DEF Shows
<1>. HIDE DEF a, b
<1>6. /\ s \in Seq(AnyOp) /\ Len(s) = Len(a) + Len(b)
      /\ \A k \in 1 .. Len(a) : s[k] = a[k]
      /\ \A k \in 1 .. Len(b) : s[Len(a) + k] = b[k]
  <2>1. a \in Seq(AnyOp) /\ b \in Seq(AnyOp)
    BY <1>3, <1>4
  <2>. QED  BY <2>1, Glue
<1>. HIDE DEF s
<1>7. Len(s) = 2 /\ s[1] = a[1] /\ s[1 + 1] = b[1]
  BY <1>3, <1>4, <1>6
<1>. QED  BY <1>3, <1>4, <1>5, <1>6, <1>7

\* The bodies that add without a lock.
LEMMA AddsTables ==
  ASSUME NEW n \in Nat
  PROVE  /\ LET s == <<Op("add", n, "main")>> \o Shows("main")
            IN  /\ Len(s) = 3 /\ s[1] = Op("add", n, "main")
                /\ s[2] = Op("load", 0, "main") /\ s[3] = Static("show")
         /\ LET s == <<Op("load", n, "main"), Op("store", n, "main")>> \o Shows("main")
            IN  /\ Len(s) = 4 /\ s[1] = Op("load", n, "main") /\ s[2] = Op("store", n, "main")
                /\ s[3] = Op("load", 0, "main") /\ s[4] = Static("show")
<1>0. /\ "add" \in Names /\ "load" \in Names /\ "store" \in Names
      /\ "main" \in Objects /\ n \in Int
  BY DEF Names, Objects
<1>. DEFINE e == Op("add", n, "main")  f == Op("load", n, "main")  g == Op("store", n, "main")
            a == <<e>>  b == <<f, g>>  c == Shows("main")  s == a \o c  r == b \o c
<1>1. e \in AnyOp /\ f \in AnyOp /\ g \in AnyOp
  BY <1>0, OpIs
<1>2. /\ c \in Seq(AnyOp) /\ Len(c) = 2
      /\ c[1] = Op("load", 0, "main") /\ c[2] = Static("show")
  BY <1>0, ShowsTable
<1>. HIDE DEF e, f, g, c
<1>3. a \in Seq(AnyOp) /\ Len(a) = 1 /\ a[1] = e
  BY <1>1
<1>4. b \in Seq(AnyOp) /\ Len(b) = 2 /\ b[1] = f /\ b[2] = g
  BY <1>1
<1>. HIDE DEF a, b
<1>5. /\ Len(s) = Len(a) + Len(c)
      /\ \A k \in 1 .. Len(a) : s[k] = a[k]
      /\ \A k \in 1 .. Len(c) : s[Len(a) + k] = c[k]
  <2>1. a \in Seq(AnyOp) /\ c \in Seq(AnyOp)
    BY <1>2, <1>3
  <2>. QED  BY <2>1, Glue
<1>6. /\ Len(r) = Len(b) + Len(c)
      /\ \A k \in 1 .. Len(b) : r[k] = b[k]
      /\ \A k \in 1 .. Len(c) : r[Len(b) + k] = c[k]
  <2>1. b \in Seq(AnyOp) /\ c \in Seq(AnyOp)
    BY <1>2, <1>4
  <2>. QED  BY <2>1, Glue
<1>. HIDE DEF s, r
<1>7. Len(s) = 3 /\ s[1] = a[1] /\ s[1 + 1] = c[1] /\ s[1 + 2] = c[2]
  BY <1>2, <1>3, <1>5
<1>8. Len(r) = 4 /\ r[1] = b[1] /\ r[2] = b[2] /\ r[2 + 1] = c[1] /\ r[2 + 2] = c[2]
  BY <1>2, <1>4, <1>6
<1>9. Len(s) = 3 /\ s[1] = e /\ s[2] = Op("load", 0, "main") /\ s[3] = Static("show")
  BY <1>2, <1>3, <1>7
<1>10. /\ Len(r) = 4 /\ r[1] = f /\ r[2] = g
       /\ r[3] = Op("load", 0, "main") /\ r[4] = Static("show")
  BY <1>2, <1>4, <1>8
<1>. QED  BY <1>9, <1>10 DEF s, r, a, b, c, e, f, g

\* The body that adds under a lock.
LEMMA AddsLockedTable ==
  ASSUME NEW n \in Nat
  PROVE  LET s == AddsLocked(n)
         IN  /\ Len(s) = 6
             /\ s[1] = Op("lock", 0, "lock")
             /\ s[2] = Op("load", n, "main") /\ s[3] = Op("store", n, "static")
             /\ s[4] = Op("load", 0, "static") /\ s[5] = Static("show")
             /\ s[6] = Op("unlock", 0, "lock")
<1>0. /\ "lock" \in Names /\ "load" \in Names /\ "store" \in Names /\ "unlock" \in Names
      /\ "main" \in Objects /\ "static" \in Objects /\ "lock" \in Objects /\ n \in Int
  BY DEF Names, Objects
<1>. DEFINE e == Op("lock", 0, "lock")  f == Op("load", n, "main")
            g == Op("store", n, "static")  h == Op("unlock", 0, "lock")
            a == <<e, f, g>>  c == Shows("static")  d == <<h>>  s == a \o c  r == s \o d
<1>1. e \in AnyOp /\ f \in AnyOp /\ g \in AnyOp /\ h \in AnyOp
  BY <1>0, OpIs
<1>2. /\ c \in Seq(AnyOp) /\ Len(c) = 2
      /\ c[1] = Op("load", 0, "static") /\ c[2] = Static("show")
  BY <1>0, ShowsTable
<1>3. AddsLocked(n) = r
  BY DEF AddsLocked
<1>. HIDE DEF e, f, g, h, c
<1>4. a \in Seq(AnyOp) /\ Len(a) = 3 /\ a[1] = e /\ a[2] = f /\ a[3] = g
  BY <1>1
<1>5. d \in Seq(AnyOp) /\ Len(d) = 1 /\ d[1] = h
  BY <1>1
<1>. HIDE DEF a, d
<1>6. /\ s \in Seq(AnyOp) /\ Len(s) = Len(a) + Len(c)
      /\ \A k \in 1 .. Len(a) : s[k] = a[k]
      /\ \A k \in 1 .. Len(c) : s[Len(a) + k] = c[k]
  <2>1. a \in Seq(AnyOp) /\ c \in Seq(AnyOp)
    BY <1>2, <1>4
  <2>. QED  BY <2>1, Glue
<1>. HIDE DEF s
<1>7. /\ Len(s) = 5 /\ s[1] = a[1] /\ s[2] = a[2] /\ s[3] = a[3]
      /\ s[3 + 1] = c[1] /\ s[3 + 2] = c[2]
  BY <1>2, <1>4, <1>6
<1>8. /\ Len(r) = Len(s) + Len(d)
      /\ \A k \in 1 .. Len(s) : r[k] = s[k]
      /\ \A k \in 1 .. Len(d) : r[Len(s) + k] = d[k]
  <2>1. s \in Seq(AnyOp) /\ d \in Seq(AnyOp)
    BY <1>5, <1>6
  <2>. QED  BY <2>1, Glue
<1>. HIDE DEF r
<1>9. /\ Len(r) = 6 /\ r[1] = s[1] /\ r[2] = s[2] /\ r[3] = s[3] /\ r[4] = s[4]
      /\ r[5] = s[5] /\ r[5 + 1] = d[1]
  BY <1>5, <1>7, <1>8
<1>10. /\ Len(r) = 6 /\ r[1] = e /\ r[2] = f /\ r[3] = g
       /\ r[4] = Op("load", 0, "static") /\ r[5] = Static("show") /\ r[6] = h
  BY <1>2, <1>4, <1>5, <1>7, <1>9
<1>. QED  BY <1>3, <1>10 DEF e, f, g, h

\* The body of a thread.
BodyIs(s, t, name) ==
  /\ name \in {"join_thread", "detach_thread", "race"} =>
       Len(s) = 1 /\ s[1] = Op("say", 0, "static")
  /\ name = "race_corrupt_memory" => Len(s) = 1 /\ s[1] = Op("say", 0, "main")
  /\ name = "race_to_data" =>
       /\ Len(s) = 3 /\ s[1] = Op("add", t, "main")
       /\ s[2] = Op("load", 0, "main") /\ s[3] = Static("show")
  /\ name = "race_to_data_s" =>
       /\ Len(s) = 4 /\ s[1] = Op("load", t, "main") /\ s[2] = Op("store", t, "main")
       /\ s[3] = Op("load", 0, "main") /\ s[4] = Static("show")
  /\ name \in Locked =>
       /\ Len(s) = 6
       /\ s[1] = Op("lock", 0, "lock")
       /\ s[2] = Op("load", t, "main") /\ s[3] = Op("store", t, "static")
       /\ s[4] = Op("load", 0, "static") /\ s[5] = Static("show")
       /\ s[6] = Op("unlock", 0, "lock")

BodiesAre(b, name) ==
  DOMAIN b = 1 .. Num(name) /\ \A t \in 1 .. Num(name) : BodyIs(b[t], t, name)

\* What the proofs use of the bodies.
LEMMA BodyTables ==
  ASSUME NEW name \in Usual
  PROVE  BodiesAre(Program[name].body, name)
<1>1. /\ Program["join_thread"].body = <<Says("static")>>
      /\ Program["detach_thread"].body = <<Says("static")>>
      /\ Program["race"].body = [t \in 1 .. 3 |-> Says("static")]
      /\ Program["race_corrupt_memory"].body = [t \in 1 .. 3 |-> Says("main")]
  BY DEF Program, join_thread, detach_thread, race, race_corrupt_memory
<1>2. /\ Program["race_to_data_s"].body
           = [n \in 1 .. 2 |-> <<Op("load", n, "main"), Op("store", n, "main")>>
                                \o Shows("main")]
      /\ Program["race_to_data"].body
           = [n \in 1 .. 2 |-> <<Op("add", n, "main")>> \o Shows("main")]
  BY DEF Program, race_to_data_s, race_to_data
<1>3. /\ Program["race_to_data_mutex"].body = [n \in 1 .. 3 |-> AddsLocked(n)]
      /\ Program["race_to_data_sem"].body = [n \in 1 .. 3 |-> AddsLocked(n)]
  BY DEF Program, race_to_data_mutex, race_to_data_sem
<1>4. \A object : Len(Says(object)) = 1 /\ Says(object)[1] = Op("say", 0, object)
  BY DEF Says
<1>5. ASSUME name \in {"join_thread", "detach_thread"}
      PROVE  BodiesAre(Program[name].body, name)
  <2>1. Num(name) = 1
    BY <1>5 DEF Num, Locked
  <2>. DEFINE s == Says("static")
  <2>2. Program[name].body = <<s>>
    BY <1>1, <1>5
  <2>. HIDE DEF s
  <2>3. DOMAIN <<s>> = 1 .. 1 /\ <<s>>[1] = s
    OBVIOUS
  <2>4. BodyIs(s, 1, name)
    BY <1>4, <1>5 DEF BodyIs, Locked, s
  <2>. QED  BY <2>1, <2>2, <2>3, <2>4 DEF BodiesAre
<1>6. ASSUME name \in {"race", "race_corrupt_memory"}
      PROVE  BodiesAre(Program[name].body, name)
  <2>1. Num(name) = 3
    BY <1>6 DEF Num
  <2>. DEFINE s == Says(IF name = "race" THEN "static" ELSE "main")
  <2>2. Program[name].body = [t \in 1 .. 3 |-> s]
    BY <1>1, <1>6
  <2>3. \A t \in 1 .. 3 : BodyIs(s, t, name)
    BY <1>4, <1>6 DEF BodyIs, Locked
  <2>. HIDE DEF s
  <2>. QED  BY <2>1, <2>2, <2>3 DEF BodiesAre
<1>7. ASSUME name = "race_to_data_s"
      PROVE  BodiesAre(Program[name].body, name)
  <2>1. Num(name) = 2
    BY <1>7 DEF Num, Locked
  <2>. DEFINE s(n) == <<Op("load", n, "main"), Op("store", n, "main")>> \o Shows("main")
  <2>2. Program[name].body = [n \in 1 .. 2 |-> s(n)]
    BY <1>2, <1>7
  <2>3. ASSUME NEW t \in 1 .. 2
        PROVE  BodyIs(s(t), t, name)
    <3>1. /\ Len(s(t)) = 4 /\ s(t)[1] = Op("load", t, "main")
          /\ s(t)[2] = Op("store", t, "main")
          /\ s(t)[3] = Op("load", 0, "main") /\ s(t)[4] = Static("show")
      BY AddsTables
    <3>. HIDE DEF s
    <3>. QED  BY <1>7, <3>1 DEF BodyIs, Locked
  <2>. HIDE DEF s
  <2>. QED  BY <2>1, <2>2, <2>3 DEF BodiesAre
<1>8. ASSUME name = "race_to_data"
      PROVE  BodiesAre(Program[name].body, name)
  <2>1. Num(name) = 2
    BY <1>8 DEF Num, Locked
  <2>. DEFINE s(n) == <<Op("add", n, "main")>> \o Shows("main")
  <2>2. Program[name].body = [n \in 1 .. 2 |-> s(n)]
    BY <1>2, <1>8
  <2>3. ASSUME NEW t \in 1 .. 2
        PROVE  BodyIs(s(t), t, name)
    <3>1. /\ Len(s(t)) = 3 /\ s(t)[1] = Op("add", t, "main")
          /\ s(t)[2] = Op("load", 0, "main") /\ s(t)[3] = Static("show")
      BY AddsTables
    <3>. HIDE DEF s
    <3>. QED  BY <1>8, <3>1 DEF BodyIs, Locked
  <2>. HIDE DEF s
  <2>. QED  BY <2>1, <2>2, <2>3 DEF BodiesAre
<1>9. ASSUME name \in Locked
      PROVE  BodiesAre(Program[name].body, name)
  <2>1. Num(name) = 3
    BY <1>9 DEF Num, Locked
  <2>2. Program[name].body = [n \in 1 .. 3 |-> AddsLocked(n)]
    BY <1>3, <1>9 DEF Locked
  <2>3. ASSUME NEW t \in 1 .. 3
        PROVE  BodyIs(AddsLocked(t), t, name)
    <3>. DEFINE s == AddsLocked(t)
    <3>1. /\ Len(s) = 6
          /\ s[1] = Op("lock", 0, "lock")
          /\ s[2] = Op("load", t, "main") /\ s[3] = Op("store", t, "static")
          /\ s[4] = Op("load", 0, "static") /\ s[5] = Static("show")
          /\ s[6] = Op("unlock", 0, "lock")
      BY AddsLockedTable
    <3>. HIDE DEF s
    <3>2. name \notin {"join_thread", "detach_thread", "race", "race_corrupt_memory",
                       "race_to_data", "race_to_data_s"}
      BY <1>9 DEF Locked
    <3>3. BodyIs(s, t, name)
      BY <3>1, <3>2 DEF BodyIs
    <3>. QED  BY <3>3 DEF s
  <2>. QED  BY <2>1, <2>2, <2>3 DEF BodiesAre
<1>. QED  BY <1>5, <1>6, <1>7, <1>8, <1>9 DEF Usual, Counting

-----------------------------------------------------------------------------
(***************************************************************************)
(* The usual main(): where it is, and what its steps do.                   *)
(***************************************************************************)
\* The program that runs is one of the table.
ProgramIs ==
  /\ program.name \in DOMAIN Program
  /\ program.main = Program[program.name].main
  /\ program.body = Program[program.name].body

Lead == Pre(program.name)
Team == Num(program.name)
Usually0 == ProgramIs /\ program.name \in Usual

\* The sizes of the program that runs.
LEMMA Sizes0 ==
  ASSUME Usually0
  PROVE  /\ Lead \in {0, 1} /\ Team \in 1 .. 3
         /\ Workers = 1 .. Team
         /\ MainIs(program.main, program.name) /\ BodiesAre(program.body, program.name)
         /\ Len(program.main) \in Nat /\ Len(program.main) > Lead + 2 * Team + 2
         /\ \A t \in 1 .. Team : Code(t) = program.body[t] /\ Len(program.body[t]) \in 1 .. 6
<1>. DEFINE name == program.name  m == program.main  b == program.body
<1>1. name \in Usual /\ m = Program[name].main /\ b = Program[name].body
  BY DEF Usually0, ProgramIs
<1>2. MainIs(m, name) /\ BodiesAre(b, name)
  BY <1>1, MainTables, BodyTables
<1>. HIDE DEF name, m, b
<1>3. \/ name = "join_thread" \/ name = "detach_thread" \/ name = "race"
      \/ name = "race_corrupt_memory" \/ name = "race_to_data" \/ name = "race_to_data_s"
      \/ name \in Locked
  BY <1>1 DEF Usual, Counting
<1>4. /\ name \in {"join_thread", "detach_thread"} => Pre(name) = 0 /\ Num(name) = 1
      /\ name \in {"race_to_data", "race_to_data_s"} => Pre(name) = 0 /\ Num(name) = 2
      /\ name \in {"race", "race_corrupt_memory"} => Pre(name) = 0 /\ Num(name) = 3
      /\ name \in Locked => Pre(name) = 1 /\ Num(name) = 3
  BY DEF Pre, Num, Locked
<1>5. Pre(name) \in {0, 1} /\ Num(name) \in 1 .. 3
  BY <1>3, <1>4
<1>6. DOMAIN b = 1 .. Num(name) /\ \A t \in 1 .. Num(name) : BodyIs(b[t], t, name)
  BY <1>2 DEF BodiesAre
<1>7. ASSUME NEW t \in 1 .. Num(name)
      PROVE  Len(b[t]) \in 1 .. 6
  <2>1. BodyIs(b[t], t, name)
    BY <1>6
  <2>2. Len(b[t]) = 1 \/ Len(b[t]) = 3 \/ Len(b[t]) = 4 \/ Len(b[t]) = 6
    BY <1>3, <2>1 DEF BodyIs
  <2>. QED  BY <2>2
<1>8. Len(m) \in Nat /\ Len(m) > Pre(name) + 2 * Num(name) + 2
  <2>1. Tails(m, name)
    BY <1>2 DEF MainIs
  <2>. DEFINE size == Len(m)
  <2>2. /\ name \in {"join_thread", "detach_thread"} => size = 5
        /\ name \in {"race_to_data", "race_to_data_s"} => size = 8
        /\ name \in {"race", "race_corrupt_memory"} => size = 9
        /\ name \in Locked => size = 12
    BY <2>1 DEF Tails
  <2>. HIDE DEF size
  <2>3. size \in Nat /\ size > Pre(name) + 2 * Num(name) + 2
    <3>1. CASE name \in {"join_thread", "detach_thread"}
      BY <1>4, <2>2, <3>1
    <3>2. CASE name \in {"race_to_data", "race_to_data_s"}
      BY <1>4, <2>2, <3>2
    <3>3. CASE name \in {"race", "race_corrupt_memory"}
      BY <1>4, <2>2, <3>3
    <3>4. CASE name \in Locked
      BY <1>4, <2>2, <3>4
    <3>. QED  BY <1>3, <3>1, <3>2, <3>3, <3>4
  <2>. QED  BY <2>3 DEF size
<1>9. /\ Pre(name) \in {0, 1} /\ Num(name) \in 1 .. 3
      /\ Len(m) \in Nat /\ Len(m) > Pre(name) + 2 * Num(name) + 2
      /\ \A t \in 1 .. Num(name) : Len(b[t]) \in 1 .. 6
  BY <1>5, <1>7, <1>8
<1>10. Lead = Pre(name) /\ Team = Num(name) /\ Workers = DOMAIN b
  BY DEF Lead, Team, Workers, name, b
<1>11. \A t \in 1 .. Team : Code(t) = b[t]
  BY <1>5, <1>10 DEF Code, b
<1>. QED  BY <1>2, <1>6, <1>9, <1>10, <1>11 DEF name, m, b

\* The operation of main().
LEMMA MainNow0 ==
  ASSUME Usually0, at[0] \in Nat, Ready(0)
  PROVE  \/ /\ at[0] = 1 /\ program.name = "race_to_data_mutex"
            /\ Now(0) = Static("spin_init")
         \/ /\ at[0] = 1 /\ program.name = "race_to_data_sem"
            /\ Now(0) = Static("sem_open")
         \/ \E k \in 1 .. Team : at[0] = Lead + k /\ Now(0) = Op("create", k, "static")
         \/ at[0] = Lead + Team + 1 /\ Now(0) = Op("check", 1, "static")
         \/ \E k \in 1 .. Team :
              at[0] = Lead + Team + 1 + k /\ Now(0) = Op(Way(program.name), k, "static")
         \/ at[0] = Lead + 2 * Team + 2 /\ Now(0) = Op("check", 2, "static")
         \/ at[0] = 10 /\ program.name \in Locked /\ Now(0) = Static("close")
         \/ at[0] = 11 /\ program.name = "race_to_data_mutex" /\ Now(0) = Static("report_hidden")
         \/ at[0] = 11 /\ program.name = "race_to_data_sem" /\ Now(0) = Static("report")
         \/ /\ at[0] = 7 /\ program.name \in {"race_to_data", "race_to_data_s"}
            /\ Now(0) = Static("report")
         \/ /\ at[0] = Len(program.main)
            /\ program.name \in Locked \cup {"race_to_data_s", "join_thread"}
            /\ Now(0) = Static("return")
         \/ /\ at[0] = Len(program.main)
            /\ program.name \in {"race_to_data", "detach_thread", "race",
                                 "race_corrupt_memory"}
            /\ Now(0) = Static("pthread_exit")
<1>. DEFINE name == program.name  m == program.main  p == Lead  n == Team  i == at[0]
            size == Len(m)
<1>1. /\ p \in {0, 1} /\ n \in 1 .. 3 /\ MainIs(m, name) /\ size \in Nat
      /\ size > p + 2 * n + 2 /\ name \in Usual
  BY Sizes0 DEF Usually0
<1>2. i > 0 /\ ~ (i > size) /\ Now(0) = m[i] /\ i \in Nat
  BY DEF Ready, Over, Code, Now
<1>3. /\ \A k \in 1 .. n : m[p + k] = Op("create", k, "static")
      /\ m[p + n + 1] = Op("check", 1, "static")
      /\ \A k \in 1 .. n : m[p + n + 1 + k] = Op(Way(name), k, "static")
      /\ m[p + 2 * n + 2] = Op("check", 2, "static")
  BY <1>1 DEF MainIs, Usually, Lead, Team
<1>4. Tails(m, name)
  BY <1>1 DEF MainIs
<1>5. /\ name \in {"join_thread", "detach_thread"} => p = 0 /\ n = 1
      /\ name \in {"race_to_data", "race_to_data_s"} => p = 0 /\ n = 2
      /\ name \in {"race", "race_corrupt_memory"} => p = 0 /\ n = 3
      /\ name \in Locked => p = 1 /\ n = 3
      /\ name \notin Locked => p = 0
  BY DEF Pre, Num, Locked, Lead, Team
<1>. HIDE DEF name, m, p, n, i
<1>6. \/ i = 1 /\ p = 1
      \/ \E k \in 1 .. n : i = p + k
      \/ i = p + n + 1
      \/ \E k \in 1 .. n : i = p + n + 1 + k
      \/ i = p + 2 * n + 2
      \/ i > p + 2 * n + 2
  <2>1. CASE i <= p
    BY <1>1, <1>2, <2>1
  <2>2. CASE i > p /\ i <= p + n
    <3>1. i - p \in 1 .. n /\ i = p + (i - p)
      BY <1>1, <1>2, <2>2
    <3>. QED  BY <3>1
  <2>3. CASE i = p + n + 1
    BY <2>3
  <2>4. CASE i > p + n + 1 /\ i <= p + n + 1 + n
    <3>1. i - (p + n + 1) \in 1 .. n /\ i = p + n + 1 + (i - (p + n + 1))
      BY <1>1, <1>2, <2>4
    <3>. QED  BY <3>1
  <2>5. CASE i > p + n + 1 + n
    BY <1>1, <1>2, <2>5
  <2>. QED  BY <1>1, <1>2, <2>1, <2>2, <2>3, <2>4, <2>5
<1>. DEFINE Goal ==
         \/ i = 1 /\ name = "race_to_data_mutex" /\ Now(0) = Static("spin_init")
         \/ i = 1 /\ name = "race_to_data_sem" /\ Now(0) = Static("sem_open")
         \/ \E k \in 1 .. n : i = p + k /\ Now(0) = Op("create", k, "static")
         \/ i = p + n + 1 /\ Now(0) = Op("check", 1, "static")
         \/ \E k \in 1 .. n : i = p + n + 1 + k /\ Now(0) = Op(Way(name), k, "static")
         \/ i = p + 2 * n + 2 /\ Now(0) = Op("check", 2, "static")
         \/ i = 10 /\ name \in Locked /\ Now(0) = Static("close")
         \/ i = 11 /\ name = "race_to_data_mutex" /\ Now(0) = Static("report_hidden")
         \/ i = 11 /\ name = "race_to_data_sem" /\ Now(0) = Static("report")
         \/ /\ i = 7 /\ name \in {"race_to_data", "race_to_data_s"}
            /\ Now(0) = Static("report")
         \/ /\ i = size /\ name \in Locked \cup {"race_to_data_s", "join_thread"}
            /\ Now(0) = Static("return")
         \/ /\ i = size /\ name \in {"race_to_data", "detach_thread", "race",
                                     "race_corrupt_memory"}
            /\ Now(0) = Static("pthread_exit")
<1>7. ASSUME i = 1 /\ p = 1
      PROVE  Goal
  <2>1. name \in Locked
    BY <1>5, <1>7
  <2>2. name = "race_to_data_mutex" \/ name = "race_to_data_sem"
    BY <2>1 DEF Locked
  <2>. QED  BY <1>2, <1>4, <1>7, <2>2 DEF Tails
<1>8. ASSUME \E k \in 1 .. n : i = p + k
      PROVE  Goal
  BY <1>2, <1>3, <1>8
<1>9. ASSUME i = p + n + 1
      PROVE  Goal
  BY <1>2, <1>3, <1>9
<1>10. ASSUME \E k \in 1 .. n : i = p + n + 1 + k
      PROVE  Goal
  BY <1>2, <1>3, <1>10
<1>11. ASSUME i = p + 2 * n + 2
      PROVE  Goal
  BY <1>2, <1>3, <1>11
<1>12. ASSUME i > p + 2 * n + 2
      PROVE  Goal
  <2>. HIDE DEF size
  <2>1. CASE name \in {"join_thread", "detach_thread"}
    <3>1. size = 5
      BY <1>4, <2>1 DEF Tails, size
    <3>2. i = 5
      BY <1>2, <1>5, <1>12, <2>1, <3>1
    <3>. QED  BY <1>2, <1>4, <2>1, <3>1, <3>2 DEF Tails
  <2>2. CASE name \in {"race", "race_corrupt_memory"}
    <3>1. size = 9
      BY <1>4, <2>2 DEF Tails, size
    <3>2. i = 9
      BY <1>2, <1>5, <1>12, <2>2, <3>1
    <3>. QED  BY <1>2, <1>4, <2>2, <3>1, <3>2 DEF Tails
  <2>3. CASE name \in {"race_to_data", "race_to_data_s"}
    <3>1. size = 8
      BY <1>4, <2>3 DEF Tails, size
    <3>2. i = 7 \/ i = 8
      BY <1>2, <1>5, <1>12, <2>3, <3>1
    <3>. QED  BY <1>2, <1>4, <2>3, <3>1, <3>2 DEF Tails
  <2>4. CASE name \in Locked
    <3>1. size = 12
      BY <1>4, <2>4 DEF Tails, size
    <3>2. i = 10 \/ i = 11 \/ i = 12
      BY <1>2, <1>5, <1>12, <2>4, <3>1
    <3>3. name = "race_to_data_mutex" \/ name = "race_to_data_sem"
      BY <2>4 DEF Locked
    <3>. QED  BY <1>2, <1>4, <2>4, <3>1, <3>2, <3>3 DEF Tails
  <2>. QED  BY <1>1, <2>1, <2>2, <2>3, <2>4 DEF Usual, Counting
<1>13. Goal
  BY <1>6, <1>7, <1>8, <1>9, <1>10, <1>11, <1>12
<1>. QED  BY <1>13 DEF name, m, p, n, i

\* Where main() is, by the operation it does.
LEMMA WhereMain0 ==
  ASSUME Usually0, at[0] \in Nat, NEW op, Does(0, op)
  PROVE  /\ Now(0).object = "static"
         /\ op \in {"create", "check", "join", "detach", "spin_init", "sem_open", "close",
                    "report", "report_hidden", "return", "pthread_exit"}
         /\ op = "create" => Arg(0) \in 1 .. Team /\ at[0] = Lead + Arg(0)
         /\ op = "check" => \/ at[0] = Lead + Team + 1 /\ Arg(0) = 1
                            \/ at[0] = Lead + 2 * Team + 2 /\ Arg(0) = 2
         /\ op \in {"join", "detach"} =>
              /\ op = Way(program.name)
              /\ Arg(0) \in 1 .. Team /\ at[0] = Lead + Team + 1 + Arg(0)
         /\ op = "close" => program.name \in Locked /\ at[0] = 10
         /\ op = "report_hidden" => program.name = "race_to_data_mutex" /\ at[0] = 11
         /\ op = "report" => \/ program.name = "race_to_data_sem" /\ at[0] = 11
                             \/ /\ program.name \in {"race_to_data", "race_to_data_s"}
                                /\ at[0] = 7
         /\ op = "return" => /\ at[0] = Len(program.main)
                             /\ program.name \in Locked \cup {"race_to_data_s", "join_thread"}
         /\ op = "pthread_exit" =>
              /\ at[0] = Len(program.main)
              /\ program.name \in {"race_to_data", "detach_thread", "race",
                                   "race_corrupt_memory"}
         /\ op = "spin_init" => program.name = "race_to_data_mutex" /\ at[0] = 1
         /\ op = "sem_open" => program.name = "race_to_data_sem" /\ at[0] = 1
<1>1. Ready(0) /\ Now(0).name = op /\ Arg(0) = Now(0).arg
  BY DEF Does, Arg
<1>. DEFINE e == Now(0)  i == at[0]  name == program.name
<1>2. \/ i = 1 /\ name = "race_to_data_mutex" /\ e = Static("spin_init")
      \/ i = 1 /\ name = "race_to_data_sem" /\ e = Static("sem_open")
      \/ \E k \in 1 .. Team : i = Lead + k /\ e = Op("create", k, "static")
      \/ i = Lead + Team + 1 /\ e = Op("check", 1, "static")
      \/ \E k \in 1 .. Team : i = Lead + Team + 1 + k /\ e = Op(Way(name), k, "static")
      \/ i = Lead + 2 * Team + 2 /\ e = Op("check", 2, "static")
      \/ i = 10 /\ name \in Locked /\ e = Static("close")
      \/ i = 11 /\ name = "race_to_data_mutex" /\ e = Static("report_hidden")
      \/ i = 11 /\ name = "race_to_data_sem" /\ e = Static("report")
      \/ i = 7 /\ name \in {"race_to_data", "race_to_data_s"} /\ e = Static("report")
      \/ /\ i = Len(program.main) /\ name \in Locked \cup {"race_to_data_s", "join_thread"}
         /\ e = Static("return")
      \/ /\ i = Len(program.main)
         /\ name \in {"race_to_data", "detach_thread", "race", "race_corrupt_memory"}
         /\ e = Static("pthread_exit")
  BY <1>1, MainNow0
<1>3. Way(name) \in {"join", "detach"}
  BY DEF Way
<1>4. e.name = op
  BY <1>1
<1>5. \A x, y, z : Op(x, y, z).name = x /\ Op(x, y, z).arg = y /\ Op(x, y, z).object = z
  BY OpIs
<1>6. \A x : Static(x).name = x /\ Static(x).object = "static"
  BY OpIs DEF Static
<1>. DEFINE arg == e.arg
<1>7. arg = Arg(0)
  BY <1>1
<1>. HIDE DEF e, i, name
<1>8. /\ e.object = "static"
      /\ op \in {"create", "check", "join", "detach", "spin_init", "sem_open", "close",
                 "report", "report_hidden", "return", "pthread_exit"}
  BY <1>2, <1>3, <1>4, <1>5, <1>6
<1>9. /\ op = "create" => arg \in 1 .. Team /\ i = Lead + arg
      /\ op = "check" => \/ i = Lead + Team + 1 /\ arg = 1
                         \/ i = Lead + 2 * Team + 2 /\ arg = 2
  BY <1>2, <1>3, <1>4, <1>5, <1>6
<1>10. op \in {"join", "detach"} =>
         op = Way(name) /\ arg \in 1 .. Team /\ i = Lead + Team + 1 + arg
  BY <1>2, <1>3, <1>4, <1>5, <1>6
<1>11. /\ op = "close" => name \in Locked /\ i = 10
       /\ op = "report_hidden" => name = "race_to_data_mutex" /\ i = 11
       /\ op = "report" => \/ name = "race_to_data_sem" /\ i = 11
                           \/ name \in {"race_to_data", "race_to_data_s"} /\ i = 7
  BY <1>2, <1>3, <1>4, <1>5, <1>6
<1>12. /\ op = "return" => /\ i = Len(program.main)
                           /\ name \in Locked \cup {"race_to_data_s", "join_thread"}
       /\ op = "pthread_exit" =>
            /\ i = Len(program.main)
            /\ name \in {"race_to_data", "detach_thread", "race", "race_corrupt_memory"}
       /\ op = "spin_init" => name = "race_to_data_mutex" /\ i = 1
       /\ op = "sem_open" => name = "race_to_data_sem" /\ i = 1
  BY <1>2, <1>3, <1>4, <1>5, <1>6
<1>. QED  BY <1>7, <1>8, <1>9, <1>10, <1>11, <1>12 DEF e, i, name

\* The operation of a thread.
LEMMA WorkerNow0 ==
  ASSUME Usually0, at \in [0 .. 5 -> Nat], NEW t \in 1 .. Team, Ready(t)
  PROVE  /\ at[t] \in 1 .. Len(program.body[t]) /\ Now(t) = program.body[t][at[t]]
         /\ BodyIs(program.body[t], t, program.name)
         /\ Now(t).name \in {"say", "add", "load", "store", "show", "lock", "unlock"}
<1>. DEFINE b == program.body[t]  size == Len(b)  i == at[t]
<1>1. Team \in 1 .. 3 /\ Code(t) = b /\ BodyIs(b, t, program.name) /\ size \in 1 .. 6
  BY Sizes0 DEF BodiesAre, Team
<1>2. i \in Nat
  BY <1>1
<1>3. i > 0 /\ ~ (i > size) /\ Now(t) = b[i]
  BY <1>1 DEF Ready, Over, Now
<1>. HIDE DEF b, i
<1>4. b[i].name \in {"say", "add", "load", "store", "show", "lock", "unlock"}
  <2>. DEFINE name == program.name
  <2>1. \/ name \in {"join_thread", "detach_thread", "race"}
        \/ name = "race_corrupt_memory" \/ name = "race_to_data" \/ name = "race_to_data_s"
        \/ name \in Locked
    BY DEF Usually0, Usual, Counting
  <2>. HIDE DEF name, size
  <2>2. BodyIs(b, t, name)
    BY <1>1 DEF name
  <2>3. CASE name \in {"join_thread", "detach_thread", "race"}
    <3>1. size = 1 /\ b[1] = Op("say", 0, "static")
      BY <2>2, <2>3 DEF BodyIs, size
    <3>2. i = 1
      BY <1>2, <1>3, <3>1
    <3>. QED  BY <3>1, <3>2, OpIs
  <2>4. CASE name = "race_corrupt_memory"
    <3>1. size = 1 /\ b[1] = Op("say", 0, "main")
      BY <2>2, <2>4 DEF BodyIs, size
    <3>2. i = 1
      BY <1>2, <1>3, <3>1
    <3>. QED  BY <3>1, <3>2, OpIs
  <2>5. CASE name = "race_to_data"
    <3>1. /\ size = 3 /\ b[1] = Op("add", t, "main")
          /\ b[2] = Op("load", 0, "main") /\ b[3] = Op("show", 0, "static")
      BY <2>2, <2>5 DEF BodyIs, size, Static
    <3>2. i = 1 \/ i = 2 \/ i = 3
      BY <1>2, <1>3, <3>1
    <3>. QED  BY <3>1, <3>2, OpIs
  <2>6. CASE name = "race_to_data_s"
    <3>1. /\ size = 4 /\ b[1] = Op("load", t, "main") /\ b[2] = Op("store", t, "main")
          /\ b[3] = Op("load", 0, "main") /\ b[4] = Op("show", 0, "static")
      BY <2>2, <2>6 DEF BodyIs, size, Static
    <3>2. i = 1 \/ i = 2 \/ i = 3 \/ i = 4
      BY <1>2, <1>3, <3>1
    <3>. QED  BY <3>1, <3>2, OpIs
  <2>7. CASE name \in Locked
    <3>1. /\ size = 6
          /\ b[1] = Op("lock", 0, "lock")
          /\ b[2] = Op("load", t, "main") /\ b[3] = Op("store", t, "static")
          /\ b[4] = Op("load", 0, "static") /\ b[5] = Op("show", 0, "static")
          /\ b[6] = Op("unlock", 0, "lock")
      BY <2>2, <2>7 DEF BodyIs, size, Static
    <3>2. i = 1 \/ i = 2 \/ i = 3 \/ i = 4 \/ i = 5 \/ i = 6
      BY <1>2, <1>3, <3>1
    <3>. QED  BY <3>1, <3>2, OpIs
  <2>. QED  BY <2>1, <2>3, <2>4, <2>5, <2>6, <2>7
<1>5. i \in 1 .. size
  BY <1>1, <1>2, <1>3
<1>. QED  BY <1>1, <1>3, <1>4, <1>5 DEF b, i

\* What a step of a thread does to the data, by its operation.
Effects(t) ==
  LET name == Now(t).name
  IN  /\ name \notin {"lock", "unlock"} => lock' = lock
      /\ name = "lock" => lock > 0 /\ lock' = lock - 1
      /\ name = "unlock" => lock' = lock + 1
      /\ name \notin {"add", "store"} => memory' = memory
      /\ name = "add" => memory' = [memory EXCEPT !.shared_var = @ + Now(t).arg]
      /\ name = "store" => memory' = [memory EXCEPT !.shared_var = register[t] + Now(t).arg]
      /\ name # "load" => register' = register
      /\ name = "load" => register' = [register EXCEPT ![t] = memory.shared_var]
      /\ name # "show" => shown' = shown
      /\ name = "show" => shown' = Append(shown, [thread |-> t, sum |-> register[t]])

\* A step of a thread passes one operation, with its effect, or goes astray.
LEMMA WorkerMoves0 ==
  ASSUME Usually0, at \in [0 .. 5 -> Nat], NEW t \in 1 .. Team, Step(t)
  PROVE  /\ Ready(t) /\ Goto(t, at[t] + 1)
         /\ UNCHANGED <<program, runs, status, failed, joinable, reported, found, avars>>
         /\ \/ /\ UNCHANGED <<outcome, stray>> /\ Now(t).object \notin Dead
               /\ Effects(t)
            \/ /\ outcome' = "undefined" /\ stray' = Now(t).object /\ Now(t).object \in Dead
               /\ UNCHANGED <<lock, memory, register, shown>>
<1>1. ASSUME NEW name, Does(t, name)
      PROVE  /\ Ready(t) /\ Now(t).name = name
             /\ name \in {"say", "add", "load", "store", "show", "lock", "unlock"}
  BY <1>1, WorkerNow0 DEF Does
<1>. DEFINE Worked == /\ Goto(t, at[t] + 1)
                      /\ UNCHANGED <<program, runs, status, failed, joinable, reported,
                                     found, avars, outcome, stray>>
                      /\ Now(t).object \notin Dead
<1>2. ASSUME NEW name, Works(t, name), UNCHANGED control
      PROVE  Worked /\ Does(t, name)
  BY <1>2 DEF Works, process, control
<1>3. ASSUME NEW name, Touches(t, name)
      PROVE  Worked /\ Does(t, name) /\ UNCHANGED <<lock, register, shown>>
  <2>1. Works(t, name) /\ UNCHANGED control /\ UNCHANGED <<lock, register, shown>>
    BY <1>3 DEF Touches
  <2>. QED  BY <2>1, <1>2
<1>. HIDE DEF Worked
<1>4. ASSUME Worked, Ready(t), Effects(t)
      PROVE  /\ Ready(t) /\ Goto(t, at[t] + 1)
             /\ UNCHANGED <<program, runs, status, failed, joinable, reported, found, avars>>
             /\ UNCHANGED <<outcome, stray>> /\ Now(t).object \notin Dead
             /\ Effects(t)
  BY <1>4 DEF Worked
<1>5. CASE Say(t)
  <2>1. (Touches(t, "say") \/ Touches(t, "read")) /\ memory' = memory
    BY <1>5 DEF Say
  <2>2. Touches(t, "say")
    BY <2>1, <1>1, <1>3
  <2>3. Worked /\ Ready(t) /\ Now(t).name = "say" /\ UNCHANGED <<lock, register, shown>>
    BY <2>2, <1>1, <1>3
  <2>4. Effects(t)
    BY <2>1, <2>3 DEF Effects
  <2>. QED  BY <1>4, <2>3, <2>4
<1>6. CASE Add(t)
  <2>1. /\ Worked /\ Ready(t) /\ Now(t).name = "add" /\ UNCHANGED <<lock, register, shown>>
        /\ memory' = [memory EXCEPT !.shared_var = @ + Now(t).arg]
    BY <1>6, <1>1, <1>3 DEF Add, Arg
  <2>4. Effects(t)
    BY <2>1 DEF Effects
  <2>. QED  BY <1>4, <2>1, <2>4
<1>7. CASE Load(t)
  <2>1. /\ Worked /\ Ready(t) /\ Now(t).name = "load" /\ UNCHANGED <<lock, memory, shown>>
        /\ register' = [register EXCEPT ![t] = memory.shared_var]
    BY <1>7, <1>1, <1>2 DEF Load
  <2>4. Effects(t)
    BY <2>1 DEF Effects
  <2>. QED  BY <1>4, <2>1, <2>4
<1>8. CASE Store(t)
  <2>1. /\ Worked /\ Ready(t) /\ Now(t).name = "store" /\ UNCHANGED <<lock, register, shown>>
        /\ memory' = [memory EXCEPT !.shared_var = register[t] + Now(t).arg]
    BY <1>8, <1>1, <1>3 DEF Store, Arg
  <2>4. Effects(t)
    BY <2>1 DEF Effects
  <2>. QED  BY <1>4, <2>1, <2>4
<1>9. CASE Show(t)
  <2>1. /\ Worked /\ Ready(t) /\ Now(t).name = "show" /\ UNCHANGED <<lock, register, memory>>
        /\ shown' = Append(shown, [thread |-> t, sum |-> register[t]])
    BY <1>9, <1>1, <1>2 DEF Show
  <2>4. Effects(t)
    BY <2>1 DEF Effects
  <2>. QED  BY <1>4, <2>1, <2>4
<1>10. CASE Lock(t)
  <2>1. /\ Worked /\ Ready(t) /\ Now(t).name = "lock" /\ UNCHANGED <<register, memory, shown>>
        /\ lock > 0 /\ lock' = lock - 1
    BY <1>10, <1>1, <1>2 DEF Lock, Available
  <2>4. Effects(t)
    BY <2>1 DEF Effects
  <2>. QED  BY <1>4, <2>1, <2>4
<1>11. CASE Unlock(t)
  <2>1. /\ Worked /\ Ready(t) /\ Now(t).name = "unlock"
        /\ UNCHANGED <<register, memory, shown>> /\ lock' = lock + 1
    BY <1>11, <1>1, <1>2 DEF Unlock, AfterUnlock
  <2>4. Effects(t)
    BY <2>1 DEF Effects
  <2>. QED  BY <1>4, <2>1, <2>4
<1>12. CASE GoesAstray(t)
  <2>1. /\ Ready(t) /\ Goto(t, at[t] + 1) /\ outcome' = "undefined"
        /\ UNCHANGED <<program, runs, status, failed, joinable, reported, found, avars>>
        /\ UNCHANGED <<lock, memory, register, shown>>
    BY <1>12 DEF GoesAstray, control, data
  <2>2. PICK object : Strays(t, object) /\ stray' = object
    BY <1>12 DEF GoesAstray
  <2>3. Now(t).name \in {"say", "add", "load", "store", "show", "lock", "unlock"}
    BY <2>1, WorkerNow0
  <2>4. object = Now(t).object /\ object \in Dead
    BY <2>2, <2>3 DEF Strays
  <2>. QED  BY <2>1, <2>2, <2>4
<1>13. ~ malloc(t) /\ ~ free(t) /\ ~ Publish(t) /\ ~ SetLength(t) /\ ~ LoadPointer(t)
       /\ ~ Terminate(t) /\ ~ PrintArray(t) /\ ~ Cell(t) /\ ~ Wait(t)
  <2>1. ASSUME NEW name, name \notin {"say", "add", "load", "store", "show", "lock", "unlock"}
        PROVE  ~ Does(t, name) /\ ~ Works(t, name) /\ ~ Touches(t, name)
    BY <2>1, <1>1 DEF Works, Touches
  <2>. QED
    BY <2>1 DEF malloc, free, Publish, SetLength, LoadPointer, Terminate, PrintArray, Cell, Wait
<1>. QED
  BY <1>5, <1>6, <1>7, <1>8, <1>9, <1>10, <1>11, <1>12, <1>13 DEF Step

\* The steps of a usual main().
Advances == at' = [at EXCEPT ![0] = @ + 1] /\ UNCHANGED <<outcome, status>>

Created(k) ==
  /\ at[0] = Lead + k /\ at' = [at EXCEPT ![0] = @ + 1, ![k] = 1]
  /\ joinable' = joinable \cup {k}
  /\ UNCHANGED <<outcome, status, failed, reported, found, lock>>

Refused(k) ==
  /\ at[0] = Lead + k /\ Advances
  /\ failed' = failed \cup {k}
  /\ UNCHANGED <<joinable, reported, found, lock>>

Passed ==
  /\ \/ at[0] \in {Lead + Team + 1, Lead + 2 * Team + 2} /\ failed = {}
     \/ at[0] = 10 /\ program.name \in Locked
     \/ at[0] = Len(program.main)
  /\ Advances
  /\ UNCHANGED <<failed, joinable, reported, found, lock>>

Waited(k) ==
  /\ at[0] = Lead + Team + 1 + k /\ (Way(program.name) = "join" => Over(k))
  /\ Advances
  /\ joinable' = joinable \ {k}
  /\ UNCHANGED <<failed, reported, found, lock>>

Stopped ==
  /\ outcome' \in {"exited", "aborted"} /\ status' \in {0, 1, 2}
  /\ outcome' = "exited" => status' # 0
  /\ UNCHANGED <<at, failed, joinable, reported, found, lock>>

Finished ==
  /\ outcome' = "exited" /\ status' = 0
  /\ \/ at[0] = Len(program.main) /\ Way(program.name) = "join"
     \/ \A t \in 0 .. 5 : at[t] > 0 => Over(t)
  /\ UNCHANGED <<at, failed, joinable, reported, found, lock>>

ReportAt == IF program.name \in Locked THEN 11 ELSE 7

Reported ==
  /\ program.name \in Counting /\ at[0] = ReportAt
  /\ Advances
  /\ reported' = IF program.name = "race_to_data_mutex" THEN 0 ELSE memory.shared_var
  /\ UNCHANGED <<failed, joinable, found, lock>>

Opened ==
  /\ program.name \in Locked /\ at[0] = 1
  /\ Advances
  /\ lock' = IF program.name = "race_to_data_sem" /\ lock # Absent THEN lock ELSE 1
  /\ found' = lock'
  /\ UNCHANGED <<failed, joinable, reported>>

MainStep ==
  \/ \E k \in 1 .. Team : Created(k) \/ Refused(k) \/ Waited(k)
  \/ Passed \/ Stopped \/ Finished \/ Reported \/ Opened

\* A usual program joins its threads or detaches them.
LEMMA WayIs ==
  ASSUME program.name \in Locked \cup {"race_to_data_s", "join_thread"}
  PROVE  Way(program.name) = "join"
BY DEF Way, Locked

\* Every step of main() is one of them.
LEMMA MainMoves0 ==
  ASSUME Usually0, at \in [0 .. 5 -> Nat], at[0] > Lead + Team + 1 => failed = {}, Main
  PROVE  /\ outcome = "running" /\ MainStep
         /\ UNCHANGED <<program, runs, stray, after, memory, register, shown, avars>>
<1>. DEFINE name == program.name
            Rest == UNCHANGED <<program, runs, stray, after, memory, register, shown, avars>>
            Goal == outcome = "running" /\ MainStep /\ Rest
<1>0. /\ at[0] \in Nat /\ Team \in 1 .. 3 /\ Lead \in {0, 1} /\ name \in Usual
  BY Sizes0 DEF Usually0
<1>1. ASSUME NEW op, Works(0, op)
      PROVE  Advances /\ Does(0, op) /\ after' = after /\ outcome = "running"
             /\ UNCHANGED <<program, runs, stray, avars>>
  BY <1>1 DEF Works, Goto, process, Advances, Does, Ready
<1>2. ASSUME NEW op, Does(0, op)
      PROVE  /\ Now(0).object = "static" /\ outcome = "running"
             /\ op = "create" => Arg(0) \in 1 .. Team /\ at[0] = Lead + Arg(0)
             /\ op = "check" => \/ at[0] = Lead + Team + 1 /\ Arg(0) = 1
                                \/ at[0] = Lead + 2 * Team + 2 /\ Arg(0) = 2
             /\ op \in {"join", "detach"} =>
                  op = Way(name) /\ Arg(0) \in 1 .. Team /\ at[0] = Lead + Team + 1 + Arg(0)
             /\ op = "close" => name \in Locked /\ at[0] = 10
             /\ op = "report_hidden" => name = "race_to_data_mutex" /\ at[0] = 11
             /\ op = "report" => \/ name = "race_to_data_sem" /\ at[0] = 11
                                 \/ name \in {"race_to_data", "race_to_data_s"} /\ at[0] = 7
             /\ op = "return" => /\ at[0] = Len(program.main) /\ Way(name) = "join"
             /\ op = "pthread_exit" => at[0] = Len(program.main)
             /\ op = "spin_init" => name = "race_to_data_mutex" /\ at[0] = 1
             /\ op = "sem_open" => name = "race_to_data_sem" /\ at[0] = 1
             /\ op # "setstack"
  <2>1. outcome = "running"
    BY <1>2 DEF Does, Ready
  <2>. QED  BY <1>0, <1>2, <2>1, WhereMain0, WayIs
<1>3. ASSUME NEW how, NEW code, Ends(how, code)
      PROVE  /\ outcome = "running" /\ outcome' = how /\ status' = code /\ Rest
             /\ UNCHANGED <<at, failed, joinable, reported, found, lock>>
  BY <1>3 DEF Ends, control, data
<1>4. CASE pthread_create
  <2>1. Does(0, "create") /\ Rest /\ UNCHANGED <<outcome, status, reported, found, lock>>
    BY <1>4 DEF pthread_create, process, data
  <2>. DEFINE k == Arg(0)
  <2>2. k \in 1 .. Team /\ at[0] = Lead + k /\ outcome = "running"
    BY <1>2, <2>1
  <2>3. \/ /\ at' = [at EXCEPT ![0] = @ + 1, ![k] = 1]
           /\ joinable' = joinable \cup {k}
           /\ UNCHANGED failed
        \/ /\ at' = [at EXCEPT ![0] = @ + 1]
           /\ failed' = failed \cup {k}
           /\ UNCHANGED joinable
    BY <1>4 DEF pthread_create
  <2>. HIDE DEF k
  <2>4. Created(k) \/ Refused(k)
    BY <2>1, <2>2, <2>3 DEF Created, Refused, Advances
  <2>. QED  BY <2>1, <2>2, <2>4 DEF MainStep
<1>5. CASE CheckResults
  <2>1. CASE Works(0, "check") /\ failed = {} /\ UNCHANGED <<control, data>>
    <3>1. /\ Advances /\ Rest /\ outcome = "running"
          /\ UNCHANGED <<failed, joinable, reported, found, lock>>
      BY <1>1, <2>1 DEF control, data
    <3>2. at[0] \in {Lead + Team + 1, Lead + 2 * Team + 2}
      BY <1>1, <1>2, <2>1
    <3>. QED  BY <2>1, <3>1, <3>2 DEF MainStep, Passed
  <2>2. CASE Does(0, "check") /\ Ends("exited", Arg(0))
    <3>1. Arg(0) \in {0, 1, 2} /\ Arg(0) # 0
      BY <1>2, <2>2
    <3>. QED  BY <1>3, <2>2, <3>1 DEF MainStep, Stopped
  <2>. QED  BY <1>5, <2>1, <2>2 DEF CheckResults, Failures
<1>6. CASE pthread_join \/ pthread_detach
  <2>1. PICK op \in {"join", "detach"} :
          /\ Works(0, op) /\ (op = "join" => Arg(0) \in failed \/ Over(Arg(0)))
          /\ joinable' = joinable \ {Arg(0)}
          /\ UNCHANGED <<failed, reported, found, data>>
    BY <1>6 DEF pthread_join, pthread_detach
  <2>2. Advances /\ Rest /\ outcome = "running" /\ UNCHANGED <<failed, reported, found, lock>>
    BY <1>1, <2>1 DEF data
  <2>3. op = Way(name) /\ Arg(0) \in 1 .. Team /\ at[0] = Lead + Team + 1 + Arg(0)
    BY <1>1, <1>2, <2>1
  <2>4. Way(name) = "join" => Over(Arg(0))
    <3>1. at[0] > Lead + Team + 1
      BY <1>0, <2>3
    <3>. QED  BY <2>1, <2>3, <3>1
  <2>5. Waited(Arg(0))
    BY <2>1, <2>2, <2>3, <2>4 DEF Waited
  <2>. QED  BY <2>2, <2>3, <2>5 DEF MainStep
<1>7. CASE pthread_exit \/ Close
  <2>1. PICK op \in {"pthread_exit", "close"} : Works(0, op) /\ UNCHANGED <<control, data>>
    BY <1>7 DEF pthread_exit, Close
  <2>2. /\ Advances /\ Rest /\ outcome = "running"
        /\ UNCHANGED <<failed, joinable, reported, found, lock>>
    BY <1>1, <2>1 DEF control, data
  <2>3. (at[0] = 10 /\ name \in Locked) \/ at[0] = Len(program.main)
    BY <1>1, <1>2, <2>1
  <2>. QED  BY <2>2, <2>3 DEF MainStep, Passed
<1>8. CASE LastThreadEnds
  <2>1. /\ \A t \in 0 .. 5 : at[t] > 0 => Over(t)
        /\ outcome = "running" /\ outcome' = "exited" /\ status' = 0 /\ Rest
        /\ UNCHANGED <<at, failed, joinable, reported, found, lock>>
    BY <1>3, <1>8 DEF LastThreadEnds
  <2>. QED  BY <2>1 DEF MainStep, Finished
<1>9. CASE Return
  <2>1. /\ outcome = "running" /\ outcome' = "exited" /\ status' = 0 /\ Rest
        /\ UNCHANGED <<at, failed, joinable, reported, found, lock>>
    BY <1>3, <1>9 DEF Return
  <2>2. at[0] = Len(program.main) /\ Way(name) = "join"
    BY <1>2, <1>9 DEF Return
  <2>. QED  BY <2>1, <2>2 DEF MainStep, Finished
<1>10. ~ setstack
  BY <1>1, <1>2 DEF setstack
<1>11. CASE Report
  <2>1. PICK op \in {"report", "report_hidden"} :
          /\ Works(0, op)
          /\ reported' = IF op = "report" THEN memory.shared_var ELSE 0
          /\ UNCHANGED <<failed, joinable, found, data>>
    BY <1>11 DEF Report
  <2>2. /\ Advances /\ Rest /\ outcome = "running" /\ Does(0, op)
        /\ UNCHANGED <<failed, joinable, found, lock>>
    BY <1>1, <2>1 DEF data
  <2>3. /\ op = "report_hidden" => name = "race_to_data_mutex" /\ at[0] = 11
        /\ op = "report" => \/ name = "race_to_data_sem" /\ at[0] = 11
                            \/ name \in {"race_to_data", "race_to_data_s"} /\ at[0] = 7
    BY <1>2, <2>2
  <2>4. /\ name \in Counting /\ at[0] = ReportAt
        /\ name = "race_to_data_mutex" <=> op = "report_hidden"
    BY <2>1, <2>3 DEF ReportAt, Locked, Counting
  <2>5. Reported
    BY <2>1, <2>2, <2>4 DEF Reported
  <2>. QED  BY <2>2, <2>5 DEF MainStep
<1>12. CASE spin_init
  <2>1. /\ Advances /\ outcome = "running" /\ Does(0, "spin_init") /\ Rest
        /\ lock' = 1 /\ found' = 1 /\ UNCHANGED <<failed, joinable, reported>>
    BY <1>1, <1>12 DEF spin_init
  <2>2. name = "race_to_data_mutex" /\ at[0] = 1
    BY <1>2, <2>1
  <2>. QED  BY <2>1, <2>2 DEF MainStep, Opened, Locked
<1>13. CASE sem_open
  <2>1. CASE Does(0, "sem_open") /\ Ends("aborted", 0)
    BY <1>3, <2>1 DEF MainStep, Stopped
  <2>2. CASE /\ Works(0, "sem_open")
             /\ lock' = IF lock = Absent THEN 1 ELSE lock
             /\ found' = lock'
             /\ UNCHANGED <<failed, joinable, reported, memory, register, shown>>
    <3>1. Advances /\ outcome = "running" /\ Does(0, "sem_open") /\ Rest
      BY <1>1, <2>2
    <3>2. name = "race_to_data_sem" /\ at[0] = 1
      BY <1>2, <3>1
    <3>. QED  BY <2>2, <3>1, <3>2 DEF MainStep, Opened, Locked
  <2>. QED  BY <1>13, <2>1, <2>2 DEF sem_open
<1>14. Goal
  BY <1>4, <1>5, <1>6, <1>7, <1>8, <1>9, <1>10, <1>11, <1>12, <1>13, Main DEF Main
<1>. QED  BY <1>14

\* main() of these programs does nothing that a thread does.
LEMMA NoStep0 ==
  ASSUME Usually0, at \in [0 .. 5 -> Nat], at[0] > Lead + Team + 1 => failed = {}
  PROVE  ~ Step(0)
<1>1. ASSUME NEW op, Does(0, op)
      PROVE  /\ op \in {"create", "check", "join", "detach", "spin_init", "sem_open", "close",
                        "report", "report_hidden", "return", "pthread_exit"}
             /\ Now(0).object = "static"
             /\ op = "join" => failed = {}
  <2>1. at[0] \in Nat /\ Team \in 1 .. 3 /\ Lead \in {0, 1}
    BY Sizes0
  <2>2. op = "join" => at[0] > Lead + Team + 1
    <3>1. op = "join" => Arg(0) \in 1 .. Team /\ at[0] = Lead + Team + 1 + Arg(0)
      BY <1>1, <2>1, WhereMain0
    <3>. QED  BY <2>1, <3>1
  <2>. QED  BY <1>1, <2>1, <2>2, WhereMain0
<1>2. ASSUME NEW op, op \notin {"create", "check", "join", "detach", "spin_init", "sem_open",
                                "close", "report", "report_hidden", "return", "pthread_exit"}
      PROVE  ~ Does(0, op) /\ ~ Works(0, op) /\ ~ Touches(0, op)
  BY <1>1, <1>2 DEF Works, Touches
<1>3. /\ ~ malloc(0) /\ ~ free(0) /\ ~ Say(0) /\ ~ Publish(0) /\ ~ Add(0) /\ ~ Load(0)
      /\ ~ Store(0) /\ ~ Show(0) /\ ~ Lock(0) /\ ~ Unlock(0)
  BY <1>2 DEF malloc, free, Say, Publish, Add, Load, Store, Show, Lock, Unlock
<1>4. ~ Wait(0) /\ ~ SetLength(0) /\ ~ Cell(0) /\ ~ LoadPointer(0) /\ ~ Terminate(0)
      /\ ~ PrintArray(0)
  BY <1>2 DEF Wait, SetLength, Cell, LoadPointer, Terminate, PrintArray
<1>5. ~ GoesAstray(0)
  <2>1. SUFFICES ASSUME Ready(0), NEW object, Strays(0, object)
                 PROVE  FALSE
    BY DEF GoesAstray
  <2>. DEFINE op == Now(0).name
  <2>2. Does(0, op)
    BY <2>1 DEF Does
  <2>. HIDE DEF op
  <2>3. /\ op \in {"create", "check", "join", "detach", "spin_init", "sem_open", "close",
                   "report", "report_hidden", "return", "pthread_exit"}
        /\ Now(0).object = "static" /\ (op = "join" => failed = {})
    BY <1>1, <2>2
  <2>4. "static" \notin Dead
    BY DEF Dead
  <2>. QED  BY <2>1, <2>3, <2>4 DEF Strays, op
<1>. QED  BY <1>3, <1>4, <1>5 DEF Step

-----------------------------------------------------------------------------
(***************************************************************************)
(* Where the usual programs are: a thread begins after its creation; main()*)
(* passes its first check only when all threads exist and gets past the    *)
(* wait for one only when that one is over; then only is success possible. *)
(***************************************************************************)
MainSize == Len(program.main)
BodySize(t) == Len(program.body[t])

UsualTypes ==
  /\ at \in [0 .. 5 -> Nat] /\ at[0] >= 1 /\ at[0] <= MainSize + 1
  /\ after \in [1 .. 5 -> SUBSET (1 .. Team)]
  /\ failed \subseteq 1 .. Team /\ joinable \subseteq 1 .. Team
  /\ \A t \in 1 .. Team : at[t] <= BodySize(t) + 1

Started ==
  /\ \A t \in 1 .. 5 : at[t] > 0 => t <= Team /\ at[0] > Lead + t
  /\ \A t \in 1 .. Team : at[0] > Lead + t => t \in failed \/ at[t] > 0
  /\ at[0] > Lead + Team + 1 => failed = {}

Joined ==
  \A t \in 1 .. Team : at[0] > Lead + Team + 1 + t =>
    t \notin joinable /\ (Way(program.name) = "join" => at[t] > BodySize(t))

AllOver == \A t \in 1 .. Team : at[t] > BodySize(t)

Endings ==
  /\ outcome \in {"running", "exited", "killed", "aborted", "undefined"}
  /\ status \in {0, 1, 2} /\ stray \in {"none", "main"} /\ runs \in 1 .. MaxRuns
  /\ outcome = "exited" /\ status = 0 =>
       failed = {} /\ joinable = {} /\ AllOver /\ at[0] >= MainSize
  /\ outcome = "undefined" => program.name = "race_corrupt_memory" /\ stray = "main"

UsualControl == UsualTypes /\ Started /\ Joined /\ Endings

\* The ends of main() and of the bodies.
LEMMA OverIs ==
  ASSUME Usually0
  PROVE  /\ \A t \in 1 .. Team : Over(t) <=> at[t] > BodySize(t)
         /\ Over(0) <=> at[0] > MainSize
         /\ MainSize \in Nat /\ MainSize > Lead + 2 * Team + 2
         /\ Lead \in {0, 1} /\ Team \in 1 .. 3
         /\ \A t \in 1 .. Team : BodySize(t) \in 1 .. 6
         /\ Workers = 1 .. Team
<1>1. /\ MainSize \in Nat /\ MainSize > Lead + 2 * Team + 2
      /\ Lead \in {0, 1} /\ Team \in 1 .. 3 /\ Workers = 1 .. Team
      /\ \A t \in 1 .. Team : Code(t) = program.body[t] /\ BodySize(t) \in 1 .. 6
  BY Sizes0 DEF MainSize, BodySize
<1>2. \A t \in 1 .. Team : Over(t) <=> at[t] > BodySize(t)
  BY <1>1 DEF Over, BodySize
<1>3. Over(0) <=> at[0] > MainSize
  BY DEF Over, Code, MainSize
<1>. QED  BY <1>1, <1>2, <1>3

\* The lock is closed after every thread is over.
LEMMA CloseIsLate ==
  ASSUME Usually0, UsualTypes, NEW i \in 1 .. at[0] - 1, program.main[i].name = "close"
  PROVE  at[0] > Lead + 2 * Team + 2
<1>. DEFINE m == program.main  p == Lead  n == Team  name == program.name
<1>1. /\ p \in {0, 1} /\ n \in 1 .. 3 /\ MainIs(m, name) /\ name \in Usual
  BY Sizes0 DEF Usually0
<1>2. /\ \A k \in 1 .. n : m[p + k] = Op("create", k, "static")
      /\ m[p + n + 1] = Op("check", 1, "static")
      /\ \A k \in 1 .. n : m[p + n + 1 + k] = Op(Way(name), k, "static")
      /\ m[p + 2 * n + 2] = Op("check", 2, "static")
  BY <1>1 DEF MainIs, Usually, Lead, Team
<1>3. p = 1 => m[1] = Static("spin_init") \/ m[1] = Static("sem_open")
  <2>1. p = 1 => name \in Locked
    BY DEF Lead, Pre
  <2>2. Tails(m, name)
    BY <1>1 DEF MainIs
  <2>. QED  BY <2>1, <2>2 DEF Tails, Locked
<1>4. m[i].name = "close" /\ i \in Nat /\ i >= 1 /\ at[0] \in Nat /\ i < at[0]
  BY DEF UsualTypes
<1>5. Way(name) \in {"join", "detach"}
  BY DEF Way
<1>6. \A x, y, z : Op(x, y, z).name = x
  BY OpIs
<1>7. \A x : Static(x).name = x
  BY OpIs DEF Static
<1>. HIDE DEF m, p, n, name
<1>8. i > p + 2 * n + 2
  <2>1. SUFFICES ASSUME i <= p + 2 * n + 2
                 PROVE  FALSE
    BY <1>1, <1>4
  <2>2. CASE i <= p
    BY <1>1, <1>3, <1>4, <1>7, <2>2
  <2>3. CASE i > p /\ i <= p + n
    <3>. DEFINE k == i - p
    <3>1. k \in 1 .. n /\ i = p + k
      BY <1>1, <1>4, <2>3
    <3>. HIDE DEF k
    <3>. QED  BY <1>2, <1>4, <1>6, <3>1
  <2>4. CASE i = p + n + 1
    BY <1>2, <1>4, <1>6, <2>4
  <2>5. CASE i > p + n + 1 /\ i <= p + n + 1 + n
    <3>. DEFINE k == i - (p + n + 1)
    <3>1. k \in 1 .. n /\ i = p + n + 1 + k
      BY <1>1, <1>4, <2>5
    <3>. HIDE DEF k
    <3>. QED  BY <1>2, <1>4, <1>5, <1>6, <3>1
  <2>6. CASE i = p + 2 * n + 2
    BY <1>2, <1>4, <1>6, <2>6
  <2>. QED  BY <1>1, <1>4, <2>1, <2>2, <2>3, <2>4, <2>5, <2>6
<1>9. at[0] > p + 2 * n + 2
  BY <1>1, <1>4, <1>8
<1>. QED  BY <1>9 DEF p, n

\* The objects of the usual programs die only after the last wait.
LEMMA DeadIsLate ==
  ASSUME Usually0, UsualTypes, NEW object \in {"static", "main", "lock"}, object \in Dead
  PROVE  object # "static" /\ at[0] > Lead + 2 * Team + 2
<1>1. object # "static"
  BY DEF Dead
<1>2. CASE object = "main"
  <2>1. Over(0)
    BY <1>2 DEF Dead
  <2>. QED  BY <1>1, <2>1, OverIs DEF UsualTypes
<1>3. CASE object = "lock"
  <2>1. \E i \in 1 .. at[0] - 1 : program.main[i].name = "close"
    BY <1>3 DEF Dead
  <2>. QED  BY <1>1, <2>1, CloseIsLate
<1>. QED  BY <1>1, <1>2, <1>3

\* The object that a thread touches.
LEMMA WorkerObject ==
  ASSUME Usually0, UsualTypes, NEW t \in 1 .. Team, Ready(t)
  PROVE  /\ Now(t).object \in {"static", "main", "lock"}
         /\ Now(t).object = "static" \/ Way(program.name) = "join"
              \/ (program.name = "race_corrupt_memory" /\ Now(t).object = "main")
         /\ at[t] >= 1 /\ at[t] <= BodySize(t)
<1>. DEFINE name == program.name  b == program.body[t]  i == at[t]  size == Len(b)
<1>1. i \in 1 .. size /\ Now(t) = b[i] /\ BodyIs(b, t, name)
  BY WorkerNow0 DEF UsualTypes
<1>2. size \in 1 .. 6 /\ BodySize(t) = size
  BY Sizes0 DEF BodySize
<1>3. \/ name \in {"join_thread", "detach_thread", "race"}
      \/ name = "race_corrupt_memory" \/ name = "race_to_data" \/ name = "race_to_data_s"
      \/ name \in Locked
  BY DEF Usually0, Usual, Counting
<1>4. name \in Counting => Way(name) = "join"
  BY DEF Way, Counting, Locked
<1>. HIDE DEF name, b, i, size
<1>5. /\ b[i].object \in {"static", "main", "lock"}
      /\ b[i].object = "static" \/ name \in Counting
           \/ (name = "race_corrupt_memory" /\ b[i].object = "main")
  <2>1. CASE name \in {"join_thread", "detach_thread", "race"}
    <3>1. size = 1 /\ b[1] = Op("say", 0, "static")
      BY <1>1, <2>1 DEF BodyIs, size
    <3>2. i = 1
      BY <1>1, <3>1
    <3>. QED  BY <3>1, <3>2, OpIs
  <2>2. CASE name = "race_corrupt_memory"
    <3>1. size = 1 /\ b[1] = Op("say", 0, "main")
      BY <1>1, <2>2 DEF BodyIs, size
    <3>2. i = 1
      BY <1>1, <3>1
    <3>. QED  BY <2>2, <3>1, <3>2, OpIs
  <2>3. CASE name = "race_to_data"
    <3>1. /\ size = 3 /\ b[1] = Op("add", t, "main")
          /\ b[2] = Op("load", 0, "main") /\ b[3] = Op("show", 0, "static")
      BY <1>1, <2>3 DEF BodyIs, size, Static
    <3>2. i = 1 \/ i = 2 \/ i = 3
      BY <1>1, <3>1
    <3>. QED  BY <2>3, <3>1, <3>2, OpIs DEF Counting
  <2>4. CASE name = "race_to_data_s"
    <3>1. /\ size = 4 /\ b[1] = Op("load", t, "main") /\ b[2] = Op("store", t, "main")
          /\ b[3] = Op("load", 0, "main") /\ b[4] = Op("show", 0, "static")
      BY <1>1, <2>4 DEF BodyIs, size, Static
    <3>2. i = 1 \/ i = 2 \/ i = 3 \/ i = 4
      BY <1>1, <3>1
    <3>. QED  BY <2>4, <3>1, <3>2, OpIs DEF Counting
  <2>5. CASE name \in Locked
    <3>1. /\ size = 6
          /\ b[1] = Op("lock", 0, "lock")
          /\ b[2] = Op("load", t, "main") /\ b[3] = Op("store", t, "static")
          /\ b[4] = Op("load", 0, "static") /\ b[5] = Op("show", 0, "static")
          /\ b[6] = Op("unlock", 0, "lock")
      BY <1>1, <2>5 DEF BodyIs, size, Static
    <3>2. i = 1 \/ i = 2 \/ i = 3 \/ i = 4 \/ i = 5 \/ i = 6
      BY <1>1, <3>1
    <3>. QED  BY <2>5, <3>1, <3>2, OpIs DEF Counting
  <2>. QED  BY <1>3, <2>1, <2>2, <2>3, <2>4, <2>5
<1>6. i >= 1 /\ i <= BodySize(t)
  BY <1>1, <1>2
<1>. QED  BY <1>1, <1>4, <1>5, <1>6 DEF name, i

\* Only a string on the stack of a main() that has left is ever dead when used.
LEMMA OnlyCorrupts ==
  ASSUME Usually0, UsualControl, NEW t \in 1 .. Team, Ready(t), Now(t).object \in Dead
  PROVE  program.name = "race_corrupt_memory" /\ Now(t).object = "main"
<1>. USE DEF UsualControl
<1>1. /\ Now(t).object \in {"static", "main", "lock"}
      /\ Now(t).object = "static" \/ Way(program.name) = "join"
           \/ (program.name = "race_corrupt_memory" /\ Now(t).object = "main")
      /\ at[t] <= BodySize(t)
  BY WorkerObject
<1>2. Now(t).object # "static" /\ at[0] > Lead + 2 * Team + 2
  BY <1>1, DeadIsLate
<1>3. Way(program.name) # "join"
  <2>1. at[0] > Lead + Team + 1 + t
    <3>1. Lead \in {0, 1} /\ Team \in 1 .. 3 /\ at[0] \in Nat /\ at[0] > Lead + 2 * Team + 2
      BY <1>2, OverIs DEF UsualTypes
    <3>2. t \in Nat /\ t <= Team
      BY <3>1
    <3>. QED  BY <3>1, <3>2
  <2>2. at[t] \in Nat /\ BodySize(t) \in Nat
    <3>1. Team \in 1 .. 3 /\ BodySize(t) \in 1 .. 6
      BY OverIs
    <3>. QED  BY <3>1 DEF UsualTypes
  <2>. QED  BY <1>1, <2>1, <2>2 DEF Joined
<1>. QED  BY <1>1, <1>2, <1>3

\* What depends on the program alone does not change.
LEMMA Rigid ==
  ASSUME program' = program
  PROVE  /\ Lead' = Lead /\ Team' = Team /\ MainSize' = MainSize
         /\ \A t : BodySize(t)' = BodySize(t)
BY DEF Lead, Team, MainSize, BodySize

\* A step of main() keeps the control.
LEMMA ControlMain ==
  ASSUME Usually0, UsualControl, Main
  PROVE  UsualControl'
<1>. USE DEF UsualControl
<1>1. /\ outcome = "running" /\ MainStep
      /\ UNCHANGED <<program, runs, stray, after, memory, register, shown, avars>>
  BY MainMoves0 DEF UsualTypes, Started
<1>2. /\ Lead' = Lead /\ Team' = Team /\ MainSize' = MainSize
      /\ \A t : BodySize(t)' = BodySize(t)
  BY <1>1, Rigid
<1>3. /\ MainSize \in Nat /\ MainSize > Lead + 2 * Team + 2
      /\ Lead \in {0, 1} /\ Team \in 1 .. 3
      /\ \A t \in 1 .. Team : BodySize(t) \in 1 .. 6
      /\ \A t \in 1 .. Team : Over(t) <=> at[t] > BodySize(t)
      /\ Over(0) <=> at[0] > MainSize
  BY OverIs
<1>4. at \in [0 .. 5 -> Nat] /\ at[0] >= 1 /\ at[0] <= MainSize + 1
  BY DEF UsualTypes
<1>5. ASSUME Advances, at[0] <= MainSize, failed' \subseteq 1 .. Team,
             joinable' \subseteq 1 .. Team
      PROVE  /\ UsualTypes' /\ at'[0] = at[0] + 1 /\ \A t \in 1 .. 5 : at'[t] = at[t]
             /\ Endings'
  <2>1. /\ at' \in [0 .. 5 -> Nat] /\ at'[0] = at[0] + 1
        /\ \A t \in 1 .. 5 : at'[t] = at[t]
    BY <1>4, <1>5 DEF Advances
  <2>2. UsualTypes'
    BY <1>1, <1>2, <1>3, <1>4, <1>5, <2>1 DEF UsualTypes
  <2>3. Endings'
    BY <1>1, <1>5 DEF Endings, Advances
  <2>. QED  BY <2>1, <2>2, <2>3
<1>6. failed \subseteq 1 .. Team /\ joinable \subseteq 1 .. Team
  BY DEF UsualTypes
<1>7. ASSUME NEW k \in 1 .. Team, Created(k)
      PROVE  UsualControl'
  <2>1. /\ at' \in [0 .. 5 -> Nat] /\ at'[0] = at[0] + 1 /\ at'[k] = 1
        /\ \A t \in 1 .. 5 : t # k => at'[t] = at[t]
        /\ joinable' = joinable \cup {k} /\ failed' = failed /\ at[0] = Lead + k
        /\ UNCHANGED <<outcome, status>>
    BY <1>3, <1>4, <1>7 DEF Created
  <2>2. UsualTypes'
    <3>1. at'[0] >= 1 /\ at'[0] <= MainSize + 1
      BY <1>3, <2>1
    <3>2. joinable' \subseteq 1 .. Team /\ failed' \subseteq 1 .. Team
      BY <1>6, <2>1
    <3>3. \A t \in 1 .. Team : at'[t] <= BodySize(t) + 1
      BY <1>3, <2>1 DEF UsualTypes
    <3>. QED  BY <1>1, <1>2, <2>1, <3>1, <3>2, <3>3 DEF UsualTypes
  <2>3. Started'
    <3>1. ASSUME NEW t \in 1 .. 5, at'[t] > 0
          PROVE  t <= Team /\ at'[0] > Lead + t
      BY <1>3, <1>4, <2>1, <3>1 DEF Started
    <3>2. ASSUME NEW t \in 1 .. Team, at'[0] > Lead + t
          PROVE  t \in failed \/ at'[t] > 0
      BY <1>3, <1>4, <2>1, <3>2 DEF Started
    <3>3. ~ (at'[0] > Lead + Team + 1)
      BY <1>3, <2>1
    <3>. QED  BY <1>2, <2>1, <3>1, <3>2, <3>3 DEF Started
  <2>4. Joined'
    <3>1. \A t \in 1 .. Team : ~ (at'[0] > Lead + Team + 1 + t)
      BY <1>3, <2>1
    <3>. QED  BY <1>2, <3>1 DEF Joined
  <2>5. Endings'
    BY <1>1, <2>1 DEF Endings
  <2>. QED  BY <2>2, <2>3, <2>4, <2>5
<1>8. ASSUME NEW k \in 1 .. Team, Refused(k)
      PROVE  UsualControl'
  <2>1. Advances /\ failed' = failed \cup {k} /\ joinable' = joinable /\ at[0] = Lead + k
    BY <1>8 DEF Refused
  <2>2. /\ UsualTypes' /\ at'[0] = at[0] + 1 /\ \A t \in 1 .. 5 : at'[t] = at[t]
        /\ Endings'
    <3>1. failed' \subseteq 1 .. Team /\ joinable' \subseteq 1 .. Team /\ at[0] <= MainSize
      BY <1>3, <1>6, <2>1
    <3>. QED  BY <1>5, <2>1, <3>1
  <2>3. Started'
    <3>1. ASSUME NEW t \in 1 .. 5, at'[t] > 0
          PROVE  t <= Team /\ at'[0] > Lead + t
      BY <1>3, <1>4, <2>1, <2>2, <3>1 DEF Started
    <3>2. ASSUME NEW t \in 1 .. Team, at'[0] > Lead + t
          PROVE  t \in failed' \/ at'[t] > 0
      BY <1>3, <1>4, <2>1, <2>2, <3>2 DEF Started
    <3>3. ~ (at'[0] > Lead + Team + 1)
      BY <1>3, <2>1, <2>2
    <3>. QED  BY <1>2, <2>1, <3>1, <3>2, <3>3 DEF Started
  <2>4. Joined'
    <3>1. \A t \in 1 .. Team : ~ (at'[0] > Lead + Team + 1 + t)
      BY <1>3, <2>1, <2>2
    <3>. QED  BY <1>2, <3>1 DEF Joined
  <2>. QED  BY <2>2, <2>3, <2>4
<1>9. ASSUME NEW k \in 1 .. Team, Waited(k)
      PROVE  UsualControl'
  <2>1. /\ Advances /\ failed' = failed /\ joinable' = joinable \ {k}
        /\ at[0] = Lead + Team + 1 + k /\ (Way(program.name) = "join" => at[k] > BodySize(k))
    BY <1>3, <1>9 DEF Waited
  <2>2. /\ UsualTypes' /\ at'[0] = at[0] + 1 /\ \A t \in 1 .. 5 : at'[t] = at[t]
        /\ Endings'
    <3>1. failed' \subseteq 1 .. Team /\ joinable' \subseteq 1 .. Team /\ at[0] <= MainSize
      BY <1>3, <1>6, <2>1
    <3>. QED  BY <1>5, <2>1, <3>1
  <2>3. Started'
    <3>1. ASSUME NEW t \in 1 .. 5, at'[t] > 0
          PROVE  t <= Team /\ at'[0] > Lead + t
      BY <1>3, <1>4, <2>1, <2>2, <3>1 DEF Started
    <3>2. ASSUME NEW t \in 1 .. Team, at'[0] > Lead + t
          PROVE  t \in failed' \/ at'[t] > 0
      BY <1>3, <1>4, <2>1, <2>2, <3>2 DEF Started
    <3>3. failed' = {}
      BY <1>3, <2>1 DEF Started
    <3>. QED  BY <1>2, <2>1, <3>1, <3>2, <3>3 DEF Started
  <2>4. Joined'
    <3>1. ASSUME NEW t \in 1 .. Team, at'[0] > Lead + Team + 1 + t
          PROVE  t \notin joinable' /\ (Way(program.name) = "join" => at'[t] > BodySize(t))
      BY <1>3, <1>4, <2>1, <2>2, <3>1 DEF Joined
    <3>. QED  BY <1>1, <1>2, <3>1 DEF Joined
  <2>. QED  BY <2>2, <2>3, <2>4
<1>10. ASSUME Advances, failed' = failed, joinable' = joinable, at[0] <= MainSize,
              \/ at[0] \in {Lead + Team + 1, Lead + 2 * Team + 2} /\ failed = {}
              \/ at[0] > Lead + 2 * Team + 2
              \/ at[0] = 1 /\ Lead = 1
       PROVE  UsualControl'
  <2>1. /\ UsualTypes' /\ at'[0] = at[0] + 1 /\ \A t \in 1 .. 5 : at'[t] = at[t]
        /\ Endings'
    BY <1>5, <1>6, <1>10
  <2>2. Started'
    <3>1. ASSUME NEW t \in 1 .. 5, at'[t] > 0
          PROVE  t <= Team /\ at'[0] > Lead + t
      BY <1>3, <1>4, <2>1, <3>1 DEF Started
    <3>2. ASSUME NEW t \in 1 .. Team, at'[0] > Lead + t
          PROVE  t \in failed' \/ at'[t] > 0
      BY <1>3, <1>4, <1>10, <2>1, <3>2 DEF Started
    <3>3. at'[0] > Lead + Team + 1 => failed' = {}
      BY <1>3, <1>4, <1>10, <2>1 DEF Started
    <3>. QED  BY <1>2, <3>1, <3>2, <3>3 DEF Started
  <2>3. Joined'
    <3>1. ASSUME NEW t \in 1 .. Team, at'[0] > Lead + Team + 1 + t
          PROVE  t \notin joinable' /\ (Way(program.name) = "join" => at'[t] > BodySize(t))
      <4>1. at[0] > Lead + Team + 1 + t
        BY <1>3, <1>4, <1>10, <2>1, <3>1
      <4>. QED  BY <1>3, <1>10, <2>1, <4>1 DEF Joined
    <3>. QED  BY <1>1, <1>2, <3>1 DEF Joined
  <2>. QED  BY <2>1, <2>2, <2>3
<1>11. program.name \in Locked => Lead = 1 /\ Team = 3 /\ MainSize = 12
  <2>1. program.name \in Locked => Tails(program.main, program.name)
    BY Sizes0 DEF MainIs
  <2>. QED  BY <2>1 DEF Lead, Pre, Team, Num, Locked, MainSize, Tails
<1>12. CASE Passed
  <2>1. Advances /\ failed' = failed /\ joinable' = joinable
    BY <1>12 DEF Passed
  <2>2. \/ at[0] \in {Lead + Team + 1, Lead + 2 * Team + 2} /\ failed = {}
        \/ at[0] = 10 /\ program.name \in Locked
        \/ at[0] = MainSize
    BY <1>12 DEF Passed, MainSize
  <2>3. /\ at[0] <= MainSize
        /\ \/ at[0] \in {Lead + Team + 1, Lead + 2 * Team + 2} /\ failed = {}
           \/ at[0] > Lead + 2 * Team + 2
    BY <1>3, <1>4, <1>11, <2>2
  <2>. QED  BY <1>10, <2>1, <2>3
<1>13. CASE Opened
  <2>1. Advances /\ failed' = failed /\ joinable' = joinable /\ at[0] = 1 /\ Lead = 1
    BY <1>11, <1>13 DEF Opened
  <2>2. at[0] <= MainSize
    BY <1>3, <2>1
  <2>. QED  BY <1>10, <2>1, <2>2
<1>14. CASE Reported
  <2>1. /\ Advances /\ failed' = failed /\ joinable' = joinable /\ at[0] = ReportAt
        /\ program.name \in Counting
    BY <1>14 DEF Reported
  <2>2. program.name \in {"race_to_data", "race_to_data_s"} =>
          Lead = 0 /\ Team = 2 /\ MainSize = 8
    <3>1. Tails(program.main, program.name)
      BY Sizes0 DEF MainIs
    <3>. QED  BY <3>1 DEF Lead, Pre, Team, Num, Locked, MainSize, Tails
  <2>3. at[0] <= MainSize /\ at[0] > Lead + 2 * Team + 2
    BY <1>11, <2>1, <2>2 DEF ReportAt, Counting, Locked
  <2>. QED  BY <1>10, <2>1, <2>3
<1>15. ASSUME UNCHANGED <<at, failed, joinable>>
       PROVE  UsualTypes' /\ Started' /\ Joined'
  BY <1>1, <1>2, <1>15 DEF UsualTypes, Started, Joined
<1>16. CASE Stopped
  <2>1. Endings'
    BY <1>1, <1>16 DEF Endings, Stopped
  <2>. QED  BY <1>15, <1>16, <2>1 DEF Stopped
<1>17. CASE Finished
  <2>1. /\ at[0] >= MainSize /\ AllOver
    <3>1. CASE at[0] = Len(program.main) /\ Way(program.name) = "join"
      <4>1. at[0] >= MainSize /\ \A t \in 1 .. Team : at[0] > Lead + Team + 1 + t
        BY <1>3, <1>4, <3>1 DEF MainSize
      <4>. QED  BY <3>1, <4>1 DEF Joined, AllOver
    <3>2. CASE \A t \in 0 .. 5 : at[t] > 0 => Over(t)
      <4>1. at[0] > MainSize
        BY <1>3, <1>4, <3>2
      <4>2. failed = {}
        BY <1>3, <1>4, <4>1 DEF Started
      <4>3. ASSUME NEW t \in 1 .. Team
            PROVE  at[t] > BodySize(t)
        <5>1. at[t] > 0
          BY <1>3, <1>4, <4>1, <4>2 DEF Started
        <5>. QED  BY <1>3, <3>2, <5>1
      <4>. QED  BY <1>3, <1>4, <4>1, <4>3 DEF AllOver
    <3>. QED  BY <1>17, <3>1, <3>2 DEF Finished
  <2>2. failed = {}
    BY <1>3, <1>4, <2>1 DEF Started
  <2>3. joinable = {}
    <3>1. \A t \in 1 .. Team : at[0] > Lead + Team + 1 + t
      BY <1>3, <1>4, <2>1
    <3>. QED  BY <1>6, <3>1 DEF Joined
  <2>4. Endings'
    <3>1. AllOver'
      BY <1>2, <1>17, <2>1 DEF AllOver, Finished
    <3>. QED  BY <1>1, <1>2, <1>17, <2>1, <2>2, <2>3, <3>1 DEF Endings, Finished
  <2>. QED  BY <1>15, <1>17, <2>4 DEF Finished
<1>18. \/ \E k \in 1 .. Team : Created(k) \/ Refused(k) \/ Waited(k)
       \/ Passed \/ Opened \/ Reported \/ Stopped \/ Finished
  BY <1>1 DEF MainStep
<1>. HIDE DEF UsualControl
<1>. QED  BY <1>7, <1>8, <1>9, <1>12, <1>13, <1>14, <1>16, <1>17, <1>18

\* So does a step of a thread.
LEMMA ControlWorker ==
  ASSUME Usually0, UsualControl, NEW t \in 1 .. Team, Step(t)
  PROVE  /\ UsualControl'
         /\ Ready(t) /\ outcome = "running" /\ at[t] >= 1 /\ at[t] <= BodySize(t)
         /\ at' = [at EXCEPT ![t] = at[t] + 1]
         /\ outcome' # "undefined" => Effects(t)
         /\ outcome' = "undefined" => UNCHANGED <<lock, memory, register, shown>>
         /\ UNCHANGED <<program, runs, status, failed, joinable, reported, found>>
<1>. USE DEF UsualControl
<1>0. at \in [0 .. 5 -> Nat]
  BY DEF UsualTypes
<1>1. /\ Ready(t) /\ Goto(t, at[t] + 1)
      /\ UNCHANGED <<program, runs, status, failed, joinable, reported, found, avars>>
      /\ \/ /\ UNCHANGED <<outcome, stray>> /\ Now(t).object \notin Dead
            /\ Effects(t)
         \/ /\ outcome' = "undefined" /\ stray' = Now(t).object /\ Now(t).object \in Dead
            /\ UNCHANGED <<lock, memory, register, shown>>
  BY <1>0, WorkerMoves0
<1>2. /\ Lead' = Lead /\ Team' = Team /\ MainSize' = MainSize
      /\ \A u : BodySize(u)' = BodySize(u)
  BY <1>1, Rigid
<1>3. /\ MainSize \in Nat /\ MainSize > Lead + 2 * Team + 2
      /\ Lead \in {0, 1} /\ Team \in 1 .. 3
      /\ \A u \in 1 .. Team : BodySize(u) \in 1 .. 6
      /\ Workers = 1 .. Team
  BY OverIs
<1>4. at[t] >= 1 /\ at[t] <= BodySize(t) /\ outcome = "running"
  BY <1>1, WorkerObject DEF Ready
<1>5. /\ at' = [at EXCEPT ![t] = at[t] + 1]
      /\ after' = IF t # 0 /\ at[t] = 1 THEN [after EXCEPT ![t] = Ended] ELSE after
  BY <1>1 DEF Goto
<1>6. /\ at' \in [0 .. 5 -> Nat] /\ at'[t] = at[t] + 1 /\ at'[0] = at[0]
      /\ \A u \in 0 .. 5 : u # t => at'[u] = at[u]
  <2>1. t \in 1 .. 5
    BY <1>3
  <2>. HIDE DEF UsualControl
  <2>. QED  BY <1>0, <1>5, <2>1
<1>14. ASSUME NEW u \in 1 .. 5
       PROVE  /\ at[u] \in Nat /\ at'[u] \in Nat /\ at[u] <= at'[u]
              /\ at'[u] > 0 => at[u] > 0
  <2>1. CASE u = t
    BY <1>0, <1>4, <1>6, <2>1
  <2>2. CASE u # t
    BY <1>0, <1>6, <2>2
  <2>. QED  BY <2>1, <2>2
<1>15. \A u \in 1 .. Team : u \in 1 .. 5 /\ BodySize(u) \in Nat
  BY <1>3
<1>7. after' \in [1 .. 5 -> SUBSET (1 .. Team)]
  <2>1. Ended \subseteq 1 .. Team
    BY <1>3 DEF Ended
  <2>. QED  BY <1>3, <1>5, <2>1 DEF UsualTypes
<1>8. UsualTypes'
  <2>1. ASSUME NEW u \in 1 .. Team
        PROVE  at'[u] <= BodySize(u) + 1
    <3>1. CASE u = t
      BY <1>4, <1>6, <1>14, <1>15, <3>1
    <3>2. CASE u # t
      BY <1>6, <1>15, <3>2 DEF UsualTypes
    <3>. QED  BY <3>1, <3>2
  <2>. QED  BY <1>1, <1>2, <1>6, <1>7, <2>1 DEF UsualTypes
<1>9. Started'
  <2>1. ASSUME NEW u \in 1 .. 5, at'[u] > 0
        PROVE  u <= Team /\ at[0] > Lead + u
    <3>1. at[u] > 0
      BY <1>14, <2>1
    <3>. QED  BY <3>1 DEF Started
  <2>2. ASSUME NEW u \in 1 .. Team, at[0] > Lead + u
        PROVE  u \in failed \/ at'[u] > 0
    <3>1. u \in failed \/ at[u] > 0
      BY <2>2 DEF Started
    <3>. QED  BY <1>14, <1>15, <3>1
  <2>. QED  BY <1>1, <1>2, <1>6, <2>1, <2>2 DEF Started
<1>10. Joined'
  <2>1. ASSUME NEW u \in 1 .. Team, at[0] > Lead + Team + 1 + u, at[u] > BodySize(u)
        PROVE  at'[u] > BodySize(u)
    BY <1>14, <1>15, <2>1
  <2>. QED  BY <1>1, <1>2, <1>6, <2>1 DEF Joined
<1>11. Endings'
  <2>1. outcome' \in {"running", "undefined"}
    BY <1>1, <1>4
  <2>2. outcome' = "undefined" => program.name = "race_corrupt_memory" /\ stray' = "main"
    <3>1. CASE Now(t).object \in Dead
      BY <1>1, <1>4, <3>1, OnlyCorrupts
    <3>2. CASE Now(t).object \notin Dead
      BY <1>1, <1>4, <3>2
    <3>. QED  BY <3>1, <3>2
  <2>3. stray' \in {"none", "main"}
    <3>1. CASE Now(t).object \in Dead
      BY <1>1, <3>1, OnlyCorrupts
    <3>2. CASE Now(t).object \notin Dead
      BY <1>1, <3>2 DEF Endings
    <3>. QED  BY <3>1, <3>2
  <2>. QED  BY <1>1, <2>1, <2>2, <2>3 DEF Endings
<1>12. outcome' # "undefined" => Effects(t)
  BY <1>1
<1>13. outcome' = "undefined" => UNCHANGED <<lock, memory, register, shown>>
  BY <1>1, <1>4
<1>. QED  BY <1>1, <1>4, <1>5, <1>8, <1>9, <1>10, <1>11, <1>12, <1>13

\* The start of a process, the first or a later one.
Fresh ==
  /\ at = [t \in 0 .. 5 |-> IF t = 0 THEN 1 ELSE 0]
  /\ after = [t \in 1 .. 5 |-> {}]
  /\ failed = {} /\ joinable = {} /\ reported = -1 /\ found = Absent
  /\ register = [t \in 1 .. 5 |-> 0] /\ shown = <<>> /\ memory.shared_var = 0
  /\ outcome = "running" /\ status = 0

\* And a process that starts has it.
LEMMA FreshControl ==
  ASSUME Usually0, Fresh, runs \in 1 .. MaxRuns, stray \in {"none", "main"}
  PROVE  UsualControl
<1>1. /\ MainSize \in Nat /\ MainSize > Lead + 2 * Team + 2
      /\ Lead \in {0, 1} /\ Team \in 1 .. 3
      /\ \A u \in 1 .. Team : BodySize(u) \in 1 .. 6
  BY OverIs
<1>2. at \in [0 .. 5 -> Nat] /\ at[0] = 1 /\ \A t \in 1 .. 5 : at[t] = 0
  BY DEF Fresh
<1>3. UsualTypes
  <2>1. \A t \in 1 .. Team : at[t] <= BodySize(t) + 1
    BY <1>1, <1>2
  <2>. QED  BY <1>1, <1>2, <2>1 DEF UsualTypes, Fresh
<1>4. Started
  BY <1>1, <1>2 DEF Started, Fresh
<1>5. Joined
  BY <1>1, <1>2 DEF Joined
<1>6. Endings
  BY DEF Endings, Fresh
<1>. QED  BY <1>3, <1>4, <1>5, <1>6 DEF UsualControl

\* The initial states, part by part.
LEMMA InitIs ==
  ASSUME ProgramsInit
  PROVE  /\ ProgramIs /\ Fresh /\ lock = Absent /\ runs = 1 /\ stray = "none"
         /\ memory = [shared_var |-> 0, shared_int |-> "null", block |-> "null", len |-> 0,
                      cells |-> [i \in 0 .. Length - 1 |-> "garbage"]]
<1>1. ProgramIs
  BY DEF ProgramsInit, ProgramIs
<1>2. Threads = 1 .. 5
  BY ThreadProgramsAssumption
<1>3. Fresh
  BY <1>2 DEF ProgramsInit, Fresh
<1>. QED  BY <1>1, <1>3 DEF ProgramsInit

\* A process that is started again.
LEMMA RestartIs ==
  ASSUME Restart
  PROVE  /\ program.name = "race_to_data_sem" /\ program' = program
         /\ runs < MaxRuns /\ runs' = runs + 1 /\ outcome # "running"
         /\ memory' = [memory EXCEPT !.shared_var = 0]
         /\ lock' = lock /\ stray' = stray
         /\ "shared_var" \in DOMAIN memory => Fresh'
<1>1. Threads = 1 .. 5
  BY ThreadProgramsAssumption
<1>2. ASSUME "shared_var" \in DOMAIN memory
      PROVE  Fresh'
  <2>1. memory'.shared_var = 0
    BY <1>2 DEF Restart
  <2>. QED  BY <1>1, <2>1 DEF Restart, Fresh
<1>. QED  BY <1>2 DEF Restart

\* The steps there are.
LEMMA NextIs ==
  ASSUME Usually0, UsualControl, ProgramsNext
  PROVE  \/ Main
         \/ \E t \in 1 .. Team : Step(t)
         \/ Kill
         \/ Restart
<1>1. ~ Step(0) /\ Workers = 1 .. Team
  BY NoStep0, OverIs DEF UsualControl, UsualTypes, Started
<1>. QED  BY <1>1 DEF ProgramsNext

-----------------------------------------------------------------------------
(***************************************************************************)
(* What the usual programs count.  Each thread adds its own number.        *)
(***************************************************************************)
CountAt ==
  IF program.name \in Locked THEN 3 ELSE IF program.name = "race_to_data" THEN 1 ELSE 2

Share(t) == IF at[t] > CountAt THEN t ELSE 0
Total == Share(1) + Share(2) + Share(3)

DataTypes ==
  /\ memory \in [shared_var : 0 .. 6, shared_int : {"null"}, block : {"null"}, len : {0},
                 cells : [0 .. Length - 1 -> {"garbage"}]]
  /\ register \in [1 .. 5 -> 0 .. 6]

ReportIs ==
  IF program.name \in Counting /\ at[0] > ReportAt
    THEN reported = IF program.name = "race_to_data_mutex" THEN 0 ELSE memory.shared_var
    ELSE reported = -1

Lockless ==
  program.name \notin Locked => lock = Absent /\ found = Absent

AtomicSum == program.name = "race_to_data" => memory.shared_var = Total

\* A thread that has loaded and not stored has loaded 0 or what the other added.
TornSum ==
  program.name = "race_to_data_s" =>
    /\ at[1] <= 2 /\ at[2] <= 2 => memory.shared_var = 0
    /\ at[1] > 2 /\ at[2] <= 2 => memory.shared_var = 1
    /\ at[1] <= 2 /\ at[2] > 2 => memory.shared_var = 2
    /\ at[1] > 2 /\ at[2] > 2 => memory.shared_var \in {1, 2, 3}
    /\ at[1] = 2 => register[1] = 0 \/ (register[1] = 2 /\ at[2] > 2)
    /\ at[2] = 2 => register[2] = 0 \/ (register[2] = 1 /\ at[1] > 2)

Inside(t) == at[t] >= 2 /\ at[t] <= 6

\* The lock is free, or one thread is inside.
LockIs ==
  /\ lock \in {Absent, 0, 1} /\ found \in {Absent, 0, 1}
  /\ found = Absent => at[0] = 1 /\ shown = <<>> /\ (runs = 1 => lock = Absent)
  /\ found # Absent => at[0] > 1
  /\ found = 1 =>
       \/ lock = 1 /\ \A t \in 1 .. 3 : ~ Inside(t)
       \/ lock = 0 /\ \E t \in 1 .. 3 : Inside(t) /\ \A u \in 1 .. 3 \ {t} : ~ Inside(u)
  /\ found = 0 => lock = 0 /\ runs > 1 /\ shown = <<>> /\ \A t \in 1 .. 3 : at[t] <= 1

\* Inside, a loaded sum is the sum, and one not shown yet is larger than any shown.
SumIs ==
  /\ memory.shared_var = Total
  /\ \A t \in 1 .. 3 : at[t] \in {3, 5} => register[t] = memory.shared_var

ShownIs ==
  /\ shown \in Seq([thread : 1 .. 5, sum : 0 .. 6])
  /\ \A i \in 1 .. Len(shown) : shown[i].sum <= memory.shared_var
  /\ \A t \in 1 .. 3 : at[t] \in {4, 5} =>
       \A i \in 1 .. Len(shown) : shown[i].sum < memory.shared_var
  /\ \A i, j \in 1 .. Len(shown) : i < j => shown[i].sum < shown[j].sum

LockedData == program.name \in Locked => LockIs /\ SumIs /\ ShownIs

UsualData ==
  DataTypes /\ ReportIs /\ Lockless /\ AtomicSum /\ TornSum /\ LockedData

\* A step of a thread of a program that does not count.
LEMMA PlainStep ==
  ASSUME Usually0, UsualTypes, program.name \notin Counting, NEW t \in 1 .. Team, Ready(t),
         Effects(t)
  PROVE  UNCHANGED <<lock, memory, register, shown>>
<1>. DEFINE b == program.body[t]  i == at[t]  size == Len(b)
<1>1. i \in 1 .. size /\ Now(t) = b[i] /\ BodyIs(b, t, program.name)
  BY WorkerNow0 DEF UsualTypes
<1>2. program.name \in {"join_thread", "detach_thread", "race", "race_corrupt_memory"}
  BY DEF Usually0, Usual
<1>. HIDE DEF b, i, size
<1>3. size = 1 /\ (b[1] = Op("say", 0, "static") \/ b[1] = Op("say", 0, "main"))
  BY <1>1, <1>2 DEF BodyIs, size
<1>4. i = 1
  BY <1>1, <1>3
<1>5. Now(t).name = "say"
  BY <1>1, <1>3, <1>4, OpIs
<1>. QED  BY <1>5 DEF Effects

\* A step of a thread of race_to_data.c.
LEMMA RaceStep ==
  ASSUME Usually0, UsualTypes, program.name = "race_to_data", NEW t \in 1 .. Team, Ready(t),
         Effects(t)
  PROVE  /\ at[t] \in 1 .. 3 /\ lock' = lock
         /\ at[t] = 1 => /\ memory' = [memory EXCEPT !.shared_var = @ + t]
                         /\ UNCHANGED register
         /\ at[t] = 2 => /\ register' = [register EXCEPT ![t] = memory.shared_var]
                         /\ UNCHANGED memory
         /\ at[t] = 3 => UNCHANGED <<memory, register>>
<1>. DEFINE b == program.body[t]  i == at[t]  size == Len(b)
<1>1. i \in 1 .. size /\ Now(t) = b[i] /\ BodyIs(b, t, program.name)
  BY WorkerNow0 DEF UsualTypes
<1>. HIDE DEF b, i, size
<1>2. /\ size = 3 /\ b[1] = Op("add", t, "main")
      /\ b[2] = Op("load", 0, "main") /\ b[3] = Op("show", 0, "static")
  BY <1>1 DEF BodyIs, size, Static
<1>3. i \in 1 .. 3
  BY <1>1, <1>2
<1>4. /\ i = 1 => Now(t).name = "add" /\ Now(t).arg = t
      /\ i = 2 => Now(t).name = "load"
      /\ i = 3 => Now(t).name = "show"
  BY <1>1, <1>2, OpIs
<1>5. i = 1 \/ i = 2 \/ i = 3
  BY <1>3
<1>6. lock' = lock
  BY <1>4, <1>5 DEF Effects
<1>7. i = 1 => memory' = [memory EXCEPT !.shared_var = @ + t] /\ UNCHANGED register
  BY <1>4 DEF Effects
<1>8. i = 2 => register' = [register EXCEPT ![t] = memory.shared_var] /\ UNCHANGED memory
  BY <1>4 DEF Effects
<1>9. i = 3 => UNCHANGED <<memory, register>>
  BY <1>4 DEF Effects
<1>. QED  BY <1>3, <1>6, <1>7, <1>8, <1>9 DEF i

\* A step of a thread of race_to_data.s.
LEMMA TornStep ==
  ASSUME Usually0, UsualTypes, program.name = "race_to_data_s", NEW t \in 1 .. Team, Ready(t),
         Effects(t)
  PROVE  /\ at[t] \in 1 .. 4 /\ lock' = lock
         /\ at[t] \in {1, 3} => /\ register' = [register EXCEPT ![t] = memory.shared_var]
                                /\ UNCHANGED memory
         /\ at[t] = 2 => /\ memory' = [memory EXCEPT !.shared_var = register[t] + t]
                         /\ UNCHANGED register
         /\ at[t] = 4 => UNCHANGED <<memory, register>>
<1>. DEFINE b == program.body[t]  i == at[t]  size == Len(b)
<1>1. i \in 1 .. size /\ Now(t) = b[i] /\ BodyIs(b, t, program.name)
  BY WorkerNow0 DEF UsualTypes
<1>. HIDE DEF b, i, size
<1>2. /\ size = 4 /\ b[1] = Op("load", t, "main") /\ b[2] = Op("store", t, "main")
      /\ b[3] = Op("load", 0, "main") /\ b[4] = Op("show", 0, "static")
  BY <1>1 DEF BodyIs, size, Static
<1>3. i \in 1 .. 4
  BY <1>1, <1>2
<1>4. /\ i = 1 \/ i = 3 => Now(t).name = "load"
      /\ i = 2 => Now(t).name = "store" /\ Now(t).arg = t
      /\ i = 4 => Now(t).name = "show"
  BY <1>1, <1>2, OpIs
<1>5. i = 1 \/ i = 2 \/ i = 3 \/ i = 4
  BY <1>3
<1>6. lock' = lock
  BY <1>4, <1>5 DEF Effects
<1>7. i = 2 => memory' = [memory EXCEPT !.shared_var = register[t] + t] /\ UNCHANGED register
  BY <1>4 DEF Effects
<1>8. i = 1 \/ i = 3 => /\ register' = [register EXCEPT ![t] = memory.shared_var]
                        /\ UNCHANGED memory
  BY <1>4 DEF Effects
<1>9. i = 4 => UNCHANGED <<memory, register>>
  BY <1>4 DEF Effects
<1>. QED  BY <1>3, <1>6, <1>7, <1>8, <1>9 DEF i

\* A step of a thread of a program with a lock.
LEMMA LockedStep ==
  ASSUME Usually0, UsualTypes, program.name \in Locked, NEW t \in 1 .. Team, Ready(t),
         Effects(t)
  PROVE  /\ at[t] \in 1 .. 6
         /\ at[t] = 1 => lock > 0 /\ lock' = lock - 1 /\ UNCHANGED <<memory, register, shown>>
         /\ at[t] \in {2, 4} => /\ register' = [register EXCEPT ![t] = memory.shared_var]
                                /\ UNCHANGED <<lock, memory, shown>>
         /\ at[t] = 3 => /\ memory' = [memory EXCEPT !.shared_var = register[t] + t]
                         /\ UNCHANGED <<lock, register, shown>>
         /\ at[t] = 5 => /\ shown' = Append(shown, [thread |-> t, sum |-> register[t]])
                         /\ UNCHANGED <<lock, memory, register>>
         /\ at[t] = 6 => lock' = lock + 1 /\ UNCHANGED <<memory, register, shown>>
<1>. DEFINE b == program.body[t]  i == at[t]  size == Len(b)
<1>1. i \in 1 .. size /\ Now(t) = b[i] /\ BodyIs(b, t, program.name)
  BY WorkerNow0 DEF UsualTypes
<1>. HIDE DEF b, i, size
<1>2. /\ size = 6 /\ b[1] = Op("lock", 0, "lock")
      /\ b[2] = Op("load", t, "main") /\ b[3] = Op("store", t, "static")
      /\ b[4] = Op("load", 0, "static") /\ b[5] = Op("show", 0, "static")
      /\ b[6] = Op("unlock", 0, "lock")
  BY <1>1 DEF BodyIs, size, Static
<1>3. i \in 1 .. 6
  BY <1>1, <1>2
<1>4. /\ i = 1 => Now(t).name = "lock"
      /\ i = 2 \/ i = 4 => Now(t).name = "load"
      /\ i = 3 => Now(t).name = "store" /\ Now(t).arg = t
      /\ i = 5 => Now(t).name = "show"
      /\ i = 6 => Now(t).name = "unlock"
  BY <1>1, <1>2, OpIs
<1>5. i = 1 => lock > 0 /\ lock' = lock - 1 /\ UNCHANGED <<memory, register, shown>>
  BY <1>4 DEF Effects
<1>6. i = 2 \/ i = 4 => /\ register' = [register EXCEPT ![t] = memory.shared_var]
                        /\ UNCHANGED <<lock, memory, shown>>
  BY <1>4 DEF Effects
<1>7. i = 3 => /\ memory' = [memory EXCEPT !.shared_var = register[t] + t]
               /\ UNCHANGED <<lock, register, shown>>
  BY <1>4 DEF Effects
<1>8. i = 5 => /\ shown' = Append(shown, [thread |-> t, sum |-> register[t]])
               /\ UNCHANGED <<lock, memory, register>>
  BY <1>4 DEF Effects
<1>9. i = 6 => lock' = lock + 1 /\ UNCHANGED <<memory, register, shown>>
  BY <1>4 DEF Effects
<1>. QED  BY <1>3, <1>5, <1>6, <1>7, <1>8, <1>9 DEF i

\* The sizes of the programs that count.
LEMMA CountingSizes ==
  ASSUME Usually0, program.name \in Counting
  PROVE  /\ Way(program.name) = "join"
         /\ ReportAt > Lead + 2 * Team + 2 /\ ReportAt < MainSize
         /\ program.name \in Locked => Lead = 1 /\ Team = 3 /\ ReportAt = 11 /\ MainSize = 12
         /\ program.name \notin Locked => Lead = 0 /\ Team = 2 /\ ReportAt = 7 /\ MainSize = 8
<1>1. Tails(program.main, program.name)
  BY Sizes0 DEF MainIs
<1>2. Way(program.name) = "join"
  BY DEF Way, Counting, Locked
<1>3. CASE program.name \in Locked
  <2>1. Lead = 1 /\ Team = 3 /\ MainSize = 12
    BY <1>1, <1>3 DEF Lead, Pre, Team, Num, Locked, MainSize, Tails
  <2>2. ReportAt = 11
    BY <1>3 DEF ReportAt
  <2>. QED  BY <1>2, <1>3, <2>1, <2>2
<1>4. CASE program.name \notin Locked
  <2>1. Lead = 0 /\ Team = 2 /\ MainSize = 8
    <3>1. program.name = "race_to_data" \/ program.name = "race_to_data_s"
      BY <1>4 DEF Counting
    <3>. QED  BY <1>1, <1>4, <3>1 DEF Lead, Pre, Team, Num, Locked, MainSize, Tails
  <2>2. ReportAt = 7
    BY <1>4 DEF ReportAt
  <2>. QED  BY <1>2, <1>4, <2>1, <2>2
<1>. QED  BY <1>3, <1>4

\* What a step of main() leaves of the places and the data.
LEMMA MainPlaces ==
  ASSUME Usually0, UsualControl, Main
  PROVE  /\ UNCHANGED <<program, runs, memory, register, shown>>
         /\ UsualControl' /\ at' \in [0 .. 5 -> Nat]
         /\ \A t \in 1 .. 5 : at'[t] = at[t] \/ (at[t] = 0 /\ at'[t] = 1)
         /\ at'[0] = at[0] \/ at'[0] = at[0] + 1
         /\ Opened \/ UNCHANGED <<lock, found>>
         /\ \/ Reported
            \/ /\ reported' = reported
               /\ program.name \in Counting => at'[0] = at[0] \/ at[0] # ReportAt
<1>. USE DEF UsualControl
<1>1. /\ outcome = "running" /\ MainStep
      /\ UNCHANGED <<program, runs, stray, after, memory, register, shown, avars>>
  BY MainMoves0 DEF UsualTypes, Started
<1>2. UsualControl'
  BY ControlMain
<1>3. at' \in [0 .. 5 -> Nat]
  BY <1>2 DEF UsualTypes
<1>4. /\ MainSize \in Nat /\ MainSize > Lead + 2 * Team + 2
      /\ Lead \in {0, 1} /\ Team \in 1 .. 3
      /\ \A t \in 1 .. Team : BodySize(t) \in 1 .. 6
      /\ \A t \in 1 .. Team : Over(t) <=> at[t] > BodySize(t)
      /\ Over(0) <=> at[0] > MainSize
  BY OverIs
<1>5. at \in [0 .. 5 -> Nat]
  BY DEF UsualTypes
<1>. DEFINE Goal ==
         /\ \A t \in 1 .. 5 : at'[t] = at[t] \/ (at[t] = 0 /\ at'[t] = 1)
         /\ at'[0] = at[0] \/ at'[0] = at[0] + 1
         /\ Opened \/ UNCHANGED <<lock, found>>
         /\ \/ Reported
            \/ /\ reported' = reported
               /\ program.name \in Counting => at'[0] = at[0] \/ at[0] # ReportAt
<1>6. Advances => at'[0] = at[0] + 1 /\ \A t \in 1 .. 5 : at'[t] = at[t]
  BY <1>5 DEF Advances
<1>7. program.name \in Counting =>
        /\ ReportAt > Lead + 2 * Team + 2 /\ ReportAt < MainSize
        /\ program.name \in Locked => ReportAt = 11
        /\ ReportAt \in Nat
  BY CountingSizes DEF ReportAt
<1>8. ASSUME NEW k \in 1 .. Team, Created(k)
      PROVE  Goal
  <2>1. /\ at'[0] = at[0] + 1 /\ at'[k] = 1 /\ \A t \in 1 .. 5 : t # k => at'[t] = at[t]
    BY <1>4, <1>5, <1>8 DEF Created
  <2>2. at[k] = 0
    <3>1. at[0] = Lead + k
      BY <1>8 DEF Created
    <3>2. k \in 1 .. 5 /\ ~ (at[0] > Lead + k)
      BY <1>4, <3>1
    <3>3. ~ (at[k] > 0)
      BY <3>2 DEF Started
    <3>. QED  BY <1>5, <3>2, <3>3
  <2>3. reported' = reported /\ UNCHANGED <<lock, found>>
    BY <1>8 DEF Created
  <2>4. at[0] <= Lead + 2 * Team + 2
    BY <1>4, <1>8 DEF Created
  <2>5. program.name \in Counting => at[0] # ReportAt
    BY <1>4, <1>5, <1>7, <2>4
  <2>. QED  BY <2>1, <2>2, <2>3, <2>5
<1>9. ASSUME NEW k \in 1 .. Team, Refused(k) \/ Waited(k)
      PROVE  Goal
  <2>1. Advances /\ reported' = reported /\ UNCHANGED <<lock, found>>
    BY <1>9 DEF Refused, Waited
  <2>2. at[0] <= Lead + 2 * Team + 2
    BY <1>4, <1>9 DEF Refused, Waited
  <2>3. program.name \in Counting => at[0] # ReportAt
    BY <1>4, <1>5, <1>7, <2>2
  <2>. QED  BY <1>6, <2>1, <2>3
<1>10. ASSUME Passed
       PROVE  Goal
  <2>1. Advances /\ reported' = reported /\ UNCHANGED <<lock, found>>
    BY <1>10 DEF Passed
  <2>2. \/ at[0] <= Lead + 2 * Team + 2
        \/ at[0] = 10 /\ program.name \in Locked
        \/ at[0] = MainSize
    BY <1>4, <1>10 DEF Passed, MainSize
  <2>3. program.name \in Counting => at[0] # ReportAt
    BY <1>4, <1>5, <1>7, <2>2
  <2>. QED  BY <1>6, <2>1, <2>3
<1>11. ASSUME Stopped \/ Finished
       PROVE  Goal
  <2>1. UNCHANGED <<at, reported, found, lock>>
    BY <1>11 DEF Stopped, Finished
  <2>. QED  BY <2>1
<1>12. ASSUME Reported
       PROVE  Goal
  <2>1. Advances /\ UNCHANGED <<found, lock>>
    BY <1>12 DEF Reported
  <2>. QED  BY <1>6, <1>12, <2>1
<1>13. ASSUME Opened
       PROVE  Goal
  <2>1. Advances /\ reported' = reported /\ at[0] = 1
    BY <1>13 DEF Opened
  <2>2. program.name \in Counting => at[0] # ReportAt
    BY <1>4, <1>7, <2>1
  <2>. QED  BY <1>6, <1>13, <2>1, <2>2
<1>14. Goal
  BY <1>1, <1>8, <1>9, <1>10, <1>11, <1>12, <1>13 DEF MainStep
<1>. HIDE DEF Goal
<1>15. UNCHANGED <<program, runs, memory, register, shown>>
  BY <1>1
<1>. QED  BY <1>2, <1>3, <1>14, <1>15 DEF Goal

\* A step of main() keeps the data.
LEMMA DataMain ==
  ASSUME Usually0, UsualControl, UsualData, Main
  PROVE  UsualData'
<1>1. /\ UNCHANGED <<program, runs, memory, register, shown>>
      /\ UsualControl' /\ at' \in [0 .. 5 -> Nat]
      /\ \A t \in 1 .. 5 : at'[t] = at[t] \/ (at[t] = 0 /\ at'[t] = 1)
      /\ at'[0] = at[0] \/ at'[0] = at[0] + 1
      /\ Opened \/ UNCHANGED <<lock, found>>
      /\ \/ Reported
         \/ /\ reported' = reported
            /\ program.name \in Counting => at'[0] = at[0] \/ at[0] # ReportAt
  BY MainPlaces
<1>2. at \in [0 .. 5 -> Nat] /\ at[0] >= 1
  BY DEF UsualControl, UsualTypes
<1>3. DataTypes'
  BY <1>1 DEF UsualData, DataTypes
<1>4. ReportAt' = ReportAt /\ CountAt' = CountAt /\ CountAt \in 1 .. 3
  BY <1>1 DEF ReportAt, CountAt
<1>5. ReportIs'
  <2>1. CASE Reported
    <3>1. /\ program.name \in Counting /\ at[0] = ReportAt /\ Advances
          /\ reported' = IF program.name = "race_to_data_mutex" THEN 0
                         ELSE memory.shared_var
      BY <2>1 DEF Reported
    <3>2. at'[0] > ReportAt
      BY <1>2, <3>1 DEF Advances
    <3>. QED  BY <1>1, <1>4, <3>1, <3>2 DEF ReportIs
  <2>2. CASE /\ reported' = reported
             /\ program.name \in Counting => at'[0] = at[0] \/ at[0] # ReportAt
    <3>1. ReportAt \in Nat
      BY DEF ReportAt
    <3>2. program.name \in Counting => (at'[0] > ReportAt <=> at[0] > ReportAt)
      BY <1>1, <1>2, <2>2, <3>1
    <3>. QED  BY <1>1, <1>4, <2>2, <3>2 DEF UsualData, ReportIs
  <2>. QED  BY <1>1, <2>1, <2>2
<1>6. Lockless'
  BY <1>1 DEF UsualData, Lockless, Opened
<1>7. \A t \in 1 .. 3 : /\ at[t] \in Nat /\ at'[t] \in Nat
                        /\ at'[t] = at[t] \/ (at[t] = 0 /\ at'[t] = 1)
  BY <1>1, <1>2
<1>8. Total' = Total
  <2>1. ASSUME NEW t \in 1 .. 3
        PROVE  Share(t)' = Share(t)
    BY <1>4, <1>7 DEF Share
  <2>. QED  BY <2>1 DEF Total
<1>9. AtomicSum'
  BY <1>1, <1>8 DEF UsualData, AtomicSum
<1>10. TornSum'
  <2>1. \A t \in 1 .. 2 : (at'[t] > 2 <=> at[t] > 2) /\ (at'[t] <= 2 <=> at[t] <= 2)
                          /\ (at'[t] = 2 <=> at[t] = 2)
    BY <1>7
  <2>. QED  BY <1>1, <2>1 DEF UsualData, TornSum
<1>11. ASSUME program.name \in Locked
       PROVE  LockIs' /\ SumIs' /\ ShownIs'
  <2>1. LockIs /\ SumIs /\ ShownIs
    BY <1>11 DEF UsualData, LockedData
  <2>2. \A t \in 1 .. 3 : /\ Inside(t)' <=> Inside(t)
                          /\ at'[t] <= 1 <=> at[t] <= 1
                          /\ at'[t] \in {3, 5} <=> at[t] \in {3, 5}
                          /\ at'[t] \in {4, 5} <=> at[t] \in {4, 5}
    BY <1>7 DEF Inside
  <2>3. SumIs' /\ ShownIs'
    BY <1>1, <1>8, <2>1, <2>2 DEF SumIs, ShownIs
  <2>4. CASE UNCHANGED <<lock, found>>
    <3>1. found = Absent => at'[0] = 1
      <4>1. SUFFICES ASSUME found = Absent
                     PROVE  at'[0] = 1
        OBVIOUS
      <4>2. at[0] = 1 /\ Lead = 1
        BY <1>11, <2>1, <4>1, CountingSizes DEF LockIs, Counting
      <4>3. ~ Opened
        <5>1. Opened => found' \in {1, lock} /\ (lock = Absent => found' # Absent)
          <6>1. Absent # 1
            BY ThreadProgramsAssumption
          <6>. QED  BY <6>1 DEF Opened
        <5>2. Opened => found' # Absent
          <6>1. Absent # 1
            BY ThreadProgramsAssumption
          <6>. QED  BY <6>1, <5>1
        <5>. QED  BY <2>4, <4>1, <5>2
      <4>4. at'[0] = at[0]
        <5>1. MainStep
          BY MainMoves0 DEF UsualControl, UsualTypes, Started
        <5>2. Team \in 1 .. 3 /\ MainSize \in Nat /\ MainSize > 1
          BY <4>2, OverIs
        <5>3. ~ Passed
          <6>1. at[0] # Lead + Team + 1 /\ at[0] # Lead + 2 * Team + 2 /\ at[0] # MainSize
            BY <4>2, <5>2
          <6>. QED  BY <4>2, <6>1 DEF Passed, MainSize
        <5>4. \A k \in 1 .. Team : ~ Created(k) /\ ~ Refused(k) /\ ~ Waited(k)
          BY <4>2, <5>2 DEF Created, Refused, Waited
        <5>5. ~ Reported
          BY <4>2, <1>11 DEF Reported, ReportAt
        <5>6. Stopped \/ Finished
          BY <4>3, <5>1, <5>3, <5>4, <5>5 DEF MainStep
        <5>. QED  BY <5>6 DEF Stopped, Finished
      <4>. QED  BY <4>2, <4>4
    <3>2. found # Absent => at'[0] > 1
      <4>1. found # Absent => at[0] > 1
        BY <2>1, Zenon DEF LockIs
      <4>2. at[0] \in Nat /\ at'[0] \in Nat /\ at'[0] >= at[0]
        BY <1>1, <1>2
      <4>. QED  BY <4>1, <4>2
    <3>3. LockIs'
      BY <1>1, <2>1, <2>2, <2>4, <3>1, <3>2 DEF LockIs
    <3>. QED  BY <2>3, <3>3
  <2>5. CASE Opened
    <3>1. /\ at[0] = 1 /\ at'[0] = 2
          /\ lock' = IF program.name = "race_to_data_sem" /\ lock # Absent THEN lock ELSE 1
          /\ found' = lock'
      BY <1>2, <2>5 DEF Opened, Advances
    <3>2. found = Absent /\ shown = <<>> /\ (runs = 1 => lock = Absent)
      BY <2>1, <3>1 DEF LockIs
    <3>3. Absent # 1 /\ Absent # 0
      BY ThreadProgramsAssumption
    <3>4. found' \in {0, 1}
      BY <2>1, <3>1, <3>3 DEF LockIs
    <3>5. \A t \in 1 .. 3 : at[t] = 0
      <4>1. Lead \in {0, 1}
        BY OverIs
      <4>2. ASSUME NEW t \in 1 .. 3
            PROVE  ~ (at[t] > 0)
        <5>1. at[t] > 0 => at[0] > Lead + t
          BY DEF UsualControl, Started
        <5>. QED  BY <3>1, <4>1, <5>1
      <4>. QED  BY <1>7, <4>2
    <3>6. \A t \in 1 .. 3 : at[t] <= 1 /\ ~ Inside(t)
      BY <3>5 DEF Inside
    <3>7. found' = 0 => runs > 1
      <4>1. runs \in Nat /\ runs >= 1
        <5>1. runs \in 1 .. MaxRuns /\ MaxRuns \in Nat
          BY ThreadProgramsAssumption DEF UsualControl, Endings
        <5>. QED  BY <5>1
      <4>. QED  BY <3>1, <3>2, <3>3, <4>1
    <3>8. /\ lock' \in {Absent, 0, 1} /\ found' \in {Absent, 0, 1}
          /\ found' # Absent /\ at'[0] > 1 /\ found' = lock'
      BY <3>1, <3>3, <3>4
    <3>9. \A t \in 1 .. 3 : at'[t] <= 1 /\ ~ Inside(t)'
      BY <2>2, <3>6
    <3>10. LockIs'
      BY <1>1, <3>2, <3>7, <3>8, <3>9 DEF LockIs
    <3>. QED  BY <2>3, <3>10
  <2>. QED  BY <1>1, <2>3, <2>4, <2>5
<1>12. LockedData'
  BY <1>1, <1>11 DEF LockedData
<1>. QED  BY <1>3, <1>5, <1>6, <1>9, <1>10, <1>12 DEF UsualData

\* The total, when a thread moves.
LEMMA TotalMoves ==
  ASSUME at \in [0 .. 5 -> Nat], program' = program, NEW t \in 1 .. 3,
         at' = [at EXCEPT ![t] = at[t] + 1]
  PROVE  /\ Total \in 0 .. 6 /\ Total' \in 0 .. 6
         /\ Total' = IF at[t] = CountAt THEN Total + t ELSE Total
<1>1. CountAt' = CountAt /\ CountAt \in 1 .. 3
  BY DEF CountAt
<1>2. /\ at'[t] = at[t] + 1 /\ \A u \in 1 .. 3 : u # t => at'[u] = at[u]
      /\ \A u \in 1 .. 3 : at[u] \in Nat
  OBVIOUS
<1>3. \A u \in 1 .. 3 : Share(u) \in {0, u}
  BY DEF Share
<1>4. \A u \in 1 .. 3 : u # t => Share(u)' = Share(u)
  BY <1>1, <1>2 DEF Share
<1>5. /\ at[t] = CountAt => Share(t) = 0 /\ Share(t)' = t
      /\ at[t] # CountAt => Share(t)' = Share(t)
  BY <1>1, <1>2 DEF Share
<1>6. /\ Total = Share(1) + Share(2) + Share(3)
      /\ Total' = Share(1)' + Share(2)' + Share(3)'
  BY DEF Total
<1>7. CASE t = 1
  <2>1. Share(2)' = Share(2) /\ Share(3)' = Share(3)
    BY <1>4, <1>7
  <2>. QED  BY <1>3, <1>5, <1>6, <1>7, <2>1
<1>8. CASE t = 2
  <2>1. Share(1)' = Share(1) /\ Share(3)' = Share(3)
    BY <1>4, <1>8
  <2>. QED  BY <1>3, <1>5, <1>6, <1>8, <2>1
<1>9. CASE t = 3
  <2>1. Share(1)' = Share(1) /\ Share(2)' = Share(2)
    BY <1>4, <1>9
  <2>. QED  BY <1>3, <1>5, <1>6, <1>9, <2>1
<1>. QED  BY <1>7, <1>8, <1>9

\* The types of the data, when a thread steps.
LEMMA DataTypesMove ==
  ASSUME DataTypes, NEW t \in 1 .. 5, NEW v \in 0 .. 6,
         memory' = memory \/ memory' = [memory EXCEPT !.shared_var = v],
         register' = register \/ register' = [register EXCEPT ![t] = memory.shared_var]
  PROVE  DataTypes'
<1>1. memory.shared_var \in 0 .. 6
  BY DEF DataTypes
<1>2. register' \in [1 .. 5 -> 0 .. 6]
  BY <1>1 DEF DataTypes
<1>. QED  BY <1>2 DEF DataTypes

\* A step of a thread of race_to_data.c.
LEMMA RaceKeeps ==
  ASSUME Usually0, UsualControl, UsualData, program.name = "race_to_data", NEW t \in 1 .. Team,
         Ready(t), Effects(t), at' = [at EXCEPT ![t] = at[t] + 1], program' = program
  PROVE  DataTypes' /\ AtomicSum' /\ lock' = lock
<1>1. at \in [0 .. 5 -> Nat] /\ UsualTypes
  BY DEF UsualControl, UsualTypes
<1>2. t \in 1 .. 2
  BY CountingSizes DEF Counting, Locked
<1>3. /\ at[t] \in 1 .. 3 /\ lock' = lock
      /\ at[t] = 1 => /\ memory' = [memory EXCEPT !.shared_var = @ + t]
                      /\ UNCHANGED register
      /\ at[t] = 2 => /\ register' = [register EXCEPT ![t] = memory.shared_var]
                      /\ UNCHANGED memory
      /\ at[t] = 3 => UNCHANGED <<memory, register>>
  BY <1>1, RaceStep
<1>4. CountAt = 1
  BY DEF CountAt, Locked
<1>5. /\ Total \in 0 .. 6 /\ Total' \in 0 .. 6
      /\ Total' = IF at[t] = 1 THEN Total + t ELSE Total
  <2>1. t \in 1 .. 3
    BY <1>2
  <2>. QED  BY <1>1, <1>4, <2>1, TotalMoves
<1>6. memory.shared_var = Total /\ DataTypes
  BY DEF UsualData, AtomicSum
<1>7. t \in 1 .. 5
  BY <1>2
<1>8. CASE at[t] = 1
  <2>1. /\ Total' = memory.shared_var + t
        /\ memory' = [memory EXCEPT !.shared_var = Total'] /\ register' = register
    BY <1>3, <1>5, <1>6, <1>8
  <2>2. DataTypes'
    BY <1>5, <1>6, <1>7, <2>1, DataTypesMove
  <2>3. memory'.shared_var = Total'
    BY <1>6, <2>1 DEF DataTypes
  <2>. QED  BY <1>3, <2>2, <2>3 DEF AtomicSum
<1>9. CASE at[t] # 1
  <2>1. /\ Total' = Total /\ memory' = memory
        /\ register' = register \/ register' = [register EXCEPT ![t] = memory.shared_var]
    BY <1>3, <1>5, <1>9
  <2>2. DataTypes'
    <3>1. 0 \in 0 .. 6
      OBVIOUS
    <3>. QED  BY <1>6, <1>7, <2>1, <3>1, DataTypesMove
  <2>. QED  BY <1>3, <1>6, <2>1, <2>2 DEF AtomicSum
<1>. QED  BY <1>8, <1>9

\* A step of a thread of race_to_data.s.
LEMMA TornKeeps ==
  ASSUME Usually0, UsualControl, UsualData, program.name = "race_to_data_s",
         NEW t \in 1 .. Team, Ready(t), Effects(t), at' = [at EXCEPT ![t] = at[t] + 1],
         program' = program
  PROVE  DataTypes' /\ TornSum' /\ lock' = lock
<1>1. at \in [0 .. 5 -> Nat] /\ UsualTypes
  BY DEF UsualControl, UsualTypes
<1>2. t \in 1 .. 2
  BY CountingSizes DEF Counting, Locked
<1>3. /\ at[t] \in 1 .. 4 /\ lock' = lock
      /\ at[t] \in {1, 3} => /\ register' = [register EXCEPT ![t] = memory.shared_var]
                             /\ UNCHANGED memory
      /\ at[t] = 2 => /\ memory' = [memory EXCEPT !.shared_var = register[t] + t]
                      /\ UNCHANGED register
      /\ at[t] = 4 => UNCHANGED <<memory, register>>
  BY <1>1, TornStep
<1>4. DataTypes /\ t \in 1 .. 5
  BY <1>2 DEF UsualData
<1>5. /\ at[1] <= 2 /\ at[2] <= 2 => memory.shared_var = 0
      /\ at[1] > 2 /\ at[2] <= 2 => memory.shared_var = 1
      /\ at[1] <= 2 /\ at[2] > 2 => memory.shared_var = 2
      /\ at[1] > 2 /\ at[2] > 2 => memory.shared_var \in {1, 2, 3}
      /\ at[1] = 2 => register[1] = 0 \/ (register[1] = 2 /\ at[2] > 2)
      /\ at[2] = 2 => register[2] = 0 \/ (register[2] = 1 /\ at[1] > 2)
  BY DEF UsualData, TornSum
<1>6. /\ at[1] \in Nat /\ at[2] \in Nat /\ at'[t] = at[t] + 1
      /\ t = 1 => at'[2] = at[2]
      /\ t = 2 => at'[1] = at[1]
  BY <1>1, <1>2
<1>7. register \in [1 .. 5 -> 0 .. 6] /\ memory.shared_var \in 0 .. 6
  BY <1>4 DEF DataTypes
<1>. DEFINE Goal == /\ at'[1] <= 2 /\ at'[2] <= 2 => memory'.shared_var = 0
                    /\ at'[1] > 2 /\ at'[2] <= 2 => memory'.shared_var = 1
                    /\ at'[1] <= 2 /\ at'[2] > 2 => memory'.shared_var = 2
                    /\ at'[1] > 2 /\ at'[2] > 2 => memory'.shared_var \in {1, 2, 3}
                    /\ at'[1] = 2 => register'[1] = 0 \/ (register'[1] = 2 /\ at'[2] > 2)
                    /\ at'[2] = 2 => register'[2] = 0 \/ (register'[2] = 1 /\ at'[1] > 2)
<1>8. DataTypes' /\ Goal
  <2>1. ASSUME at[t] = 2
        PROVE  DataTypes' /\ Goal
    <3>. DEFINE v == register[t] + t
    <3>1. v \in {t, 3} /\ v \in 0 .. 6
      BY <1>2, <1>5, <1>7, <2>1
    <3>2. memory' = [memory EXCEPT !.shared_var = v] /\ register' = register
      BY <1>3, <2>1
    <3>. HIDE DEF v
    <3>3. DataTypes'
      BY <1>4, <3>1, <3>2, DataTypesMove
    <3>4. memory'.shared_var = v
      BY <1>4, <3>2 DEF DataTypes
    <3>5. /\ at'[t] = 3
          /\ t = 1 => v = 1 \/ (v = 3 /\ at[2] > 2)
          /\ t = 2 => v = 2 \/ (v = 3 /\ at[1] > 2)
      BY <1>5, <1>6, <2>1 DEF v
    <3>6. CASE t = 1
      BY <1>5, <1>6, <3>2, <3>3, <3>4, <3>5, <3>6
    <3>7. CASE t = 2
      BY <1>5, <1>6, <3>2, <3>3, <3>4, <3>5, <3>7
    <3>. QED  BY <1>2, <3>3, <3>6, <3>7
  <2>2. ASSUME at[t] # 2
        PROVE  DataTypes' /\ Goal
    <3>1. /\ memory' = memory
          /\ register' = register \/ register' = [register EXCEPT ![t] = memory.shared_var]
          /\ at[t] = 1 => register' = [register EXCEPT ![t] = memory.shared_var]
      BY <1>3, <2>2
    <3>2. DataTypes'
      <4>1. 0 \in 0 .. 6
        OBVIOUS
      <4>. QED  BY <1>4, <3>1, <4>1, DataTypesMove
    <3>3. /\ at'[t] > 2 <=> at[t] > 2
          /\ at'[t] <= 2 <=> at[t] <= 2
          /\ at'[t] = 2 <=> at[t] = 1
      BY <1>2, <1>3, <1>6, <2>2
    <3>4. at[t] = 1 => register'[t] = memory.shared_var
      BY <1>4, <1>7, <3>1
    <3>5. CASE t = 1
      <4>1. register'[2] = register[2]
        BY <1>7, <3>1, <3>5
      <4>. QED  BY <1>5, <1>6, <3>1, <3>3, <3>4, <3>5, <4>1, <3>2
    <3>6. CASE t = 2
      <4>1. register'[1] = register[1]
        BY <1>7, <3>1, <3>6
      <4>. QED  BY <1>5, <1>6, <3>1, <3>3, <3>4, <3>6, <4>1, <3>2
    <3>. QED  BY <1>2, <3>5, <3>6
  <2>. QED  BY <2>1, <2>2
<1>9. TornSum'
  BY <1>8 DEF TornSum
<1>. QED  BY <1>3, <1>8, <1>9

\* The lock, when a thread of a program with a lock steps.
LEMMA LockKeeps ==
  ASSUME Usually0, UsualControl, LockIs, program.name \in Locked, NEW t \in 1 .. 3,
         Ready(t), Effects(t), at' = [at EXCEPT ![t] = at[t] + 1],
         UNCHANGED <<program, runs, found>>
  PROVE  /\ LockIs' /\ found = 1
         /\ \A u \in 1 .. 3 : u # t => ~ Inside(u)
         /\ at[t] \in 1 .. 6
<1>0. at \in [0 .. 5 -> Nat] /\ UsualTypes
  BY DEF UsualControl, UsualTypes
<1>1. Lead = 1 /\ Team = 3
  BY CountingSizes DEF Counting
<1>2. /\ at[t] \in 1 .. 6
      /\ at[t] = 1 => lock > 0 /\ lock' = lock - 1 /\ UNCHANGED <<memory, register, shown>>
      /\ at[t] \in {2, 4} => /\ register' = [register EXCEPT ![t] = memory.shared_var]
                             /\ UNCHANGED <<lock, memory, shown>>
      /\ at[t] = 3 => /\ memory' = [memory EXCEPT !.shared_var = register[t] + t]
                      /\ UNCHANGED <<lock, register, shown>>
      /\ at[t] = 5 => /\ shown' = Append(shown, [thread |-> t, sum |-> register[t]])
                      /\ UNCHANGED <<lock, memory, register>>
      /\ at[t] = 6 => lock' = lock + 1 /\ UNCHANGED <<memory, register, shown>>
  BY <1>0, <1>1, LockedStep
<1>3. at[0] > 1
  <2>1. t \in 1 .. 5 /\ at[t] > 0
    BY <1>2
  <2>2. at[0] > Lead + t
    BY <2>1 DEF UsualControl, Started
  <2>. QED  BY <1>0, <1>1, <2>2
<1>4. Absent # 0 /\ Absent # 1
  BY ThreadProgramsAssumption
<1>5. /\ found = 1
      /\ \/ lock = 1 /\ \A u \in 1 .. 3 : ~ Inside(u)
         \/ lock = 0 /\ \E u \in 1 .. 3 : Inside(u) /\ \A v \in 1 .. 3 \ {u} : ~ Inside(v)
  <2>1. found \in {0, 1}
    BY <1>0, <1>3 DEF LockIs
  <2>2. found # 0
    <3>1. SUFFICES ASSUME found = 0
                   PROVE  FALSE
      OBVIOUS
    <3>2. lock = 0 /\ at[t] <= 1
      BY <3>1 DEF LockIs
    <3>3. at[t] = 1
      BY <1>2, <3>2
    <3>. QED  BY <1>2, <3>2, <3>3
  <2>3. found = 1
    BY <2>1, <2>2
  <2>. QED  BY <2>3 DEF LockIs
<1>6. /\ at'[t] = at[t] + 1 /\ at'[0] = at[0]
      /\ \A u \in 1 .. 3 : u # t => at'[u] = at[u]
  BY <1>0
<1>7. \A u \in 1 .. 3 : u # t => (Inside(u)' <=> Inside(u))
  BY <1>6 DEF Inside
<1>8. CASE at[t] = 1
  <2>1. lock = 1 /\ \A u \in 1 .. 3 : ~ Inside(u)
    BY <1>2, <1>5, <1>8
  <2>2. lock' = 0 /\ Inside(t)' /\ \A u \in 1 .. 3 \ {t} : ~ Inside(u)'
    BY <1>2, <1>6, <1>7, <1>8, <2>1 DEF Inside
  <2>3. shown' = shown
    BY <1>2, <1>8
  <2>4. LockIs'
    BY <1>3, <1>4, <1>5, <1>6, <2>2 DEF LockIs
  <2>. QED  BY <1>2, <1>5, <2>1, <2>4
<1>9. CASE at[t] # 1
  <2>1. Inside(t)
    BY <1>2, <1>9 DEF Inside
  <2>2. lock = 0 /\ \A u \in 1 .. 3 \ {t} : ~ Inside(u)
    BY <1>5, <2>1
  <2>3. \A u \in 1 .. 3 \ {t} : ~ Inside(u)'
    BY <1>7, <2>2
  <2>4. CASE at[t] = 6
    <3>1. lock' = 1 /\ ~ Inside(t)'
      BY <1>2, <1>6, <2>2, <2>4 DEF Inside
    <3>2. LockIs'
      BY <1>3, <1>4, <1>5, <1>6, <2>3, <3>1 DEF LockIs
    <3>. QED  BY <1>2, <1>5, <2>2, <3>2
  <2>5. CASE at[t] # 6
    <3>1. lock' = 0 /\ Inside(t)'
      BY <1>2, <1>6, <1>9, <2>2, <2>5 DEF Inside
    <3>2. LockIs'
      BY <1>3, <1>4, <1>5, <1>6, <2>3, <3>1 DEF LockIs
    <3>. QED  BY <1>2, <1>5, <2>2, <3>2
  <2>. QED  BY <2>4, <2>5
<1>. QED  BY <1>8, <1>9

\* One more sum is shown.
LEMMA MoreShown ==
  ASSUME NEW S, NEW s \in Seq(S), NEW e \in S
  PROVE  /\ Append(s, e) \in Seq(S) /\ Len(Append(s, e)) = Len(s) + 1
         /\ \A i \in 1 .. Len(s) : Append(s, e)[i] = s[i]
         /\ Append(s, e)[Len(s) + 1] = e
         /\ Len(s) \in Nat
BY AppendProperties, LenProperties

\* The sum and the sums shown, when a thread of a program with a lock steps.
LEMMA SumsKeep ==
  ASSUME Usually0, UsualControl, DataTypes, LockIs, SumIs, ShownIs, program.name \in Locked,
         NEW t \in 1 .. 3, Ready(t), Effects(t), at' = [at EXCEPT ![t] = at[t] + 1],
         UNCHANGED <<program, runs, found>>
  PROVE  DataTypes' /\ SumIs' /\ ShownIs'
<1>0. at \in [0 .. 5 -> Nat] /\ UsualTypes
  BY DEF UsualControl, UsualTypes
<1>1. Lead = 1 /\ Team = 3
  BY CountingSizes DEF Counting
<1>2. /\ at[t] \in 1 .. 6
      /\ at[t] = 1 => lock > 0 /\ lock' = lock - 1 /\ UNCHANGED <<memory, register, shown>>
      /\ at[t] \in {2, 4} => /\ register' = [register EXCEPT ![t] = memory.shared_var]
                             /\ UNCHANGED <<lock, memory, shown>>
      /\ at[t] = 3 => /\ memory' = [memory EXCEPT !.shared_var = register[t] + t]
                      /\ UNCHANGED <<lock, register, shown>>
      /\ at[t] = 5 => /\ shown' = Append(shown, [thread |-> t, sum |-> register[t]])
                      /\ UNCHANGED <<lock, memory, register>>
      /\ at[t] = 6 => lock' = lock + 1 /\ UNCHANGED <<memory, register, shown>>
  BY <1>0, <1>1, LockedStep
<1>3. \A u \in 1 .. 3 : u # t => ~ Inside(u)
  BY LockKeeps
<1>4. /\ at'[t] = at[t] + 1
      /\ \A u \in 1 .. 3 : at[u] \in Nat /\ (u # t => at'[u] = at[u])
  BY <1>0
<1>5. \A u \in 1 .. 3 : u # t => at'[u] \notin {3, 4, 5}
  BY <1>3, <1>4 DEF Inside
<1>6. /\ Total \in 0 .. 6 /\ Total' \in 0 .. 6
      /\ Total' = IF at[t] = 3 THEN Total + t ELSE Total
  <2>1. CountAt = 3
    BY DEF CountAt
  <2>. QED  BY <1>0, <2>1, TotalMoves
<1>7. /\ memory.shared_var = Total /\ memory.shared_var \in 0 .. 6
      /\ register \in [1 .. 5 -> 0 .. 6]
      /\ at[t] \in {3, 5} => register[t] = memory.shared_var
  BY DEF SumIs, DataTypes
<1>8. /\ shown \in Seq([thread : 1 .. 5, sum : 0 .. 6])
      /\ \A i \in 1 .. Len(shown) : shown[i].sum <= memory.shared_var
      /\ at[t] \in {4, 5} => \A i \in 1 .. Len(shown) : shown[i].sum < memory.shared_var
      /\ \A i, j \in 1 .. Len(shown) : i < j => shown[i].sum < shown[j].sum
  BY DEF ShownIs
<1>12. ASSUME NEW i \in 1 .. Len(shown)
       PROVE  shown[i].sum \in 0 .. 6
  <2>. DEFINE R == [thread : 1 .. 5, sum : 0 .. 6]
  <2>1. shown \in Seq(R)
    BY <1>8
  <2>. HIDE DEF R
  <2>2. shown[i] \in R
    BY <2>1, ElementOfSeq
  <2>. QED  BY <2>2 DEF R
<1>. DEFINE M == memory.shared_var
<1>9. CASE at[t] \in {1, 2, 4, 6}
  <2>1. memory' = memory /\ shown' = shown
    BY <1>2, <1>9
  <2>2. /\ register' = register \/ register' = [register EXCEPT ![t] = memory.shared_var]
        /\ at[t] \in {2, 4} => register'[t] = memory.shared_var
    BY <1>2, <1>7, <1>9
  <2>3. DataTypes'
    <3>1. 0 \in 0 .. 6 /\ t \in 1 .. 5
      OBVIOUS
    <3>. QED  BY <2>1, <2>2, <3>1, DataTypesMove
  <2>4. at'[t] \in {3, 5} => at[t] \in {2, 4}
    BY <1>2, <1>4
  <2>5. SumIs'
    <3>1. memory'.shared_var = Total'
      BY <1>6, <1>7, <1>9, <2>1
    <3>2. ASSUME NEW u \in 1 .. 3, at'[u] \in {3, 5}
          PROVE  register'[u] = memory'.shared_var
      <4>1. u = t
        BY <1>5, <3>2
      <4>. QED  BY <2>1, <2>2, <2>4, <3>2, <4>1
    <3>. QED  BY <3>1, <3>2 DEF SumIs
  <2>6. ShownIs'
    <3>1. ASSUME NEW u \in 1 .. 3, at'[u] \in {4, 5}
          PROVE  \A i \in 1 .. Len(shown) : shown[i].sum < M
      <4>1. u = t
        BY <1>5, <3>1
      <4>2. at[t] = 4
        BY <1>2, <1>4, <1>9, <3>1, <4>1
      <4>. QED  BY <1>8, <4>2
    <3>. QED  BY <1>8, <2>1, <3>1 DEF ShownIs
  <2>. QED  BY <2>3, <2>5, <2>6
<1>10. CASE at[t] = 3
  <2>. DEFINE v == register[t] + t
  <2>1. memory' = [memory EXCEPT !.shared_var = v] /\ register' = register /\ shown' = shown
    BY <1>2, <1>10
  <2>2. v = Total' /\ v \in 0 .. 6 /\ v > M
    BY <1>6, <1>7, <1>10
  <2>. HIDE DEF v
  <2>3. DataTypes' /\ memory'.shared_var = v
    <3>1. t \in 1 .. 5
      OBVIOUS
    <3>2. memory'.shared_var = v
      BY <2>1 DEF DataTypes
    <3>. QED  BY <2>1, <2>2, <3>1, <3>2, DataTypesMove
  <2>4. \A u \in 1 .. 3 : at'[u] \notin {3, 5}
    BY <1>4, <1>5, <1>10
  <2>5. SumIs'
    BY <2>2, <2>3, <2>4 DEF SumIs
  <2>6. \A i \in 1 .. Len(shown) : shown[i].sum < v
    <3>1. ASSUME NEW i \in 1 .. Len(shown)
          PROVE  shown[i].sum < v
      <4>1. shown[i].sum \in 0 .. 6
        BY <1>12
      <4>2. shown[i].sum <= M
        BY <1>8
      <4>. QED  BY <1>7, <2>2, <4>1, <4>2
    <3>. QED  BY <3>1
  <2>7. ShownIs'
    <3>1. \A i \in 1 .. Len(shown) : shown[i].sum <= v
      <4>1. ASSUME NEW i \in 1 .. Len(shown)
            PROVE  shown[i].sum <= v
        <5>1. shown[i].sum \in 0 .. 6
          BY <1>12
        <5>. QED  BY <2>2, <2>6, <5>1
      <4>. QED  BY <4>1
    <3>. QED  BY <1>8, <2>1, <2>3, <2>6, <3>1 DEF ShownIs
  <2>. QED  BY <2>3, <2>5, <2>7
<1>11. CASE at[t] = 5
  <2>. DEFINE e == [thread |-> t, sum |-> register[t]]
              R == [thread : 1 .. 5, sum : 0 .. 6]
              size == Len(shown)
              new == Append(shown, e)
  <2>1. memory' = memory /\ register' = register /\ shown' = new
    BY <1>2, <1>11
  <2>2. e \in R /\ e.sum = M
    BY <1>7, <1>11
  <2>3. /\ new \in Seq(R) /\ Len(new) = size + 1
        /\ \A i \in 1 .. size : new[i] = shown[i]
        /\ new[size + 1] = e /\ size \in Nat
    BY <1>8, <2>2, MoreShown
  <2>4. /\ \A i \in 1 .. size : shown[i].sum < M
        /\ \A i, j \in 1 .. size : i < j => shown[i].sum < shown[j].sum
        /\ \A i \in 1 .. size : shown[i].sum \in 0 .. 6
    BY <1>8, <1>11, <1>12
  <2>. HIDE DEF new, size, e, R
  <2>5. ASSUME NEW i \in 1 .. size + 1
        PROVE  new[i].sum <= M
    <3>1. CASE i = size + 1
      BY <1>7, <2>2, <2>3, <3>1
    <3>2. CASE i # size + 1
      <4>1. i \in 1 .. size
        BY <2>3, <3>2
      <4>2. new[i].sum = shown[i].sum /\ shown[i].sum \in 0 .. 6 /\ shown[i].sum < M
        BY <2>3, <2>4, <4>1
      <4>. QED  BY <1>7, <4>2
    <3>. QED  BY <3>1, <3>2
  <2>6. ASSUME NEW i \in 1 .. size + 1, NEW j \in 1 .. size + 1, i < j
        PROVE  new[i].sum < new[j].sum
    <3>1. i \in 1 .. size
      BY <2>3, <2>6
    <3>2. CASE j = size + 1
      BY <2>2, <2>3, <2>4, <3>1, <3>2
    <3>3. CASE j # size + 1
      <4>1. j \in 1 .. size
        BY <2>3, <3>3
      <4>. QED  BY <2>3, <2>4, <2>6, <3>1, <4>1
    <3>. QED  BY <3>2, <3>3
  <2>7. \A u \in 1 .. 3 : at'[u] \notin {3, 4, 5}
    BY <1>4, <1>5, <1>11
  <2>8. ShownIs'
    <3>1. shown' \in Seq([thread : 1 .. 5, sum : 0 .. 6]) /\ Len(shown') = size + 1
      BY <2>1, <2>3 DEF R
    <3>2. /\ \A i \in 1 .. Len(shown') : shown'[i].sum <= memory'.shared_var
          /\ \A i, j \in 1 .. Len(shown') : i < j => shown'[i].sum < shown'[j].sum
      BY <2>1, <2>5, <2>6, <3>1
    <3>. QED  BY <2>7, <3>1, <3>2 DEF ShownIs
  <2>9. SumIs'
    BY <1>6, <1>7, <1>11, <2>1, <2>7 DEF SumIs
  <2>10. DataTypes'
    BY <2>1 DEF DataTypes
  <2>. QED  BY <2>8, <2>9, <2>10
<1>. QED  BY <1>2, <1>9, <1>10, <1>11

\* A step of a thread keeps the data.
LEMMA DataWorker ==
  ASSUME Usually0, UsualControl, UsualData, NEW t \in 1 .. Team, Step(t)
  PROVE  UsualControl' /\ UsualData' /\ program' = program /\ runs' = runs
<1>1. /\ UsualControl'
      /\ Ready(t) /\ outcome = "running" /\ at[t] >= 1 /\ at[t] <= BodySize(t)
      /\ at' = [at EXCEPT ![t] = at[t] + 1]
      /\ outcome' # "undefined" => Effects(t)
      /\ outcome' = "undefined" => UNCHANGED <<lock, memory, register, shown>>
      /\ UNCHANGED <<program, runs, status, failed, joinable, reported, found>>
  BY ControlWorker
<1>2. at \in [0 .. 5 -> Nat] /\ UsualTypes /\ Joined
  BY DEF UsualControl, UsualTypes
<1>3. at'[0] = at[0] /\ Team \in 1 .. 3 /\ BodySize(t) \in 1 .. 6 /\ Lead \in {0, 1}
  BY <1>1, <1>2, OverIs
<1>4. outcome' = "undefined" => program.name \notin Counting
  BY <1>1 DEF UsualControl, Endings, Counting, Locked
<1>5. program.name \in Counting => ~ (at[0] > ReportAt)
  <2>1. SUFFICES ASSUME program.name \in Counting, at[0] > ReportAt
                 PROVE  FALSE
    OBVIOUS
  <2>2. Way(program.name) = "join" /\ ReportAt > Lead + 2 * Team + 2 /\ ReportAt \in Nat
    BY <2>1, CountingSizes DEF ReportAt
  <2>3. at[0] > Lead + Team + 1 + t
    BY <1>2, <1>3, <2>1, <2>2
  <2>4. at[t] > BodySize(t)
    BY <1>2, <2>2, <2>3 DEF Joined
  <2>. QED  BY <1>1, <1>2, <1>3, <2>4
<1>6. ReportIs'
  <2>1. reported = -1
    BY <1>5 DEF UsualData, ReportIs
  <2>2. ReportAt' = ReportAt
    BY <1>1 DEF ReportAt
  <2>. QED  BY <1>1, <1>3, <1>5, <2>1, <2>2 DEF ReportIs
<1>7. CASE program.name \notin Counting
  <2>1. UNCHANGED <<lock, memory, register, shown>>
    BY <1>1, <1>2, <1>7, PlainStep
  <2>2. program.name \notin Locked /\ program.name # "race_to_data"
        /\ program.name # "race_to_data_s"
    BY <1>7 DEF Counting
  <2>3. DataTypes' /\ Lockless'
    BY <1>1, <2>1 DEF UsualData, DataTypes, Lockless
  <2>. QED
    BY <1>1, <1>6, <2>2, <2>3 DEF UsualData, AtomicSum, TornSum, LockedData
<1>8. CASE program.name = "race_to_data"
  <2>1. DataTypes' /\ AtomicSum' /\ lock' = lock
    BY <1>1, <1>4, <1>8, RaceKeeps DEF Counting
  <2>2. program.name \notin Locked /\ program.name # "race_to_data_s"
    BY <1>8 DEF Locked
  <2>3. Lockless'
    BY <1>1, <2>1 DEF UsualData, Lockless
  <2>. QED
    BY <1>1, <1>6, <2>1, <2>2, <2>3 DEF UsualData, TornSum, LockedData
<1>9. CASE program.name = "race_to_data_s"
  <2>1. DataTypes' /\ TornSum' /\ lock' = lock
    BY <1>1, <1>4, <1>9, TornKeeps DEF Counting
  <2>2. program.name \notin Locked /\ program.name # "race_to_data"
    BY <1>9 DEF Locked
  <2>3. Lockless'
    BY <1>1, <2>1 DEF UsualData, Lockless
  <2>. QED
    BY <1>1, <1>6, <2>1, <2>2, <2>3 DEF UsualData, AtomicSum, LockedData
<1>10. CASE program.name \in Locked
  <2>1. Effects(t) /\ t \in 1 .. 3
    BY <1>1, <1>3, <1>4, <1>10 DEF Counting
  <2>2. DataTypes /\ LockIs /\ SumIs /\ ShownIs
    BY <1>10 DEF UsualData, LockedData
  <2>3. LockIs'
    BY <1>1, <1>10, <2>1, <2>2, LockKeeps
  <2>4. DataTypes' /\ SumIs' /\ ShownIs'
    BY <1>1, <1>10, <2>1, <2>2, SumsKeep
  <2>5. program.name # "race_to_data" /\ program.name # "race_to_data_s"
    BY <1>10 DEF Locked
  <2>. QED
    BY <1>1, <1>6, <1>10, <2>3, <2>4, <2>5
       DEF UsualData, AtomicSum, TornSum, LockedData, Lockless
<1>. QED  BY <1>7, <1>8, <1>9, <1>10 DEF Counting

FreshLock ==
  /\ lock \in {Absent, 0, 1}
  /\ program.name \notin Locked => lock = Absent
  /\ runs = 1 => lock = Absent
  /\ memory \in [shared_var : 0 .. 6, shared_int : {"null"}, block : {"null"}, len : {0},
                 cells : [0 .. Length - 1 -> {"garbage"}]]

\* A process that starts has the data right, whatever it finds of the lock.
LEMMA FreshData == Usually0 /\ Fresh /\ FreshLock => UsualData
<1>. SUFFICES ASSUME Usually0, Fresh, FreshLock
              PROVE  UsualData
  OBVIOUS
<1>1. at[0] = 1 /\ at[1] = 0 /\ at[2] = 0 /\ at[3] = 0
  BY DEF Fresh
<1>2. DataTypes
  BY DEF Fresh, FreshLock, DataTypes
<1>3. ReportIs
  <2>1. ~ (1 > ReportAt)
    BY DEF ReportAt
  <2>. QED  BY <1>1, <2>1 DEF ReportIs, Fresh
<1>4. Lockless
  BY DEF Lockless, Fresh, FreshLock
<1>5. Total = 0 /\ memory.shared_var = 0
  <2>1. CountAt \in 1 .. 3
    BY DEF CountAt
  <2>2. Share(1) = 0 /\ Share(2) = 0 /\ Share(3) = 0
    BY <1>1, <2>1 DEF Share
  <2>. QED  BY <2>2 DEF Total, Fresh
<1>6. AtomicSum /\ TornSum
  BY <1>1, <1>5 DEF AtomicSum, TornSum
<1>7. LockIs
  <2>1. Absent # 0 /\ Absent # 1
    BY ThreadProgramsAssumption
  <2>. QED  BY <1>1, <2>1 DEF LockIs, Fresh, FreshLock
<1>8. SumIs
  <2>1. \A t \in 1 .. 3 : at[t] = 0
    BY DEF Fresh
  <2>. QED  BY <1>5, <2>1 DEF SumIs
<1>9. ShownIs
  <2>1. \A t \in 1 .. 3 : at[t] = 0
    BY DEF Fresh
  <2>. QED  BY <2>1 DEF ShownIs, Fresh
<1>. QED  BY <1>2, <1>3, <1>4, <1>6, <1>7, <1>8, <1>9 DEF UsualData, LockedData

\* The two together.
LEMMA FreshUsual ==
  Usually0 /\ Fresh /\ FreshLock /\ runs \in 1 .. MaxRuns /\ stray \in {"none", "main"}
    => UsualControl /\ UsualData
BY FreshControl, FreshData

-----------------------------------------------------------------------------
(***************************************************************************)
(* The inductive invariant of the eight programs.                          *)
(***************************************************************************)
UsualInv == ProgramIs /\ (program.name \in Usual => UsualControl /\ UsualData)

\* The invariant of the eight programs holds at first.
LEMMA UsualInvInit == ProgramsInit => UsualInv
<1>. SUFFICES ASSUME ProgramsInit
              PROVE  UsualInv
  OBVIOUS
<1>1. /\ ProgramIs /\ Fresh /\ lock = Absent /\ runs = 1 /\ stray = "none"
      /\ memory = [shared_var |-> 0, shared_int |-> "null", block |-> "null", len |-> 0,
                   cells |-> [i \in 0 .. Length - 1 |-> "garbage"]]
  BY InitIs
<1>2. FreshLock
  BY <1>1 DEF FreshLock
<1>3. runs \in 1 .. MaxRuns
  BY <1>1, ThreadProgramsAssumption
<1>. QED  BY <1>1, <1>2, <1>3, FreshUsual DEF UsualInv, Usually0

\* Every step keeps it.
LEMMA UsualInvNext == UsualInv /\ [ProgramsNext]_vars => UsualInv'
<1>1. SUFFICES ASSUME UsualInv, [ProgramsNext]_vars
               PROVE  UsualInv'
  OBVIOUS
<1>2. program' = program
  BY <1>1, ProgramStays
<1>3. ProgramIs'
  BY <1>1, <1>2 DEF UsualInv, ProgramIs
<1>4. SUFFICES ASSUME program.name \in Usual
               PROVE  UsualControl' /\ UsualData'
  BY <1>2, <1>3 DEF UsualInv
<1>5. Usually0 /\ UsualControl /\ UsualData
  BY <1>1, <1>4 DEF UsualInv, Usually0
<1>6. CASE UNCHANGED vars
  <2>1. UNCHANGED <<program, runs, outcome, status, stray, at, after, failed, joinable,
                    reported, found, lock, memory, register, shown>>
    BY <1>6 DEF vars, process, control, data
  <2>2. /\ Lead' = Lead /\ Team' = Team /\ MainSize' = MainSize
        /\ \A t : BodySize(t)' = BodySize(t)
    BY <1>2, Rigid
  <2>3. UsualControl'
    BY <1>5, <2>1, <2>2
       DEF UsualControl, UsualTypes, Started, Joined, Endings, AllOver
  <2>4. ReportAt' = ReportAt /\ CountAt' = CountAt
    BY <1>2 DEF ReportAt, CountAt
  <2>5. Total' = Total
    BY <2>1, <2>4 DEF Total, Share
  <2>6. DataTypes' /\ ReportIs' /\ Lockless' /\ AtomicSum' /\ TornSum'
    BY <1>5, <2>1, <2>4, <2>5
       DEF UsualData, DataTypes, ReportIs, Lockless, AtomicSum, TornSum
  <2>7. LockedData'
    BY <1>5, <2>1, <2>5 DEF UsualData, LockedData, LockIs, SumIs, ShownIs, Inside
  <2>. QED  BY <2>3, <2>6, <2>7 DEF UsualData
<1>7. CASE Main
  BY <1>5, <1>7, ControlMain, DataMain
<1>8. ASSUME NEW t \in 1 .. Team, Step(t)
      PROVE  UsualControl' /\ UsualData'
  BY <1>5, <1>8, DataWorker
<1>9. CASE Kill
  <2>1. /\ UNCHANGED <<program, runs, stray, at, after, failed, joinable,
                       reported, found, lock, memory, register, shown>>
        /\ outcome' = "killed" /\ status' = 0
    BY <1>9 DEF Kill, Ends, control, data
  <2>2. /\ Lead' = Lead /\ Team' = Team /\ MainSize' = MainSize
        /\ \A t : BodySize(t)' = BodySize(t)
    BY <1>2, Rigid
  <2>3. UsualControl'
    BY <1>5, <2>1, <2>2 DEF UsualControl, UsualTypes, Started, Joined, Endings
  <2>4. ReportAt' = ReportAt /\ CountAt' = CountAt
    BY <1>2 DEF ReportAt, CountAt
  <2>5. Total' = Total
    BY <2>1, <2>4 DEF Total, Share
  <2>6. DataTypes' /\ ReportIs' /\ Lockless' /\ AtomicSum' /\ TornSum'
    BY <1>5, <2>1, <2>4, <2>5
       DEF UsualData, DataTypes, ReportIs, Lockless, AtomicSum, TornSum
  <2>7. LockedData'
    BY <1>5, <2>1, <2>5 DEF UsualData, LockedData, LockIs, SumIs, ShownIs, Inside
  <2>. QED  BY <2>3, <2>6, <2>7 DEF UsualData
<1>10. CASE Restart
  <2>1. /\ program.name = "race_to_data_sem" /\ program' = program
        /\ runs < MaxRuns /\ runs' = runs + 1 /\ outcome # "running"
        /\ memory' = [memory EXCEPT !.shared_var = 0]
        /\ lock' = lock /\ stray' = stray
        /\ "shared_var" \in DOMAIN memory => Fresh'
    BY <1>10, RestartIs
  <2>2. DataTypes /\ LockIs
    BY <1>5, <2>1 DEF UsualData, LockedData, Locked
  <2>3. Fresh'
    BY <2>1, <2>2 DEF DataTypes
  <2>4. runs' \in 1 .. MaxRuns /\ runs' # 1 /\ stray' \in {"none", "main"}
    <3>1. runs \in 1 .. MaxRuns /\ MaxRuns \in Nat /\ stray \in {"none", "main"}
      BY <1>5, ThreadProgramsAssumption DEF UsualControl, Endings
    <3>. QED  BY <2>1, <3>1
  <2>5. FreshLock'
    <3>1. program.name \in Locked
      BY <2>1 DEF Locked
    <3>2. memory' \in [shared_var : 0 .. 6, shared_int : {"null"}, block : {"null"},
                       len : {0}, cells : [0 .. Length - 1 -> {"garbage"}]]
      BY <2>1, <2>2 DEF DataTypes
    <3>3. lock' \in {Absent, 0, 1}
      BY <2>1, <2>2 DEF LockIs
    <3>. QED  BY <2>1, <2>4, <3>1, <3>2, <3>3 DEF FreshLock
  <2>6. Usually0'
    BY <1>2, <1>3, <1>4 DEF Usually0
  <2>7. (Usually0 /\ Fresh /\ FreshLock /\ runs \in 1 .. MaxRuns /\ stray \in {"none", "main"}
           => UsualControl /\ UsualData)'
    BY FreshUsual, PTL
  <2>. QED  BY <2>3, <2>4, <2>5, <2>6, <2>7
<1>. QED  BY <1>1, <1>5, <1>6, <1>7, <1>8, <1>9, <1>10, NextIs

(***************************************************************************)
(* The invariant of the eight programs holds, in any number of runs.       *)
(***************************************************************************)
THEOREM UsualInvariant == ProgramsSafetySpec => []UsualInv
<1>. QED  BY UsualInvInit, UsualInvNext, PTL DEF ProgramsSafetySpec

-----------------------------------------------------------------------------
(***************************************************************************)
(* The sums. What the threads add up to is the sum of the set of those     *)
(* that have added.                                                        *)
(***************************************************************************)
\* The function by which a fold is defined.
SumDefined(S, iter) ==
  iter = [s \in SUBSET S |->
            IF s = {} THEN 0
            ELSE (CHOOSE x \in s : TRUE) + iter[s \ {CHOOSE x \in s : TRUE}]]

\* The sum of a set of threads, written out.
Worth(S) == (IF 1 \in S THEN 1 ELSE 0) + (IF 2 \in S THEN 2 ELSE 0) + (IF 3 \in S THEN 3 ELSE 0)

\* SumSet, by the function of its fold.
LEMMA SumDef ==
  ASSUME NEW S
  PROVE  SumSet(S) = (CHOOSE iter : SumDefined(S, iter))[S]
BY Zenon DEF SumSet, FoldSet, MapThenFoldSet, SumDefined

\* The sum of a set without one of its members.
LEMMA WorthLess ==
  ASSUME NEW S \in SUBSET (1 .. 3), NEW x \in S
  PROVE  Worth(S) = x + Worth(S \ {x}) /\ Worth(S) \in 0 .. 6 /\ Worth({}) = 0
BY DEF Worth

\* The sum of some of the ingredients.
LEMMA SumIsWorth ==
  ASSUME NEW S \in SUBSET (1 .. 3)
  PROVE  SumSet(S) = Worth(S)
<1>. DEFINE f == [s \in SUBSET S |-> Worth(s)]
            c == CHOOSE iter : SumDefined(S, iter)
            pick(s) == CHOOSE x \in s : TRUE
<1>1. ASSUME NEW s \in SUBSET S, s # {}
      PROVE  pick(s) \in s /\ s \ {pick(s)} \in SUBSET S
  BY <1>1
<1>2. ASSUME NEW s \in SUBSET S
      PROVE  Worth(s) = IF s = {} THEN 0 ELSE pick(s) + f[s \ {pick(s)}]
  <2>1. CASE s = {}
    BY <2>1 DEF Worth
  <2>2. CASE s # {}
    <3>1. pick(s) \in s /\ s \ {pick(s)} \in SUBSET S /\ s \in SUBSET (1 .. 3)
      BY <1>1, <2>2
    <3>. HIDE DEF pick
    <3>2. f[s \ {pick(s)}] = Worth(s \ {pick(s)})
      BY <3>1
    <3>. HIDE DEF f
    <3>. QED  BY <2>2, <3>1, <3>2, WorthLess
  <2>. QED  BY <2>1, <2>2
<1>3. SumDefined(S, f)
  <2>1. f = [s \in SUBSET S |-> IF s = {} THEN 0 ELSE pick(s) + f[s \ {pick(s)}]]
    BY <1>2
  <2>. QED  BY <2>1 DEF SumDefined
<1>. HIDE DEF f
<1>4. SumDefined(S, c)
  BY <1>3
<1>. HIDE DEF c
<1>5. ASSUME NEW s \in SUBSET S
      PROVE  c[s] = IF s = {} THEN 0 ELSE pick(s) + c[s \ {pick(s)}]
  <2>1. c = [r \in SUBSET S |-> IF r = {} THEN 0 ELSE pick(r) + c[r \ {pick(r)}]]
    BY <1>4 DEF SumDefined
  <2>. QED  BY <2>1
<1>. HIDE DEF pick
<1>. DEFINE Right(s) == c[s] = Worth(s)
<1>6. ASSUME NEW s \in SUBSET S, \A x \in s : Right(s \ {x})
      PROVE  Right(s)
  <2>1. CASE s = {}
    BY <2>1, <1>5 DEF Worth
  <2>2. CASE s # {}
    <3>1. pick(s) \in s /\ s \in SUBSET (1 .. 3)
      BY <1>1, <2>2
    <3>2. c[s] = pick(s) + c[s \ {pick(s)}] /\ c[s \ {pick(s)}] = Worth(s \ {pick(s)})
      BY <1>5, <1>6, <2>2, <3>1
    <3>. QED  BY <3>1, <3>2, WorthLess
  <2>. QED  BY <2>1, <2>2
<1>. HIDE DEF Right
<1>7. Right({})
  BY <1>6
<1>8. \A a \in S : Right({a})
  <2>. SUFFICES ASSUME NEW a \in S
                PROVE  Right({a})
    OBVIOUS
  <2>1. \A x \in {a} : {a} \ {x} = {}
    OBVIOUS
  <2>. QED  BY <1>6, <1>7, <2>1
<1>9. \A a, b \in S : Right({a, b})
  <2>. SUFFICES ASSUME NEW a \in S, NEW b \in S
                PROVE  Right({a, b})
    OBVIOUS
  <2>1. \A x \in {a, b} : {a, b} \ {x} = {} \/ {a, b} \ {x} = {a} \/ {a, b} \ {x} = {b}
    OBVIOUS
  <2>. QED  BY <1>6, <1>7, <1>8, <2>1
<1>10. S \in SUBSET S /\ \A x \in S : \E a, b \in S : S \ {x} = {a, b} \/ S \ {x} = {}
  <2>1. \A x \in S : S \ {x} # {} => \E a, b \in S : S \ {x} = {a, b}
    <3>. SUFFICES ASSUME NEW x \in S, S \ {x} # {}
                  PROVE  \E a, b \in S : S \ {x} = {a, b}
      OBVIOUS
    <3>1. PICK a \in S \ {x} : TRUE
      OBVIOUS
    <3>2. CASE S \ {x} = {a}
      BY <3>1, <3>2
    <3>3. CASE S \ {x} # {a}
      <4>1. PICK b \in S \ {x} : b # a
        BY <3>1, <3>3
      <4>2. S \ {x} = {a, b}
        <5>1. x \in 1 .. 3 /\ a \in 1 .. 3 /\ b \in 1 .. 3 /\ x # a /\ x # b /\ a # b
          BY <3>1, <4>1
        <5>2. \A y \in 1 .. 3 : y = x \/ y = a \/ y = b
          BY <5>1
        <5>. QED  BY <3>1, <4>1, <5>2
      <4>. QED  BY <3>1, <4>1, <4>2
    <3>. QED  BY <3>2, <3>3
  <2>. QED  BY <2>1
<1>11. Right(S)
  <2>1. ASSUME NEW x \in S
        PROVE  Right(S \ {x})
    <3>1. CASE S \ {x} = {}
      BY <1>7, <3>1
    <3>2. ASSUME NEW a \in S, NEW b \in S, S \ {x} = {a, b}
          PROVE  Right(S \ {x})
      <4>1. Right({a, b})
        BY <1>9
      <4>. QED  BY <4>1, <3>2
    <3>. QED  BY <1>10, <3>1, <3>2
  <2>. QED  BY <2>1, <1>6
<1>12. c[S] = Worth(S)
  BY <1>11 DEF Right
<1>13. SumSet(S) = c[S]
  BY SumDef, Zenon DEF c
<1>. QED  BY <1>12, <1>13

\* One of the eight programs, where the invariant holds.
UsualOne == Usually0 /\ UsualControl /\ UsualData

\* The threads that have added, and their sum.
LEMMA AddedIs ==
  ASSUME UsualOne, program.name \in Counting
  PROVE  /\ Added = {t \in 1 .. Team : at[t] > CountAt}
         /\ Added \in SUBSET (1 .. 3)
         /\ \A t \in 1 .. 3 : at[t] > CountAt => t \in 1 .. Team
         /\ Worth(Added) = Total
<1>1. /\ Team \in 1 .. 3 /\ Workers = 1 .. Team
      /\ \A t \in 1 .. Team : Code(t) = program.body[t]
      /\ BodiesAre(program.body, program.name)
  BY Sizes0 DEF UsualOne
<1>2. at \in [0 .. 5 -> Nat] /\ \A t \in 1 .. Team : at[t] <= BodySize(t) + 1
  BY DEF UsualOne, UsualControl, UsualTypes
<1>3. ASSUME NEW t \in 1 .. Team
      PROVE  t \in Added <=> at[t] > CountAt
  <2>. DEFINE s == Code(t)
              adds(i) == s[i].name \in {"add", "store"}
  <2>1. BodyIs(s, t, program.name)
    BY <1>1 DEF BodiesAre, Team
  <2>2. at[t] \in Nat /\ at[t] <= Len(s) + 1 /\ t \in 1 .. 5
    <3>1. t \in 1 .. 5
      BY <1>1
    <3>2. Len(s) = BodySize(t)
      BY <1>1 DEF BodySize
    <3>3. at[t] <= BodySize(t) + 1
      BY <1>2
    <3>. QED  BY <1>2, <3>1, <3>2, <3>3
  <2>3. t \in Added <=> \E i \in 1 .. at[t] - 1 : adds(i)
    BY <1>1 DEF Added
  <2>. HIDE DEF s
  <2>4. /\ CountAt \in Nat /\ CountAt >= 1 /\ Len(s) \in Nat
        /\ \A i \in 1 .. Len(s) : adds(i) <=> i = CountAt
    <3>1. CASE program.name = "race_to_data"
      <4>1. CountAt = 1
        BY <3>1 DEF CountAt, Locked
      <4>2. /\ Len(s) = 3 /\ s[1].name = "add" /\ s[2].name = "load" /\ s[3].name = "show"
        BY <2>1, <3>1 DEF BodyIs, Op, Static
      <4>. QED  BY <4>1, <4>2
    <3>2. CASE program.name = "race_to_data_s"
      <4>1. CountAt = 2
        BY <3>2 DEF CountAt, Locked
      <4>2. /\ Len(s) = 4 /\ s[1].name = "load" /\ s[2].name = "store"
            /\ s[3].name = "load" /\ s[4].name = "show"
        BY <2>1, <3>2 DEF BodyIs, Op, Static
      <4>. QED  BY <4>1, <4>2
    <3>3. CASE program.name \in Locked
      <4>1. CountAt = 3
        BY <3>3 DEF CountAt
      <4>2. /\ Len(s) = 6 /\ s[1].name = "lock" /\ s[2].name = "load" /\ s[3].name = "store"
            /\ s[4].name = "load" /\ s[5].name = "show" /\ s[6].name = "unlock"
        BY <2>1, <3>3 DEF BodyIs, Op, Static
      <4>. QED  BY <4>1, <4>2
    <3>. QED  BY <3>1, <3>2, <3>3 DEF Counting
  <2>. HIDE DEF adds
  <2>5. (\E i \in 1 .. at[t] - 1 : adds(i)) <=> at[t] > CountAt
    <3>1. \A i \in 1 .. at[t] - 1 : i \in 1 .. Len(s)
      BY <2>2, <2>4
    <3>2. ASSUME NEW i \in 1 .. at[t] - 1, adds(i)
          PROVE  at[t] > CountAt
      BY <2>2, <2>4, <3>1, <3>2
    <3>3. ASSUME at[t] > CountAt
          PROVE  \E i \in 1 .. at[t] - 1 : adds(i)
      <4>1. CountAt \in 1 .. at[t] - 1
        BY <2>2, <2>4, <3>3
      <4>2. adds(CountAt)
        BY <2>4, <3>1, <4>1
      <4>. QED  BY <4>1, <4>2
    <3>. QED  BY <3>2, <3>3
  <2>. QED  BY <2>3, <2>5
<1>4. Added \subseteq 1 .. Team
  BY <1>1 DEF Added
<1>5. Added = {t \in 1 .. Team : at[t] > CountAt}
  BY <1>3, <1>4
<1>6. \A t \in 1 .. 3 : at[t] > CountAt => t \in 1 .. Team
  <2>1. \A t \in 1 .. 5 : at[t] > 0 => t <= Team
    BY DEF UsualOne, UsualControl, Started
  <2>2. CountAt \in 1 .. 3
    BY DEF CountAt
  <2>. QED  BY <1>1, <1>2, <2>1, <2>2
<1>7. Added \in SUBSET (1 .. 3)
  BY <1>1, <1>4
<1>8. \A t \in 1 .. 3 : t \in Added <=> at[t] > CountAt
  BY <1>5, <1>6
<1>9. Worth(Added) = Total
  BY <1>8 DEF Worth, Total, Share
<1>. QED  BY <1>5, <1>6, <1>7, <1>9

\* What the invariant says of the sums.
LEMMA AdditionsKeptHolds == UsualInv => AdditionsKept
<1>. SUFFICES ASSUME UsualInv
              PROVE  AdditionsKept
  OBVIOUS
<1>. DEFINE var == memory.shared_var
<1>1. ASSUME program.name \in Counting
      PROVE  /\ UsualOne /\ Added \in SUBSET (1 .. 3)
             /\ Added = {t \in 1 .. Team : at[t] > CountAt}
             /\ \A t \in 1 .. 3 : at[t] > CountAt => t \in 1 .. Team
             /\ SumSet(Added) = Total
  <2>1. UsualOne
    BY <1>1 DEF UsualInv, UsualOne, Usually0, Usual
  <2>. QED  BY <1>1, <2>1, AddedIs, SumIsWorth
<1>2. ASSUME program.name = "race_to_data"
      PROVE  var = SumSet(Added)
  <2>1. program.name \in Counting
    BY <1>2 DEF Counting
  <2>. QED  BY <1>1, <1>2, <2>1 DEF UsualOne, UsualData, AtomicSum
<1>3. ASSUME program.name \in Locked
      PROVE  /\ var = SumSet(Added)
             /\ \A i, j \in 1 .. Len(shown) : i < j => shown[i].sum < shown[j].sum
  <2>1. program.name \in Counting
    BY <1>3 DEF Counting
  <2>2. SumIs /\ ShownIs
    BY <1>1, <1>3, <2>1 DEF UsualOne, UsualData, LockedData
  <2>3. var = SumSet(Added)
    BY <1>1, <2>1, <2>2 DEF SumIs
  <2>. QED  BY <2>2, <2>3 DEF ShownIs
<1>4. ASSUME program.name = "race_to_data_s"
      PROVE  \E T \in SUBSET Added : var = SumSet(T) /\ (T = {} => Added = {})
  <2>1. program.name \in Counting /\ CountAt = 2 /\ Team = 2
    BY <1>4 DEF Counting, CountAt, Locked, Team, Num
  <2>2. Added = {t \in 1 .. 2 : at[t] > 2}
    BY <1>1, <2>1
  <2>3. TornSum /\ at[1] \in Nat /\ at[2] \in Nat
    BY <1>1, <2>1 DEF UsualOne, UsualData, UsualControl, UsualTypes
  <2>4. /\ SumSet({}) = 0 /\ SumSet({1}) = 1 /\ SumSet({2}) = 2 /\ SumSet({1, 2}) = 3
    <3>1. /\ Worth({}) = 0 /\ Worth({1}) = 1 /\ Worth({2}) = 2 /\ Worth({1, 2}) = 3
      BY DEF Worth
    <3>. QED  BY <3>1, SumIsWorth
  <2>5. CASE at[1] <= 2 /\ at[2] <= 2
    <3>1. Added = {} /\ var = 0
      BY <1>4, <2>2, <2>3, <2>5 DEF TornSum
    <3>. QED  BY <2>4, <3>1
  <2>6. CASE at[1] > 2 /\ at[2] <= 2
    <3>1. Added = {1} /\ var = 1
      BY <1>4, <2>2, <2>3, <2>6 DEF TornSum
    <3>. QED  BY <2>4, <3>1
  <2>7. CASE at[1] <= 2 /\ at[2] > 2
    <3>1. Added = {2} /\ var = 2
      BY <1>4, <2>2, <2>3, <2>7 DEF TornSum
    <3>. QED  BY <2>4, <3>1
  <2>8. CASE at[1] > 2 /\ at[2] > 2
    <3>1. Added = {1, 2} /\ var \in {1, 2, 3}
      BY <1>4, <2>2, <2>3, <2>8 DEF TornSum
    <3>2. {1} \subseteq Added /\ {2} \subseteq Added /\ {1, 2} \subseteq Added
      BY <3>1
    <3>3. \E T \in {{1}, {2}, {1, 2}} : var = SumSet(T)
      BY <2>4, <3>1
    <3>. QED  BY <3>2, <3>3
  <2>. QED  BY <2>3, <2>5, <2>6, <2>7, <2>8
<1>5. program.name \in Counting => program.name \in Locked \/ program.name = "race_to_data"
                                    \/ program.name = "race_to_data_s"
  BY DEF Counting
<1>6. program.name \in Locked => program.name # "race_to_data_s"
  BY DEF Locked
<1>. HIDE DEF var
<1>7. AdditionsKept <=>
        /\ program.name \in Counting =>
             IF program.name = "race_to_data_s"
               THEN \E T \in SUBSET Added : var = SumSet(T) /\ (T = {} => Added = {})
               ELSE var = SumSet(Added)
        /\ program.name \in Locked =>
             \A i, j \in 1 .. Len(shown) : i < j => shown[i].sum < shown[j].sum
  BY DEF AdditionsKept, var
<1>8. program.name \in Counting =>
        IF program.name = "race_to_data_s"
          THEN \E T \in SUBSET Added : var = SumSet(T) /\ (T = {} => Added = {})
          ELSE var = SumSet(Added)
  BY <1>2, <1>3, <1>4, <1>5
<1>9. program.name \in Locked =>
        \A i, j \in 1 .. Len(shown) : i < j => shown[i].sum < shown[j].sum
  BY <1>3
<1>. QED  BY <1>7, <1>8, <1>9

(***************************************************************************)
(* The four programs that count, in any number of runs: no addition to     *)
(* shared_var is lost where it is atomic (race_to_data.c) or under a lock  *)
(* (race_to_data_mutex.c, race_to_data_sem.c), and there the sums printed  *)
(* grow; where it is a load and a store (race_to_data.s) the sum is that   *)
(* of some of the additions, and not of none when there were any.          *)
(***************************************************************************)
THEOREM AdditionsAreKept == ProgramsSafetySpec => []AdditionsKept
BY UsualInvariant, AdditionsKeptHolds, PTL

-----------------------------------------------------------------------------
\* The cardinalities the proofs need.
LEMMA Counts ==
  Cardinality({}) = 0 /\ \A x : Cardinality({x}) = 1
<1>1. Cardinality({}) = 0
  BY FS_EmptySet
<1>2. ASSUME NEW x
      PROVE  Cardinality({x}) = 1
  BY FS_Singleton
<1>. QED  BY <1>1, <1>2

\* A thread holds the lock where it is inside.
LEMMA HoldsIs ==
  ASSUME UsualOne, program.name \in Locked, NEW t \in 1 .. 3
  PROVE  t \in Workers /\ (Holds(t) <=> Inside(t))
<1>1. program.name \in Usual /\ Team = 3
  BY DEF Usual, Counting, Team, Num, Locked
<1>2. /\ Workers = 1 .. 3 /\ Code(t) = program.body[t]
      /\ BodiesAre(program.body, program.name)
  BY <1>1, Sizes0 DEF UsualOne
<1>. DEFINE s == Code(t)
            L == {i \in 1 .. at[t] - 1 : s[i].name = "lock"}
            U == {i \in 1 .. at[t] - 1 : s[i].name = "unlock"}
<1>3. /\ Len(s) = 6 /\ s[1].name = "lock" /\ s[2].name = "load" /\ s[3].name = "store"
      /\ s[4].name = "load" /\ s[5].name = "show" /\ s[6].name = "unlock"
  <2>1. BodyIs(s, t, program.name)
    BY <1>1, <1>2 DEF BodiesAre, Team
  <2>. QED  BY <2>1 DEF BodyIs, Op, Static
<1>4. at[t] \in Nat /\ at[t] <= 7
  <2>1. at \in [0 .. 5 -> Nat] /\ at[t] <= BodySize(t) + 1
    BY <1>1 DEF UsualOne, UsualControl, UsualTypes
  <2>2. BodySize(t) = 6
    BY <1>2, <1>3 DEF BodySize
  <2>. QED  BY <2>1, <2>2
<1>5. Holds(t) <=> Cardinality(L) > Cardinality(U)
  BY Zenon DEF Holds
<1>. HIDE DEF s
<1>6. CASE at[t] <= 1
  <2>1. L = {} /\ U = {}
    BY <1>4, <1>6
  <2>. HIDE DEF L, U
  <2>. QED  BY <1>2, <1>4, <1>5, <1>6, <2>1, Counts DEF Inside
<1>7. CASE at[t] > 1 /\ at[t] <= 6
  <2>1. L = {1} /\ U = {}
    BY <1>3, <1>4, <1>7
  <2>2. Cardinality(L) = 1 /\ Cardinality(U) = 0
    BY <2>1, Counts
  <2>. HIDE DEF L, U
  <2>. QED  BY <1>2, <1>4, <1>5, <1>7, <2>2 DEF Inside
<1>8. CASE at[t] = 7
  <2>1. L = {1} /\ U = {6}
    BY <1>3, <1>8
  <2>2. Cardinality(L) = 1 /\ Cardinality(U) = 1
    BY <2>1, Counts
  <2>. HIDE DEF L, U
  <2>. QED  BY <1>2, <1>5, <1>8, <2>2 DEF Inside
<1>. QED  BY <1>4, <1>6, <1>7, <1>8

\* What the invariant says of the lock.
LEMMA LockExclusiveHolds ==
  UsualInv /\ program.name \in Usual => LockExclusive
<1>. SUFFICES ASSUME UsualInv, program.name \in Usual, found # Absent
              PROVE  /\ lock + Cardinality({t \in Workers : Holds(t)}) = found
                     /\ found = 0 => runs > 1 /\ Added = {} /\ shown = <<>>
  BY DEF LockExclusive
<1>1. UsualOne
  BY DEF UsualInv, UsualOne, Usually0
<1>2. program.name \in Locked /\ LockIs
  <2>1. Lockless /\ LockedData
    BY <1>1 DEF UsualOne, UsualData
  <2>. QED  BY <2>1 DEF Lockless, LockedData
<1>3. Workers = 1 .. 3
  <2>1. Team = 3
    BY <1>2 DEF Team, Num
  <2>. QED  BY <1>1, <2>1, Sizes0 DEF UsualOne
<1>. DEFINE H == {t \in Workers : Holds(t)}
<1>4. H = {t \in 1 .. 3 : Inside(t)}
  <2>1. \A t \in 1 .. 3 : Holds(t) <=> Inside(t)
    BY <1>1, <1>2, HoldsIs
  <2>. QED  BY <1>3, <2>1
<1>5. found \in {0, 1} /\ lock + Cardinality(H) = found
  <2>1. \A t \in 1 .. 3 : at[t] <= 1 => ~ Inside(t)
    <3>1. \A t \in 1 .. 3 : at[t] \in Nat
      BY <1>1 DEF UsualOne, UsualControl, UsualTypes
    <3>. QED  BY <3>1 DEF Inside
  <2>2. CASE found = 0
    <3>1. lock = 0 /\ H = {}
      BY <1>2, <1>4, <2>1, <2>2 DEF LockIs
    <3>. HIDE DEF H
    <3>. QED  BY <2>2, <3>1, Counts
  <2>3. CASE found = 1 /\ lock = 1 /\ \A t \in 1 .. 3 : ~ Inside(t)
    <3>1. lock = 1 /\ H = {}
      BY <1>4, <2>3
    <3>. HIDE DEF H
    <3>. QED  BY <2>3, <3>1, Counts
  <2>4. ASSUME found = 1, lock = 0, NEW t \in 1 .. 3, Inside(t),
               \A u \in 1 .. 3 \ {t} : ~ Inside(u)
        PROVE  found \in {0, 1} /\ lock + Cardinality(H) = found
    <3>1. H = {t}
      BY <1>4, <2>4
    <3>2. Cardinality(H) = 1
      BY <3>1, Counts
    <3>. HIDE DEF H
    <3>. QED  BY <2>4, <3>2
  <2>5. found \in {0, 1}
    BY <1>2 DEF LockIs
  <2>. HIDE DEF H
  <2>. QED  BY <1>2, <2>2, <2>3, <2>4, <2>5 DEF LockIs
<1>6. found = 0 => runs > 1 /\ Added = {} /\ shown = <<>>
  <2>. SUFFICES ASSUME found = 0
                PROVE  runs > 1 /\ Added = {} /\ shown = <<>>
    OBVIOUS
  <2>1. runs > 1 /\ shown = <<>> /\ \A t \in 1 .. 3 : at[t] <= 1
    BY <1>2 DEF LockIs
  <2>2. Added = {t \in 1 .. Team : at[t] > CountAt} /\ Team = 3 /\ CountAt = 3
    BY <1>1, <1>2, AddedIs DEF Counting, Team, Num, CountAt
  <2>3. \A t \in 1 .. 3 : at[t] \in Nat
    BY <1>1 DEF UsualOne, UsualControl, UsualTypes
  <2>4. Added = {}
    BY <2>1, <2>2, <2>3
  <2>. QED  BY <2>1, <2>4
<1>. QED  BY <1>5, <1>6

-----------------------------------------------------------------------------
(***************************************************************************)
(* The other three programs: the rest of the unsynchronised array's        *)
(* invariant, heap_stack and stack_shared_var.                             *)
(***************************************************************************)
\* What every program keeps.
Kept ==
  /\ runs \in 1 .. MaxRuns /\ status \in 0 .. 3
  /\ outcome \in {"running", "exited", "killed", "aborted", "undefined"}
  /\ stray \in {"none", "main", "local", "block", "lock",
                "null", "wild", "overrun", "handle"}
  /\ at \in [0 .. 5 -> Nat] /\ at[0] >= 1

Unlocked == reported = -1 /\ found = Absent /\ lock = Absent

(***************************************************************************)
(* The unsynchronised array: main() leaves at the first failed creation,   *)
(* and only then or when all threads are over does the process end.        *)
(***************************************************************************)
ArrayMore ==
  /\ Kept /\ Unlocked /\ at[0] <= 12
  /\ failed \subseteq 1 .. 5 /\ joinable \subseteq 1 .. 5
  /\ \A t \in failed : at[0] = 2 * t
  /\ \A t \in 1 .. 5 : at[0] >= 2 * t => t \in failed \/ at[t] > 0
  /\ outcome = "exited" /\ status = 0 =>
       at[0] = 12 /\ \A t \in 1 .. 5 : at[t] > Size(t)

(***************************************************************************)
(* heap_stack: the second thread exists only if the block does, and is     *)
(* over before the block is freed.                                         *)
(***************************************************************************)
Heap == program.name = "heap_stack"

HeapData ==
  /\ after \in [1 .. 5 -> SUBSET (1 .. 2)]
  /\ memory \in [shared_var : {0}, shared_int : {"null"}, block : {"null", "live", "freed"},
                 len : {0}, cells : [0 .. Length - 1 -> {"garbage"}]]
  /\ register \in [1 .. 5 -> {0}]

HeapTypes ==
  /\ Kept /\ Unlocked /\ at[0] <= 10
  /\ failed \subseteq 1 .. 2 /\ joinable \subseteq 1 .. 2
  /\ HeapData

HeapPlaces ==
  /\ at[1] <= 2 /\ at[2] <= 2
  /\ at[0] <= 2 => at[1] = 0
  /\ at[0] <= 4 => at[2] = 0
  /\ at[0] > 5 => failed = {}
  /\ at[0] > 6 => at[1] = 2 /\ 1 \notin joinable
  /\ at[0] > 7 => at[2] = 2 /\ 2 \notin joinable

HeapBlock ==
  /\ memory.block = "freed" <=> at[0] = 10
  /\ at[0] > 4 /\ outcome # "undefined" => memory.block # "null"
  /\ outcome = "undefined" => memory.block = "null"
  /\ outcome = "exited" /\ status = 0 => at[0] = 10

HeapState == HeapTypes /\ HeapPlaces /\ HeapBlock

(***************************************************************************)
(* stack_shared_var: a thread is at a barrier only where its body waits    *)
(* for it, and nobody passes one that the other has not reached.           *)
(***************************************************************************)
Shared == program.name = "stack_shared_var"

WaitsAt(t, b) == IF b = 2 THEN 3 ELSE IF t = 1 THEN 2 ELSE 1

Round(b) ==
  /\ \A t \in gathering[b] \cup released[b] : at[t] = WaitsAt(t, b)
  /\ \/ /\ released[b] = {} /\ gathering[b] # {1, 2}
        /\ \A t \in 1 .. 2 : at[t] <= WaitsAt(t, b)
     \/ /\ gathering[b] = {}
        /\ \A t \in 1 .. 2 : at[t] > WaitsAt(t, b) \/ t \in released[b]

SharedData ==
  /\ after \in [1 .. 5 -> SUBSET (1 .. 2)]
  /\ memory \in [shared_var : {0}, shared_int : {"null", "local"}, block : {"null"},
                 len : {0}, cells : [0 .. Length - 1 -> {"garbage"}]]
  /\ register \in [1 .. 5 -> {0}]

SharedTypes ==
  /\ Kept /\ Unlocked /\ at[0] <= 5
  /\ failed \subseteq 1 .. 2 /\ joinable \subseteq 1 .. 2
  /\ SharedData
  /\ gathering \in [1 .. 2 -> SUBSET (1 .. 2)] /\ released \in [1 .. 2 -> SUBSET (1 .. 2)]

SharedPlaces ==
  /\ \A t \in 1 .. 2 :
       /\ at[t] <= 4
       /\ at[0] <= t => at[t] = 0
       /\ t \in joinable => at[0] > t
       /\ t \in failed => at[t] = 0 /\ t \notin joinable /\ at[0] > t
       /\ at[0] > 2 + t /\ outcome # "undefined" =>
            (t \in failed \/ at[t] = 4) /\ t \notin joinable
  /\ memory.shared_int = IF at[1] > 1 THEN "local" ELSE "null"
  /\ outcome = "undefined" => stray = "handle"
  /\ outcome = "exited" /\ status = 0 => at[0] = 5

SharedState == SharedTypes /\ SharedPlaces /\ Round(1) /\ Round(2)

OthersInv ==
  /\ Array => ArrayMore
  /\ Heap => HeapState
  /\ Shared => SharedState

\* What a process may stray by.
Strange == {"main", "local", "block", "lock", "null", "wild", "overrun", "handle"}

\* A step of any thread of any program.
LEMMA AnyStep ==
  ASSUME at \in [0 .. 5 -> Nat], NEW t \in 0 .. 5, Step(t)
  PROVE  /\ outcome = "running" /\ Ready(t)
         /\ UNCHANGED <<program, runs, status, failed, joinable, reported, found>>
         /\ outcome' \in {"running", "undefined"} /\ stray' \in Strange \cup {stray}
         /\ Now(t).name \notin {"lock", "unlock"} => lock' = lock
         /\ UNCHANGED <<at, after>> \/ \E place \in Nat \ {0} : Goto(t, place)
<1>. DEFINE Rest == UNCHANGED <<program, runs, status, failed, joinable, reported, found>>
            Moved == UNCHANGED <<at, after>> \/ \E place \in Nat \ {0} : Goto(t, place)
            Goal == /\ outcome = "running" /\ Ready(t) /\ Rest
                    /\ outcome' \in {"running", "undefined"} /\ stray' \in Strange \cup {stray}
                    /\ Now(t).name \notin {"lock", "unlock"} => lock' = lock
                    /\ Moved
<1>0. at[t] + 1 \in Nat \ {0} /\ Length \div 2 + 1 \in Nat \ {0}
  BY Halves DEF Half
<1>1. Goto(t, at[t] + 1) => Moved
  BY <1>0
<1>2. Goto(t, Length \div 2 + 1) => Moved
  BY <1>0
<1>. HIDE DEF Moved
<1>3. ASSUME NEW name, Does(t, name)
      PROVE  outcome = "running" /\ Ready(t) /\ Now(t).name = name
  BY <1>3 DEF Does, Ready
<1>4. ASSUME NEW name, Works(t, name), UNCHANGED control,
             name \notin {"lock", "unlock"} => lock' = lock
      PROVE  Goal
  <2>1. Does(t, name) /\ Moved /\ UNCHANGED process
    BY <1>1, <1>4 DEF Works
  <2>. QED  BY <1>3, <1>4, <2>1 DEF process, control
<1>5. ASSUME NEW name, Touches(t, name)
      PROVE  Goal
  <2>1. Works(t, name) /\ UNCHANGED control /\ lock' = lock
    BY <1>5 DEF Touches
  <2>. QED  BY <1>4, <2>1
<1>6. ASSUME GoesAstray(t)
      PROVE  Goal
  <2>1. /\ Ready(t) /\ Goto(t, at[t] + 1) /\ outcome' = "undefined" /\ stray' \in Strange
        /\ UNCHANGED <<program, runs, status, control, data>>
    BY <1>6 DEF GoesAstray, Strange
  <2>. QED  BY <1>1, <2>1 DEF Ready, control, data
<1>7. ASSUME Wait(t)
      PROVE  Goal
  <2>1. Does(t, "wait") /\ UNCHANGED <<process, control, data>>
    BY <1>7 DEF Wait
  <2>2. UNCHANGED <<at, after>> \/ Goto(t, at[t] + 1)
    BY <1>7 DEF Wait
  <2>3. Moved
    BY <1>1, <2>2 DEF Moved
  <2>. QED  BY <1>3, <2>1, <2>3 DEF process, control, data
<1>8. ASSUME Cell(t)
      PROVE  Goal
  <2>1. CASE Does(t, "cell") /\ Goto(t, Length \div 2 + 1) /\ UNCHANGED <<process, control, data>>
    BY <1>2, <1>3, <2>1 DEF process, control, data
  <2>2. CASE Touches(t, "cell")
    BY <1>5, <2>2
  <2>. QED  BY <1>8, <2>1, <2>2 DEF Cell
<1>. HIDE DEF Goal
<1>9. malloc(t) \/ free(t) \/ Say(t) \/ Publish(t) \/ Add(t) \/ Store(t) \/ SetLength(t)
        \/ Terminate(t) \/ PrintArray(t) => Goal
  BY <1>5 DEF malloc, free, Say, Publish, Add, Store, SetLength, Terminate, PrintArray
<1>10. Load(t) \/ Show(t) \/ LoadPointer(t) => Goal
  <2>1. ASSUME NEW name, Works(t, name), UNCHANGED <<control, lock>>
        PROVE  Goal
    BY <1>4, <2>1
  <2>. QED  BY <2>1 DEF Load, Show, LoadPointer
<1>11. Lock(t) => Goal
  BY <1>4 DEF Lock
<1>12. Unlock(t) => Goal
  BY <1>4 DEF Unlock
<1>13. Goal
  BY <1>6, <1>7, <1>8, <1>9, <1>10, <1>11, <1>12 DEF Step
<1>. QED  BY <1>13 DEF Goal, Moved

\* A process that ends changes nothing else.
LEMMA EndIs ==
  ASSUME NEW how, NEW code, Ends(how, code)
  PROVE  /\ outcome = "running" /\ outcome' = how /\ status' = code
         /\ UNCHANGED <<program, runs, stray, at, after, failed, joinable, reported, found,
                        lock, memory, register, shown, avars>>
BY DEF Ends, control, data

\* main() passes an operation.
LEMMA PassIs ==
  ASSUME NEW name, Works(0, name)
  PROVE  /\ Ready(0) /\ outcome = "running" /\ Now(0).name = name /\ Now(0).object \notin Dead
         /\ at' = [at EXCEPT ![0] = at[0] + 1]
         /\ UNCHANGED <<program, runs, outcome, status, stray, after, avars>>
BY DEF Works, Does, Ready, Goto, process

\* main() creates a thread, or fails to.
LEMMA CreateIs ==
  ASSUME pthread_create
  PROVE  /\ Ready(0) /\ outcome = "running" /\ Now(0).name = "create"
         /\ Now(0).object \notin Dead
         /\ UNCHANGED <<program, runs, outcome, status, stray, after, reported, found,
                        lock, memory, register, shown, avars>>
         /\ \/ /\ at' = [at EXCEPT ![0] = at[0] + 1, ![Arg(0)] = 1]
               /\ joinable' = joinable \cup {Arg(0)} /\ failed' = failed
            \/ /\ at' = [at EXCEPT ![0] = at[0] + 1]
               /\ failed' = failed \cup {Arg(0)} /\ joinable' = joinable
BY DEF pthread_create, Does, Ready, process, data

\* The unsynchronised array runs.
ArrayIs ==
  /\ program.main = shared_array_raw.main /\ program.body = shared_array_raw.body
  /\ ArrayState /\ ArrayMore

\* Where main() of the unsynchronised array is.
LEMMA ArrayMainAt ==
  ASSUME ArrayIs, Ready(0)
  PROVE  /\ at[0] \in 1 .. 11 /\ Table
         /\ Now(0).name = "pthread_exit" => at[0] = 11
         /\ Now(0).name = "create" => Arg(0) \in 1 .. 5 /\ at[0] = 2 * Arg(0) - 1
         /\ Now(0).name = "check" =>
              Arg(0) = 1 /\ \E k \in 1 .. 5 : at[0] = 2 * k
<1>1. Table /\ ArrayTypes
  BY TableHolds DEF ArrayIs, ArrayState
<1>. DEFINE i == at[0]
<1>2. /\ i \in 1 .. 11
      /\ Now(0).name = IF i = 11 THEN "pthread_exit"
                       ELSE IF i % 2 = 1 THEN "create" ELSE "check"
      /\ i < 11 /\ i % 2 = 1 => Arg(0) = (i + 1) \div 2
  BY <1>1, MainNow
<1>3. ASSUME i \in 1 .. 10, i % 2 = 0
      PROVE  Arg(0) = 1
  <2>1. \A j \in 1 .. 10 :
          shared_array_raw.main[j] = IF j % 2 = 1 THEN Op("create", (j + 1) \div 2, "static")
                                     ELSE Op("check", 1, "static")
    BY MainTable
  <2>2. Now(0) = shared_array_raw.main[i]
    BY DEF Now, Code, ArrayIs
  <2>. HIDE DEF i
  <2>3. Now(0) = Op("check", 1, "static")
    BY <2>1, <2>2, <1>3
  <2>. QED  BY <2>3, OpIs DEF Arg
<1>. HIDE DEF i
<1>4. Now(0).name = "pthread_exit" => i = 11
  BY <1>2
<1>5. Now(0).name = "create" => Arg(0) \in 1 .. 5 /\ i = 2 * Arg(0) - 1
  <2>. SUFFICES ASSUME Now(0).name = "create"
                PROVE  Arg(0) \in 1 .. 5 /\ i = 2 * Arg(0) - 1
    OBVIOUS
  <2>1. i < 11 /\ i % 2 = 1
    BY <1>2
  <2>. QED  BY <1>2, <2>1
<1>6. Now(0).name = "check" => Arg(0) = 1 /\ \E k \in 1 .. 5 : i = 2 * k
  <2>. SUFFICES ASSUME Now(0).name = "check"
                PROVE  Arg(0) = 1 /\ \E k \in 1 .. 5 : i = 2 * k
    OBVIOUS
  <2>1. i \in 1 .. 10 /\ i % 2 # 1
    BY <1>2
  <2>2. i % 2 = 0
    BY <2>1
  <2>3. i \div 2 \in 1 .. 5 /\ i = 2 * (i \div 2)
    BY <2>1, <2>2
  <2>. QED  BY <1>3, <2>1, <2>2, <2>3
<1>. QED  BY <1>1, <1>2, <1>4, <1>5, <1>6 DEF i

\* A step of main() keeps the rest of the array's invariant.
LEMMA ArrayMoreMain ==
  ASSUME ArrayIs, Main
  PROVE  ArrayMore'
<1>. USE DEF ArrayIs, ArrayMore, Kept, Unlocked
<1>1. Table /\ ArrayState /\ ArrayTypes /\ at \in [0 .. 5 -> Nat]
  BY TableHolds DEF ArrayState
<1>2. /\ at' \in [0 .. 5 -> Nat] /\ at[0] <= at'[0]
      /\ \A t \in 1 .. 5 : at'[t] = at[t] \/ (at[t] = 0 /\ at'[t] = 1 /\ at'[0] >= 2 * t)
  BY <1>1, MainMoves
<1>3. pthread_create \/ CheckResults \/ pthread_exit \/ LastThreadEnds
  BY <1>1, WhatMainDoes
<1>4. CASE pthread_create
  <2>. DEFINE k == Arg(0)
  <2>1. /\ Ready(0) /\ outcome = "running" /\ Now(0).name = "create"
        /\ UNCHANGED <<program, runs, outcome, status, stray, reported, found, lock>>
        /\ \/ /\ at' = [at EXCEPT ![0] = at[0] + 1, ![k] = 1]
              /\ joinable' = joinable \cup {k} /\ failed' = failed
           \/ /\ at' = [at EXCEPT ![0] = at[0] + 1]
              /\ failed' = failed \cup {k} /\ joinable' = joinable
    BY <1>4, CreateIs
  <2>2. k \in 1 .. 5 /\ at[0] = 2 * k - 1
    BY <2>1, ArrayMainAt
  <2>. HIDE DEF k
  <2>3. failed = {}
    BY <1>1, <2>2
  <2>4. at'[0] = 2 * k /\ at'[0] = at[0] + 1
    BY <1>1, <2>1, <2>2
  <2>5. failed' \subseteq 1 .. 5 /\ joinable' \subseteq 1 .. 5
        /\ \A t \in failed' : at'[0] = 2 * t
    BY <2>1, <2>2, <2>3, <2>4
  <2>6. k \in failed' \/ at'[k] > 0
    BY <1>1, <2>1, <2>2
  <2>7. ASSUME NEW t \in 1 .. 5, at'[0] >= 2 * t
        PROVE  t \in failed' \/ at'[t] > 0
    <3>1. t = k \/ at[0] >= 2 * t
      BY <2>2, <2>4, <2>7
    <3>2. CASE at[0] >= 2 * t
      BY <1>1, <1>2, <2>3, <3>2
    <3>. QED  BY <2>6, <3>1, <3>2
  <2>. QED  BY <1>1, <1>2, <2>1, <2>2, <2>4, <2>5, <2>7
<1>5. ASSUME NEW how, NEW code \in 0 .. 3, Ends(how, code), how \in {"exited"},
             code = 0 => at[0] = 12 /\ \A t \in 1 .. 5 : at[t] > Size(t)
      PROVE  ArrayMore'
  BY <1>5, EndIs
<1>6. ASSUME NEW op, Works(0, op), UNCHANGED <<control, data>>, failed = {}, at[0] <= 11,
             \A t \in 1 .. 5 : at[0] + 1 >= 2 * t => at[0] >= 2 * t
      PROVE  ArrayMore'
  <2>1. /\ outcome = "running" /\ at' = [at EXCEPT ![0] = at[0] + 1]
        /\ UNCHANGED <<program, runs, outcome, status, stray, after>>
        /\ UNCHANGED <<failed, joinable, reported, found, lock>>
    BY <1>6, PassIs DEF control, data
  <2>2. at'[0] = at[0] + 1 /\ \A t \in 1 .. 5 : at'[t] = at[t]
    BY <1>1, <2>1
  <2>. QED  BY <1>1, <1>2, <1>6, <2>1, <2>2
<1>7. CASE CheckResults
  <2>1. CASE Works(0, "check") /\ Failures = {} /\ UNCHANGED <<control, data>>
    <3>1. Ready(0) /\ Now(0).name = "check"
      BY <2>1, PassIs
    <3>2. PICK k \in 1 .. 5 : at[0] = 2 * k
      BY <3>1, ArrayMainAt
    <3>3. \A t \in 1 .. 5 : at[0] + 1 >= 2 * t => at[0] >= 2 * t
      BY <3>2
    <3>. QED  BY <1>6, <2>1, <3>2, <3>3 DEF Failures
  <2>2. CASE Does(0, "check") /\ Ends("exited", Arg(0))
    <3>1. Arg(0) = 1
      BY <2>2, ArrayMainAt DEF Does
    <3>. QED  BY <1>5, <2>2, <3>1
  <2>. QED  BY <1>7, <2>1, <2>2 DEF CheckResults
<1>8. CASE pthread_exit
  <2>1. Works(0, "pthread_exit") /\ UNCHANGED <<control, data>>
    BY <1>8 DEF pthread_exit
  <2>2. at[0] = 11
    BY <2>1, PassIs, ArrayMainAt
  <2>3. failed = {} /\ \A t \in 1 .. 5 : at[0] + 1 >= 2 * t => at[0] >= 2 * t
    BY <2>2
  <2>. QED  BY <1>6, <2>1, <2>2, <2>3
<1>9. CASE LastThreadEnds
  <2>1. (\A t \in 0 .. 5 : at[t] > 0 => Over(t)) /\ Ends("exited", 0)
    BY <1>9 DEF LastThreadEnds
  <2>2. at[0] = 12
    <3>1. Over(0)
      BY <1>1, <2>1
    <3>2. Len(program.main) = 11
      BY <1>1 DEF Table
    <3>3. at[0] > 11
      BY <3>1, <3>2 DEF Over, Code
    <3>. QED  BY <1>1, <3>3
  <2>3. ASSUME NEW t \in 1 .. 5
        PROVE  at[t] > Size(t)
    <3>1. t \notin failed /\ at[0] >= 2 * t
      BY <2>2
    <3>2. at[t] > 0
      BY <2>2, <3>1
    <3>3. Over(t)
      BY <2>1, <3>2
    <3>. QED  BY <1>1, <3>3, BodySizes
  <2>. QED  BY <1>5, <2>1, <2>2, <2>3
<1>. QED  BY <1>3, <1>4, <1>7, <1>8, <1>9

\* So does a step of a thread.
LEMMA ArrayMoreStep ==
  ASSUME ArrayIs, NEW t \in 1 .. 5, Step(t)
  PROVE  ArrayMore'
<1>. USE DEF ArrayIs, ArrayMore, Kept, Unlocked
<1>1. Table /\ ArrayTypes /\ at \in [0 .. 5 -> Nat]
  BY TableHolds DEF ArrayState
<1>2. /\ outcome = "running" /\ Ready(t)
      /\ UNCHANGED <<program, runs, status, failed, joinable, reported, found>>
      /\ outcome' \in {"running", "undefined"} /\ stray' \in Strange \cup {stray}
      /\ Now(t).name \notin {"lock", "unlock"} => lock' = lock
      /\ UNCHANGED <<at, after>> \/ \E place \in Nat \ {0} : Goto(t, place)
  BY <1>1, AnyStep
<1>3. lock' = lock
  <2>1. Now(t).name \notin {"lock", "unlock"}
    <3>1. at[t] \in 1 .. Size(t)
      BY <1>1, <1>2, WorkerNow
    <3>2. CASE t = 1
      BY <1>1, <1>2, <3>2, WorkerNow DEF Op
    <3>3. CASE t \in {2, 3}
      <4>1. at[t] <= Half \/ at[t] = Half + 1 \/ at[t] = Half + 2
        BY <3>1, <3>3, Sizes, Halves
      <4>2. /\ at[t] <= Half => Now(t).name = "cell"
            /\ at[t] = Half + 1 => Now(t).name = "load_pointer"
            /\ at[t] = Half + 2 => Now(t).name = "terminate"
        BY <1>1, <1>2, <3>3, WorkerNow DEF Op
      <4>. QED  BY <4>1, <4>2
    <3>4. CASE t \in {4, 5}
      BY <1>1, <1>2, <3>4, WorkerNow DEF Op
    <3>. QED  BY <3>2, <3>3, <3>4
  <2>. QED  BY <1>2, <2>1
<1>4. /\ at' \in [0 .. 5 -> Nat] /\ at'[0] = at[0]
      /\ \A u \in 1 .. 5 : at[u] > 0 => at'[u] > 0
  <2>1. CASE UNCHANGED <<at, after>>
    BY <1>1, <2>1
  <2>2. ASSUME NEW place \in Nat \ {0}, Goto(t, place)
        PROVE  /\ at' \in [0 .. 5 -> Nat] /\ at'[0] = at[0]
               /\ \A u \in 1 .. 5 : at[u] > 0 => at'[u] > 0
    BY <1>1, <2>2 DEF Goto
  <2>. QED  BY <1>2, <2>1, <2>2
<1>5. stray' \in {"none", "main", "local", "block", "lock",
                  "null", "wild", "overrun", "handle"}
  BY <1>2 DEF Strange
<1>6. \A u \in 1 .. 5 : at[0] >= 2 * u => u \in failed \/ at'[u] > 0
  BY <1>4
<1>. QED  BY <1>2, <1>3, <1>4, <1>5, <1>6

\* And it holds at first.
LEMMA ArrayMoreInit == ProgramsInit => ArrayMore
<1>. SUFFICES ASSUME ProgramsInit
              PROVE  ArrayMore
  OBVIOUS
<1>1. Fresh /\ lock = Absent /\ runs = 1 /\ stray = "none"
  BY InitIs
<1>2. runs \in 1 .. MaxRuns
  BY <1>1, ThreadProgramsAssumption
<1>. QED  BY <1>1, <1>2 DEF Fresh, ArrayMore, Kept, Unlocked

-----------------------------------------------------------------------------
(***************************************************************************)
(* heap_stack: its table, and what keeps its invariant.                    *)
(***************************************************************************)
\* A sequence of operations that begins a table.
Spells(m, n, table) ==
  m \in Seq(AnyOp) /\ Len(m) = n /\ \A k \in 1 .. n : m[k] = table[k]

\* A concatenation of operations.
LEMMA GlueOps ==
  \A s, r \in Seq(AnyOp) :
    /\ s \o r \in Seq(AnyOp) /\ Len(s \o r) = Len(s) + Len(r)
    /\ \A k \in 1 .. Len(s) : (s \o r)[k] = s[k]
    /\ \A k \in 1 .. Len(r) : (s \o r)[Len(s) + k] = r[k]
BY Glue

\* More of the table.
LEMMA SpellsMore ==
  ASSUME NEW m, NEW n \in Nat, NEW table, Spells(m, n, table),
         NEW r \in Seq(AnyOp), NEW j \in Nat, Len(r) = j, \A k \in 1 .. j : r[k] = table[n + k]
  PROVE  Spells(m \o r, n + j, table)
<1>0. m \in Seq(AnyOp) /\ Len(m) = n /\ \A k \in 1 .. n : m[k] = table[k]
  BY DEF Spells
<1>1. /\ m \o r \in Seq(AnyOp) /\ Len(m \o r) = Len(m) + Len(r)
      /\ \A k \in 1 .. Len(m) : (m \o r)[k] = m[k]
      /\ \A k \in 1 .. Len(r) : (m \o r)[Len(m) + k] = r[k]
  BY <1>0, GlueOps, Zenon
<1>. DEFINE s == m \o r
<1>. HIDE DEF s
<1>2. /\ s \in Seq(AnyOp) /\ Len(s) = n + j
      /\ \A k \in 1 .. n : s[k] = table[k]
      /\ \A k \in 1 .. j : s[n + k] = table[n + k]
  BY <1>0, <1>1 DEF s
<1>3. ASSUME NEW k \in 1 .. n + j
      PROVE  s[k] = table[k]
  <2>1. CASE k <= n
    BY <1>2, <2>1
  <2>2. CASE k > n
    <3>1. k - n \in 1 .. j /\ n + (k - n) = k
      BY <2>2
    <3>. QED  BY <1>2, <3>1
  <2>. QED  BY <2>1, <2>2
<1>. QED  BY <1>2, <1>3 DEF Spells, s

\* One operation more of it.
LEMMA SpellsOne ==
  ASSUME NEW m, NEW n \in Nat, NEW table, Spells(m, n, table), NEW e \in AnyOp,
         table[n + 1] = e
  PROVE  Spells(m \o <<e>>, n + 1, table)
<1>. DEFINE r == <<e>>
<1>1. r \in Seq(AnyOp) /\ Len(r) = 1 /\ r[1] = e
  BY OneOp
<1>2. \A k \in 1 .. 1 : r[k] = table[n + k]
  BY <1>1
<1>. HIDE DEF r
<1>3. Spells(m \o r, n + 1, table)
  BY <1>1, <1>2, SpellsMore
<1>. QED  BY <1>3 DEF r

\* The first operation of it.
LEMMA SpellsFirst ==
  ASSUME NEW e \in AnyOp, NEW table, table[1] = e
  PROVE  Spells(<<e>>, 1, table)
BY OneOp DEF Spells

\* An operation for each thread more of it.
LEMMA SpellsEach ==
  ASSUME NEW m, NEW n \in Nat, NEW table, Spells(m, n, table), NEW name \in Names,
         NEW j \in Nat, \A k \in 1 .. j : table[n + k] = Op(name, k, "static")
  PROVE  Spells(m \o Each(name, j), n + j, table)
<1>1. /\ Each(name, j) \in Seq(AnyOp) /\ Len(Each(name, j)) = j
      /\ \A k \in 1 .. j : Each(name, j)[k] = Op(name, k, "static")
  BY EachTable
<1>2. \A k \in 1 .. j : Each(name, j)[k] = table[n + k]
  BY <1>1
<1>. QED  BY <1>1, <1>2, SpellsMore

\* The operations of main().
HeapOps ==
  [i \in 1 .. 10 |->
     CASE i = 1 -> Static("malloc")
       [] i = 2 -> Op("create", 1, "static")
       [] i = 3 -> Static("setstack")
       [] i = 4 -> Op("create", 2, "block")
       [] i = 5 -> Op("check", 2, "static")
       [] i = 6 -> Op("join", 1, "static")
       [] i = 7 -> Op("join", 2, "static")
       [] i = 8 -> Op("check", 3, "static")
       [] i = 9 -> Static("free")
       [] i = 10 -> Static("return")]

\* main() of heap_stack is its table.
LEMMA HeapMain == Spells(heap_stack.main, 10, HeapOps)
<1>. DEFINE a == Op("malloc", 0, "static")  c == Op("setstack", 0, "static")
            d == Op("create", 2, "block")  e == Op("check", 2, "static")
            h == Op("check", 3, "static")  i == Op("free", 0, "static")
            j == Op("return", 0, "static")
            B == Each("create", 1)  F == Each("join", 2)
<1>1. heap_stack.main
        = (((((((<<a>> \o B) \o <<c>>) \o <<d>>) \o <<e>>) \o F) \o <<h>>) \o <<i>>) \o <<j>>
  BY DEF heap_stack, Do, exit_if_failed
<1>2. /\ a \in AnyOp /\ c \in AnyOp /\ d \in AnyOp /\ e \in AnyOp /\ h \in AnyOp
      /\ i \in AnyOp /\ j \in AnyOp
      /\ "create" \in Names /\ "join" \in Names
  BY DEF Op, AnyOp, Names, Objects
<1>3. /\ HeapOps[1] = a /\ HeapOps[2] = Op("create", 1, "static") /\ HeapOps[3] = c
      /\ HeapOps[4] = d /\ HeapOps[5] = e /\ HeapOps[6] = Op("join", 1, "static")
      /\ HeapOps[7] = Op("join", 2, "static") /\ HeapOps[8] = h /\ HeapOps[9] = i
      /\ HeapOps[10] = j
  BY DEF HeapOps, Static
<1>. HIDE DEF a, c, d, e, h, i, j
<1>4. Spells(<<a>>, 1, HeapOps)
  BY <1>2, <1>3, SpellsFirst
<1>. DEFINE m2 == <<a>> \o B
<1>5. Spells(m2, 2, HeapOps)
  <2>1. \A k \in 1 .. 1 : HeapOps[1 + k] = Op("create", k, "static")
    BY <1>3
  <2>2. Spells(m2, 1 + 1, HeapOps)
    BY <1>2, <1>4, <2>1, SpellsEach
  <2>. QED  BY <2>2
<1>. HIDE DEF m2
<1>. DEFINE m3 == m2 \o <<c>>
<1>6. Spells(m3, 3, HeapOps)
  <2>1. Spells(m3, 2 + 1, HeapOps)
    BY <1>2, <1>3, <1>5, SpellsOne
  <2>. QED  BY <2>1
<1>. HIDE DEF m3
<1>. DEFINE m4 == m3 \o <<d>>
<1>7. Spells(m4, 4, HeapOps)
  <2>1. Spells(m4, 3 + 1, HeapOps)
    BY <1>2, <1>3, <1>6, SpellsOne
  <2>. QED  BY <2>1
<1>. HIDE DEF m4
<1>. DEFINE m5 == m4 \o <<e>>
<1>8. Spells(m5, 5, HeapOps)
  <2>1. Spells(m5, 4 + 1, HeapOps)
    BY <1>2, <1>3, <1>7, SpellsOne
  <2>. QED  BY <2>1
<1>. HIDE DEF m5
<1>. DEFINE m7 == m5 \o F
<1>9. Spells(m7, 7, HeapOps)
  <2>1. \A k \in 1 .. 2 : HeapOps[5 + k] = Op("join", k, "static")
    BY <1>3
  <2>2. Spells(m7, 5 + 2, HeapOps)
    BY <1>2, <1>8, <2>1, SpellsEach
  <2>. QED  BY <2>2
<1>. HIDE DEF m7
<1>. DEFINE m8 == m7 \o <<h>>
<1>10. Spells(m8, 8, HeapOps)
  <2>1. Spells(m8, 7 + 1, HeapOps)
    BY <1>2, <1>3, <1>9, SpellsOne
  <2>. QED  BY <2>1
<1>. HIDE DEF m8
<1>. DEFINE m9 == m8 \o <<i>>
<1>11. Spells(m9, 9, HeapOps)
  <2>1. Spells(m9, 8 + 1, HeapOps)
    BY <1>2, <1>3, <1>10, SpellsOne
  <2>. QED  BY <2>1
<1>. HIDE DEF m9
<1>12. Spells(m9 \o <<j>>, 10, HeapOps)
  <2>1. Spells(m9 \o <<j>>, 9 + 1, HeapOps)
    BY <1>2, <1>3, <1>11, SpellsOne
  <2>. QED  BY <2>1
<1>13. heap_stack.main = m9 \o <<j>>
  BY <1>1 DEF m2, m3, m4, m5, m7, m8, m9
<1>. QED  BY <1>12, <1>13

\* The bodies of heap_stack.
LEMMA HeapBody ==
  /\ DOMAIN heap_stack.body = 1 .. 2
  /\ \A t \in 1 .. 2 : Len(heap_stack.body[t]) = 1
  /\ heap_stack.body[1][1] = Op("say", 0, "static")
  /\ heap_stack.body[2][1] = Op("say", 0, "block")
<1>. DEFINE a == Says("static")  b == Says("block")
<1>1. heap_stack.body = <<a, b>>
  BY DEF heap_stack
<1>2. /\ Len(a) = 1 /\ a[1] = Op("say", 0, "static")
      /\ Len(b) = 1 /\ b[1] = Op("say", 0, "block")
  BY DEF Says
<1>. HIDE DEF a, b
<1>3. DOMAIN <<a, b>> = 1 .. 2 /\ <<a, b>>[1] = a /\ <<a, b>>[2] = b
  OBVIOUS
<1>. QED  BY <1>1, <1>2, <1>3

\* The operations of main().
SharedOps ==
  [i \in 1 .. 5 |->
     CASE i = 1 -> Op("create", 1, "static")
       [] i = 2 -> Op("create", 2, "static")
       [] i = 3 -> Op("join", 1, "static")
       [] i = 4 -> Op("join", 2, "static")
       [] i = 5 -> Static("return")]

\* main() of stack_shared_var is its table.
LEMMA SharedMain == Spells(stack_shared_var.main, 5, SharedOps)
<1>. DEFINE j == Op("return", 0, "static")
            B == Each("create", 2)  F == Each("join", 2)
<1>1. stack_shared_var.main = (B \o F) \o <<j>>
  BY DEF stack_shared_var, Do
<1>2. j \in AnyOp /\ "create" \in Names /\ "join" \in Names
  BY DEF Op, AnyOp, Names, Objects
<1>3. /\ SharedOps[1] = Op("create", 1, "static") /\ SharedOps[2] = Op("create", 2, "static")
      /\ SharedOps[3] = Op("join", 1, "static") /\ SharedOps[4] = Op("join", 2, "static")
      /\ SharedOps[5] = j
  BY DEF SharedOps, Static
<1>. HIDE DEF j
<1>4. Spells(B, 2, SharedOps)
  <2>1. B \in Seq(AnyOp) /\ Len(B) = 2 /\ \A k \in 1 .. 2 : B[k] = Op("create", k, "static")
    BY <1>2, EachTable
  <2>. HIDE DEF B
  <2>2. \A k \in 1 .. 2 : B[k] = SharedOps[k]
    BY <1>3, <2>1
  <2>. QED  BY <2>1, <2>2 DEF Spells
<1>. HIDE DEF B
<1>. DEFINE m4 == B \o F
<1>5. Spells(m4, 4, SharedOps)
  <2>1. \A k \in 1 .. 2 : SharedOps[2 + k] = Op("join", k, "static")
    BY <1>3
  <2>2. Spells(m4, 2 + 2, SharedOps)
    BY <1>2, <1>4, <2>1, SpellsEach
  <2>. QED  BY <2>2
<1>. HIDE DEF m4
<1>6. Spells(m4 \o <<j>>, 5, SharedOps)
  <2>1. Spells(m4 \o <<j>>, 4 + 1, SharedOps)
    BY <1>2, <1>3, <1>5, SpellsOne
  <2>. QED  BY <2>1
<1>. QED  BY <1>1, <1>6 DEF m4

\* The bodies of stack_shared_var.
LEMMA SharedBody ==
  /\ DOMAIN stack_shared_var.body = 1 .. 2
  /\ \A t \in 1 .. 2 : Len(stack_shared_var.body[t]) = 3
  /\ stack_shared_var.body[1][1] = Op("publish", 0, "static")
  /\ stack_shared_var.body[1][2] = Op("wait", 1, "main")
  /\ stack_shared_var.body[1][3] = Op("wait", 2, "main")
  /\ stack_shared_var.body[2][1] = Op("wait", 1, "main")
  /\ stack_shared_var.body[2][2] = Op("read", 0, "local")
  /\ stack_shared_var.body[2][3] = Op("wait", 2, "main")
<1>. DEFINE p == Op("publish", 0, "static")  v == Op("wait", 1, "main")
            w == Op("wait", 2, "main")  r == Op("read", 0, "local")
            a == <<p>> \o <<v, w>>  b == <<v, r, w>>
<1>1. stack_shared_var.body = <<a, b>>
  BY DEF stack_shared_var, Do
<1>2. /\ Len(a) = 3 /\ a[1] = p /\ a[2] = v /\ a[3] = w
  <2>. DEFINE s == <<p>>  q == <<v, w>>
  <2>1. /\ s \in Seq(AnyOp) /\ Len(s) = 1 /\ s[1] = p
        /\ q \in Seq(AnyOp) /\ Len(q) = 2 /\ q[1] = v /\ q[2] = w
    <3>1. p \in AnyOp /\ v \in AnyOp /\ w \in AnyOp
      BY DEF Op, AnyOp, Names, Objects
    <3>. HIDE DEF p, v, w
    <3>. QED  BY <3>1
  <2>. HIDE DEF s, q
  <2>. DEFINE x == s \o q
  <2>2. /\ Len(x) = Len(s) + Len(q)
        /\ \A k \in 1 .. Len(s) : x[k] = s[k]
        /\ \A k \in 1 .. Len(q) : x[Len(s) + k] = q[k]
    <3>1. s \in Seq(AnyOp) /\ q \in Seq(AnyOp)
      BY <2>1
    <3>. QED  BY <3>1, Glue
  <2>. HIDE DEF x
  <2>3. Len(x) = 3 /\ x[1] = s[1] /\ x[1 + 1] = q[1] /\ x[1 + 2] = q[2]
    BY <2>1, <2>2
  <2>. QED  BY <2>1, <2>3 DEF x, s, q
<1>. HIDE DEF p, v, w, r, a
<1>3. Len(b) = 3 /\ b[1] = v /\ b[2] = r /\ b[3] = w
  OBVIOUS
<1>. HIDE DEF b
<1>4. DOMAIN <<a, b>> = 1 .. 2 /\ <<a, b>>[1] = a /\ <<a, b>>[2] = b
  OBVIOUS
<1>5. /\ DOMAIN stack_shared_var.body = 1 .. 2
      /\ stack_shared_var.body[1] = a /\ stack_shared_var.body[2] = b
  BY <1>1, <1>4
<1>6. \A t \in 1 .. 2 : Len(stack_shared_var.body[t]) = 3
  BY <1>2, <1>3, <1>5
<1>7. /\ a[1] = Op("publish", 0, "static") /\ a[2] = Op("wait", 1, "main")
      /\ a[3] = Op("wait", 2, "main") /\ b[1] = Op("wait", 1, "main")
      /\ b[2] = Op("read", 0, "local") /\ b[3] = Op("wait", 2, "main")
  BY <1>2, <1>3 DEF p, v, w, r
<1>. QED  BY <1>5, <1>6, <1>7

\* heap_stack runs.
HeapIs ==
  program.main = heap_stack.main /\ program.body = heap_stack.body /\ HeapState

\* Where main() and the threads of heap_stack are.
LEMMA HeapWhere ==
  ASSUME HeapIs
  PROVE  /\ Workers = 1 .. 2 /\ ~ Over(0)
         /\ \A t \in 1 .. 2 : Over(t) <=> at[t] > 1
         /\ Ready(0) => at[0] \in 1 .. 10 /\ Now(0) = HeapOps[at[0]]
         /\ \A t \in 1 .. 2 : Ready(t) =>
              at[t] = 1 /\ Now(t) = Op("say", 0, IF t = 1 THEN "static" ELSE "block")
<1>. USE DEF HeapIs, HeapState, HeapTypes, Kept
<1>1. at \in [0 .. 5 -> Nat] /\ at[0] \in 1 .. 10
  OBVIOUS
<1>2. Code(0) = program.main /\ \A t \in 1 .. 2 : Code(t) = program.body[t]
  BY DEF Code
<1>3. Len(Code(0)) = 10 /\ \A k \in 1 .. 10 : Code(0)[k] = HeapOps[k]
  BY <1>2, HeapMain DEF Spells
<1>4. ~ Over(0)
  <2>. DEFINE size == Len(Code(0))
  <2>1. size = 10
    BY <1>3
  <2>2. Over(0) <=> at[0] > size
    BY DEF Over
  <2>. HIDE DEF size
  <2>. QED  BY <1>1, <2>1, <2>2
<1>5. Now(0) = HeapOps[at[0]]
  BY <1>1, <1>3 DEF Now
<1>6. \A t \in 1 .. 2 : Len(Code(t)) = 1
  BY <1>2, HeapBody
<1>7. \A t \in 1 .. 2 : Over(t) <=> at[t] > 1
  BY <1>6 DEF Over
<1>8. ASSUME NEW t \in 1 .. 2, Ready(t)
      PROVE  at[t] = 1 /\ Now(t) = Op("say", 0, IF t = 1 THEN "static" ELSE "block")
  <2>1. at[t] = 1
    BY <1>1, <1>7, <1>8 DEF Ready
  <2>2. Now(t) = program.body[t][1]
    BY <1>2, <2>1 DEF Now
  <2>3. t = 1 \/ t = 2
    OBVIOUS
  <2>. QED  BY <2>1, <2>2, <2>3, HeapBody
<1>9. Workers = 1 .. 2
  BY HeapBody DEF Workers
<1>. QED  BY <1>1, <1>4, <1>5, <1>7, <1>8, <1>9

\* What main() of heap_stack does, and where.
LEMMA HeapDoes ==
  ASSUME HeapIs, NEW op, Does(0, op)
  PROVE  /\ outcome = "running" /\ Ready(0)
         /\ \/ op = "malloc" /\ at[0] = 1 /\ Now(0).object = "static"
            \/ op = "create" /\ at[0] = 2 /\ Arg(0) = 1 /\ Now(0).object = "static"
            \/ op = "setstack" /\ at[0] = 3 /\ Now(0).object = "static"
            \/ op = "create" /\ at[0] = 4 /\ Arg(0) = 2 /\ Now(0).object = "block"
            \/ op = "check" /\ at[0] = 5 /\ Arg(0) = 2 /\ Now(0).object = "static"
            \/ op = "join" /\ at[0] = 6 /\ Arg(0) = 1 /\ Now(0).object = "static"
            \/ op = "join" /\ at[0] = 7 /\ Arg(0) = 2 /\ Now(0).object = "static"
            \/ op = "check" /\ at[0] = 8 /\ Arg(0) = 3 /\ Now(0).object = "static"
            \/ op = "free" /\ at[0] = 9 /\ Now(0).object = "static"
            \/ op = "return" /\ at[0] = 10 /\ Now(0).object = "static"
<1>1. /\ Ready(0) /\ outcome = "running" /\ Now(0).name = op
      /\ at[0] \in 1 .. 10 /\ Now(0) = HeapOps[at[0]]
  BY HeapWhere DEF Does, Ready
<1>2. at[0] = 1 => Now(0) = Op("malloc", 0, "static")
  BY <1>1 DEF HeapOps, Static
<1>3. at[0] = 2 => Now(0) = Op("create", 1, "static")
  BY <1>1 DEF HeapOps, Static
<1>4. at[0] = 3 => Now(0) = Op("setstack", 0, "static")
  BY <1>1 DEF HeapOps, Static
<1>5. at[0] = 4 => Now(0) = Op("create", 2, "block")
  BY <1>1 DEF HeapOps, Static
<1>6. at[0] = 5 => Now(0) = Op("check", 2, "static")
  BY <1>1 DEF HeapOps, Static
<1>7. at[0] = 6 => Now(0) = Op("join", 1, "static")
  BY <1>1 DEF HeapOps, Static
<1>8. at[0] = 7 => Now(0) = Op("join", 2, "static")
  BY <1>1 DEF HeapOps, Static
<1>9. at[0] = 8 => Now(0) = Op("check", 3, "static")
  BY <1>1 DEF HeapOps, Static
<1>10. at[0] = 9 => Now(0) = Op("free", 0, "static")
  BY <1>1 DEF HeapOps, Static
<1>11. at[0] = 10 => Now(0) = Op("return", 0, "static")
  BY <1>1 DEF HeapOps, Static
<1>12. /\ at[0] = 1 \/ at[0] = 2 \/ at[0] = 3 \/ at[0] = 4 \/ at[0] = 5 \/ at[0] = 6
          \/ at[0] = 7 \/ at[0] = 8 \/ at[0] = 9 \/ at[0] = 10
  BY <1>1
<1>13. \A name, arg, object :
         /\ Op(name, arg, object).name = name /\ Op(name, arg, object).arg = arg
         /\ Op(name, arg, object).object = object
  BY OpIs
<1>. QED
  BY <1>1, <1>2, <1>3, <1>4, <1>5, <1>6, <1>7, <1>8, <1>9, <1>10, <1>11, <1>12, <1>13
     DEF Arg

\* What of the block is alive.
LEMMA HeapDead ==
  ASSUME HeapIs
  PROVE  /\ "static" \notin Dead
         /\ "block" \in Dead <=> memory.block # "live"
         /\ memory.block \in {"null", "live", "freed"}
<1>1. memory.block \in {"null", "live", "freed"}
  BY DEF HeapIs, HeapState, HeapTypes, HeapData
<1>. QED  BY <1>1, TheDead

\* main() goes on, and no thread or memory changes.
HeapOn ==
  /\ outcome = "running" /\ outcome' = "running"
  /\ UNCHANGED <<program, runs, status, stray, after, reported, found, lock, register, memory>>
  /\ at' = [at EXCEPT ![0] = at[0] + 1]
  /\ failed' \subseteq 1 .. 2 /\ joinable' \subseteq 1 .. 2
  /\ at[0] \in 3 .. 8
  /\ at[0] >= 5 => failed' = {}
  /\ at[0] = 4 => memory.block = "live"
  /\ at[0] >= 6 => at[1] = 2 /\ 1 \notin joinable'
  /\ at[0] >= 7 => at[2] = 2 /\ 2 \notin joinable'

\* Such a step of main() keeps the invariant.
LEMMA HeapGoesOn ==
  ASSUME HeapIs, HeapOn
  PROVE  HeapState'
<1>1. /\ at \in [0 .. 5 -> Nat] /\ at[0] >= 1 /\ at' \in [0 .. 5 -> Nat]
      /\ at'[0] = at[0] + 1 /\ at'[1] = at[1] /\ at'[2] = at[2]
  BY DEF HeapIs, HeapState, HeapTypes, Kept, HeapOn
<1>2. HeapTypes'
  <2>1. Kept' /\ at'[0] <= 10
    BY <1>1 DEF HeapIs, HeapState, HeapTypes, Kept, HeapOn
  <2>2. Unlocked' /\ failed' \subseteq 1 .. 2 /\ joinable' \subseteq 1 .. 2
    BY DEF HeapIs, HeapState, HeapTypes, Unlocked, HeapOn
  <2>3. HeapData'
    BY DEF HeapIs, HeapState, HeapTypes, HeapData, HeapOn
  <2>. QED  BY <2>1, <2>2, <2>3 DEF HeapTypes
<1>3. HeapPlaces'
  BY <1>1 DEF HeapIs, HeapState, HeapPlaces, HeapOn
<1>4. HeapBlock'
  BY <1>1 DEF HeapIs, HeapState, HeapBlock, HeapOn
<1>. QED  BY <1>2, <1>3, <1>4 DEF HeapState

\* So does the creation of a thread.
LEMMA HeapCreates ==
  ASSUME HeapIs, pthread_create
  PROVE  HeapState'
<1>. USE DEF HeapIs, HeapState
<1>. DEFINE k == Arg(0)
<1>1. /\ Ready(0) /\ outcome = "running" /\ Now(0).name = "create"
      /\ Now(0).object \notin Dead
      /\ UNCHANGED <<program, runs, outcome, status, stray, after, reported, found,
                     lock, memory, register>>
      /\ \/ /\ at' = [at EXCEPT ![0] = at[0] + 1, ![k] = 1]
            /\ joinable' = joinable \cup {k} /\ failed' = failed
         \/ /\ at' = [at EXCEPT ![0] = at[0] + 1]
            /\ failed' = failed \cup {k} /\ joinable' = joinable
  BY CreateIs
<1>2. \/ at[0] = 2 /\ k = 1
      \/ at[0] = 4 /\ k = 2 /\ memory.block = "live"
  <2>1. Does(0, "create")
    BY <1>1 DEF Does
  <2>2. \/ at[0] = 2 /\ k = 1
        \/ at[0] = 4 /\ k = 2 /\ Now(0).object = "block"
    BY <2>1, HeapDoes
  <2>. QED  BY <1>1, <2>2, HeapDead
<1>. HIDE DEF k
<1>3. /\ at \in [0 .. 5 -> Nat] /\ at' \in [0 .. 5 -> Nat] /\ at'[0] = at[0] + 1
      /\ \A t \in 1 .. 2 : at'[t] = at[t] \/ (t = k /\ at'[t] = 1)
  BY <1>1, <1>2 DEF HeapTypes, Kept
<1>4. HeapTypes'
  <2>1. Kept' /\ at'[0] <= 10
    BY <1>1, <1>2, <1>3 DEF HeapTypes, Kept
  <2>2. Unlocked' /\ failed' \subseteq 1 .. 2 /\ joinable' \subseteq 1 .. 2
    <3>1. failed \subseteq 1 .. 2 /\ joinable \subseteq 1 .. 2 /\ k \in 1 .. 2
      BY <1>2 DEF HeapTypes
    <3>2. Unlocked'
      BY <1>1 DEF HeapTypes, Unlocked
    <3>. QED  BY <1>1, <3>1, <3>2
  <2>3. HeapData'
    BY <1>1 DEF HeapTypes, HeapData
  <2>. QED  BY <2>1, <2>2, <2>3 DEF HeapTypes
<1>5. HeapPlaces'
  BY <1>2, <1>3 DEF HeapPlaces
<1>6. HeapBlock'
  BY <1>1, <1>2, <1>3 DEF HeapBlock
<1>. QED  BY <1>4, <1>5, <1>6

\* So does the end of the process.
LEMMA HeapEnds ==
  ASSUME HeapIs, NEW code \in 0 .. 3, Ends("exited", code), code = 0 => at[0] = 10
  PROVE  HeapState'
<1>. USE DEF HeapIs, HeapState
<1>1. /\ outcome = "running" /\ outcome' = "exited" /\ status' = code
      /\ UNCHANGED <<program, runs, stray, at, after, failed, joinable, reported, found,
                     lock, memory, register>>
  BY EndIs
<1>2. HeapTypes'
  BY <1>1 DEF HeapTypes, HeapData, Kept, Unlocked
<1>3. HeapPlaces'
  BY <1>1 DEF HeapPlaces
<1>4. HeapBlock'
  BY <1>1 DEF HeapBlock
<1>. QED  BY <1>2, <1>3, <1>4

\* Every step of main() keeps it.
LEMMA HeapMainKeeps ==
  ASSUME HeapIs, Main
  PROVE  HeapState'
<1>1. ASSUME NEW op, op \notin {"malloc", "create", "setstack", "check", "join", "free", "return"}
      PROVE  ~ Does(0, op) /\ ~ Works(0, op)
  BY <1>1, HeapDoes DEF Works
<1>2. pthread_create \/ CheckResults \/ pthread_join \/ Return \/ setstack
  <2>1. ~ pthread_detach /\ ~ pthread_exit /\ ~ Report /\ ~ spin_init /\ ~ sem_open /\ ~ Close
    BY <1>1 DEF pthread_detach, pthread_exit, Report, spin_init, sem_open, Close
  <2>2. ~ LastThreadEnds
    <3>1. at[0] > 0 /\ ~ Over(0)
      BY HeapWhere DEF HeapIs, HeapState, HeapTypes, Kept
    <3>. QED  BY <3>1 DEF LastThreadEnds
  <2>. QED  BY <2>1, <2>2 DEF Main
<1>3. CASE pthread_create
  BY <1>3, HeapCreates
<1>4. ASSUME NEW op, Works(0, op)
      PROVE  /\ outcome = "running" /\ Does(0, op)
             /\ at' = [at EXCEPT ![0] = at[0] + 1]
             /\ UNCHANGED <<program, runs, outcome, status, stray, after>>
  BY <1>4, PassIs DEF Works
<1>5. /\ failed \subseteq 1 .. 2 /\ joinable \subseteq 1 .. 2
      /\ at[0] > 5 => failed = {}
      /\ at[0] > 6 => at[1] = 2 /\ 1 \notin joinable
      /\ at[0] > 7 => at[2] = 2 /\ 2 \notin joinable
      /\ at[1] <= 2 /\ at[2] <= 2 /\ at \in [0 .. 5 -> Nat]
  BY DEF HeapIs, HeapState, HeapTypes, HeapPlaces, Kept
<1>6. CASE CheckResults
  <2>1. CASE Works(0, "check") /\ Failures = {} /\ UNCHANGED <<control, data>>
    <3>1. at[0] = 5 \/ at[0] = 8
      BY <2>1, <1>4, HeapDoes
    <3>2. UNCHANGED <<reported, found, lock, register, memory, failed, joinable>> /\ failed = {}
      BY <2>1 DEF control, data, Failures
    <3>3. HeapOn
      BY <1>4, <1>5, <2>1, <3>1, <3>2 DEF HeapOn
    <3>. QED  BY <3>3, HeapGoesOn
  <2>2. CASE Does(0, "check") /\ Ends("exited", Arg(0))
    <3>1. Arg(0) = 2 \/ Arg(0) = 3
      BY <2>2, HeapDoes
    <3>. QED  BY <2>2, <3>1, HeapEnds
  <2>. QED  BY <1>6, <2>1, <2>2 DEF CheckResults
<1>7. CASE pthread_join
  <2>. DEFINE k == Arg(0)
  <2>1. /\ Works(0, "join") /\ (k \in failed \/ Over(k)) /\ joinable' = joinable \ {k}
        /\ UNCHANGED <<failed, reported, found, data>>
    BY <1>7 DEF pthread_join
  <2>2. (at[0] = 6 /\ k = 1) \/ (at[0] = 7 /\ k = 2)
    BY <1>4, <2>1, HeapDoes
  <2>. HIDE DEF k
  <2>3. UNCHANGED <<reported, found, lock, register, memory, failed>> /\ failed = {}
    BY <1>5, <2>1, <2>2 DEF data
  <2>4. at[k] = 2
    <3>1. k \in 1 .. 2 /\ Over(k)
      BY <2>1, <2>2, <2>3
    <3>2. at[k] > 1
      BY <3>1, HeapWhere
    <3>. QED  BY <1>5, <2>2, <3>2
  <2>5. /\ joinable' \subseteq 1 .. 2
        /\ at[0] >= 6 => at[1] = 2 /\ 1 \notin joinable'
        /\ at[0] >= 7 => at[2] = 2 /\ 2 \notin joinable'
    <3>1. joinable' = joinable \ {k} /\ joinable \subseteq 1 .. 2
      BY <1>5, <2>1
    <3>2. CASE at[0] = 6 /\ k = 1
      BY <2>4, <3>1, <3>2
    <3>3. CASE at[0] = 7 /\ k = 2
      <4>1. at[1] = 2 /\ 1 \notin joinable
        BY <1>5, <3>3
      <4>. QED  BY <2>4, <3>1, <3>3, <4>1
    <3>. QED  BY <2>2, <3>2, <3>3
  <2>6. HeapOn
    <3>1. /\ outcome = "running" /\ at' = [at EXCEPT ![0] = at[0] + 1]
          /\ UNCHANGED <<program, runs, outcome, status, stray, after>>
      BY <1>4, <2>1
    <3>2. at[0] \in 3 .. 8 /\ at[0] # 4
      BY <2>2
    <3>. QED  BY <1>5, <2>3, <2>5, <3>1, <3>2 DEF HeapOn
  <2>. QED  BY <2>6, HeapGoesOn
<1>8. CASE Return
  <2>1. Does(0, "return") /\ Ends("exited", 0)
    BY <1>8 DEF Return
  <2>2. at[0] = 10
    BY <2>1, HeapDoes
  <2>. QED  BY <2>1, <2>2, HeapEnds
<1>9. CASE setstack
  <2>1. CASE Works(0, "setstack") /\ UNCHANGED <<control, data>>
    <3>1. at[0] = 3
      BY <2>1, <1>4, HeapDoes
    <3>2. UNCHANGED <<reported, found, lock, register, memory, failed, joinable>>
      BY <2>1 DEF control, data
    <3>3. HeapOn
      BY <1>4, <1>5, <2>1, <3>1, <3>2 DEF HeapOn
    <3>. QED  BY <3>3, HeapGoesOn
  <2>2. CASE Ends("exited", 1)
    BY <2>2, HeapEnds
  <2>. QED  BY <1>9, <2>1, <2>2 DEF setstack
<1>. QED  BY <1>2, <1>3, <1>6, <1>7, <1>8, <1>9

\* A step that goes astray.
LEMMA AstrayIs ==
  ASSUME NEW t, GoesAstray(t)
  PROVE  /\ Ready(t) /\ outcome = "running" /\ outcome' = "undefined"
         /\ Goto(t, at[t] + 1)
         /\ UNCHANGED <<program, runs, status, failed, joinable, reported, found,
                        lock, memory, register, shown, avars>>
         /\ stray' \in Strange /\ Strays(t, stray')
BY DEF GoesAstray, Ready, control, data, Strange

\* Only a null block leads astray, and then main(), which has not created the
\* thread that uses it.
LEMMA HeapStrays ==
  ASSUME HeapIs, NEW t \in 0 .. 2, GoesAstray(t)
  PROVE  t = 0 /\ at[0] = 4 /\ memory.block = "null"
<1>1. /\ Ready(t) /\ outcome = "running" /\ Strays(t, stray')
  BY AstrayIs
<1>2. "static" \notin Dead /\ ("block" \in Dead <=> memory.block # "live")
      /\ memory.block \in {"null", "live", "freed"}
  BY HeapDead
<1>3. CASE t = 0
  <2>1. Does(0, Now(0).name)
    BY <1>1, <1>3 DEF Does
  <2>. DEFINE op == Now(0).name
  <2>2. \/ op = "malloc" /\ at[0] = 1 /\ Now(0).object = "static"
        \/ op = "create" /\ at[0] = 2 /\ Arg(0) = 1 /\ Now(0).object = "static"
        \/ op = "setstack" /\ at[0] = 3 /\ Now(0).object = "static"
        \/ op = "create" /\ at[0] = 4 /\ Arg(0) = 2 /\ Now(0).object = "block"
        \/ op = "check" /\ at[0] = 5 /\ Arg(0) = 2 /\ Now(0).object = "static"
        \/ op = "join" /\ at[0] = 6 /\ Arg(0) = 1 /\ Now(0).object = "static"
        \/ op = "join" /\ at[0] = 7 /\ Arg(0) = 2 /\ Now(0).object = "static"
        \/ op = "check" /\ at[0] = 8 /\ Arg(0) = 3 /\ Now(0).object = "static"
        \/ op = "free" /\ at[0] = 9 /\ Now(0).object = "static"
        \/ op = "return" /\ at[0] = 10 /\ Now(0).object = "static"
    BY <2>1, HeapDoes
  <2>3. at[0] > 5 => failed = {}
    BY DEF HeapIs, HeapState, HeapPlaces
  <2>4. op # "join"
    <3>. SUFFICES ASSUME op = "join"
                  PROVE  FALSE
      OBVIOUS
    <3>1. Arg(0) \in failed
      BY <1>1, <1>3 DEF Strays
    <3>2. at[0] > 5
      BY <2>2
    <3>. QED  BY <2>3, <3>1, <3>2
  <2>5. Now(0).object \in Dead
    <3>1. op \notin {"cell", "terminate", "print_array", "join"}
      BY <2>2, <2>4
    <3>. QED  BY <1>1, <1>3, <3>1 DEF Strays
  <2>6. at[0] = 4 /\ memory.block # "live"
    BY <1>2, <2>2, <2>5
  <2>7. memory.block # "freed"
    BY <2>6 DEF HeapIs, HeapState, HeapBlock
  <2>. QED  BY <1>2, <1>3, <2>6, <2>7
<1>4. CASE t \in 1 .. 2
  <2>1. at[t] = 1 /\ Now(t) = Op("say", 0, IF t = 1 THEN "static" ELSE "block")
    BY <1>1, <1>4, HeapWhere
  <2>2. Now(t).name = "say" /\ Now(t).object = IF t = 1 THEN "static" ELSE "block"
    BY <2>1 DEF Op
  <2>3. Now(t).object \in Dead
    BY <1>1, <2>2 DEF Strays
  <2>4. t = 2 /\ memory.block # "live"
    BY <1>2, <1>4, <2>2, <2>3
  <2>5. at[0] > 4 /\ at[0] <= 7
    BY <2>1, <2>4 DEF HeapIs, HeapState, HeapPlaces, HeapTypes, Kept
  <2>6. memory.block # "null" /\ memory.block # "freed"
    BY <1>1, <2>5 DEF HeapIs, HeapState, HeapBlock
  <2>. QED  BY <1>2, <2>4, <2>6
<1>. QED  BY <1>3, <1>4

\* A step that is not astray frees or fills the block, or only prints.
LEMMA HeapSteps ==
  ASSUME HeapIs, NEW t \in 0 .. 2, Step(t), ~ GoesAstray(t)
  PROVE  /\ outcome = "running" /\ outcome' = "running" /\ Goto(t, at[t] + 1)
         /\ UNCHANGED <<program, runs, status, stray, failed, joinable, reported, found,
                        lock, register>>
         /\ \/ t \in 1 .. 2 /\ memory' = memory /\ at[t] = 1
            \/ /\ t = 0 /\ at[0] = 1
               /\ \E block \in {"null", "live"} : memory' = [memory EXCEPT !.block = block]
            \/ /\ t = 0 /\ at[0] = 9
               /\ memory' = [memory EXCEPT !.block = IF @ = "live" THEN "freed" ELSE @]
<1>1. ASSUME NEW name, Does(t, name)
      PROVE  /\ t = 0 => /\ name \in {"malloc", "create", "setstack", "check", "join", "free",
                                      "return"}
                         /\ name = "malloc" => at[0] = 1
                         /\ name = "free" => at[0] = 9
             /\ t \in 1 .. 2 => name = "say" /\ at[t] = 1
  <2>1. CASE t = 0
    BY <1>1, <2>1, HeapDoes
  <2>2. CASE t \in 1 .. 2
    BY <1>1, <2>2, HeapWhere DEF Does, Op
  <2>. QED  BY <2>1, <2>2
<1>2. ASSUME NEW name, name \notin {"malloc", "create", "setstack", "check", "join", "free",
                                    "return", "say"}
      PROVE  ~ Does(t, name) /\ ~ Works(t, name) /\ ~ Touches(t, name)
  <2>1. t = 0 \/ t \in 1 .. 2
    OBVIOUS
  <2>. QED  BY <1>1, <1>2, <2>1 DEF Works, Touches
<1>3. ASSUME NEW name, Touches(t, name)
      PROVE  /\ outcome = "running" /\ outcome' = "running" /\ Goto(t, at[t] + 1)
             /\ UNCHANGED <<program, runs, status, stray, failed, joinable, reported, found,
                            lock, register>>
             /\ Does(t, name)
  BY <1>3 DEF Touches, Works, Does, Ready, process, control
<1>4. malloc(t) \/ free(t) \/ Say(t)
  <2>1. ~ Publish(t) /\ ~ Add(t) /\ ~ Load(t) /\ ~ Store(t) /\ ~ Show(t)
    BY <1>2 DEF Publish, Add, Load, Store, Show
  <2>2. ~ Lock(t) /\ ~ Unlock(t) /\ ~ Wait(t) /\ ~ SetLength(t) /\ ~ Cell(t)
    BY <1>2 DEF Lock, Unlock, Wait, SetLength, Cell
  <2>3. ~ LoadPointer(t) /\ ~ Terminate(t) /\ ~ PrintArray(t)
    BY <1>2 DEF LoadPointer, Terminate, PrintArray
  <2>. QED  BY <2>1, <2>2, <2>3 DEF Step
<1>5. CASE malloc(t)
  <2>1. /\ Touches(t, "malloc")
        /\ \E block \in {"null", "live"} : memory' = [memory EXCEPT !.block = block]
    BY <1>5 DEF malloc
  <2>2. t = 0 /\ at[0] = 1
    BY <1>1, <1>3, <2>1
  <2>. QED  BY <1>3, <2>1, <2>2
<1>6. CASE free(t)
  <2>1. /\ Touches(t, "free")
        /\ memory' = [memory EXCEPT !.block = IF @ = "live" THEN "freed" ELSE @]
    BY <1>6 DEF free
  <2>2. t = 0 /\ at[0] = 9
    BY <1>1, <1>3, <2>1
  <2>. QED  BY <1>3, <2>1, <2>2
<1>7. CASE Say(t)
  <2>1. PICK name \in {"say", "read"} : Touches(t, name)
    BY <1>7 DEF Say
  <2>2. memory' = memory
    BY <1>7 DEF Say
  <2>3. t \in 1 .. 2 /\ at[t] = 1
    BY <1>1, <1>3, <2>1
  <2>. QED  BY <1>3, <2>1, <2>2, <2>3
<1>. QED  BY <1>4, <1>5, <1>6, <1>7

\* The threads that have ended are those of the program.
LEMMA HeapAfter ==
  ASSUME HeapIs, NEW t \in 0 .. 2, Goto(t, at[t] + 1)
  PROVE  /\ after' \in [1 .. 5 -> SUBSET (1 .. 2)]
         /\ at' \in [0 .. 5 -> Nat] /\ at'[t] = at[t] + 1
         /\ \A u \in 0 .. 5 : u # t => at'[u] = at[u]
<1>1. Ended \in SUBSET (1 .. 2)
  BY HeapWhere DEF Ended
<1>2. at \in [0 .. 5 -> Nat] /\ after \in [1 .. 5 -> SUBSET (1 .. 2)]
  BY DEF HeapIs, HeapState, HeapTypes, HeapData, Kept
<1>. QED  BY <1>1, <1>2 DEF Goto

\* Every step of a thread, and main()'s malloc and free, keep it.
LEMMA HeapStepKeeps ==
  ASSUME HeapIs, NEW t \in 0 .. 2, Step(t)
  PROVE  HeapState'
<1>1. HeapTypes /\ HeapPlaces /\ HeapBlock /\ Kept /\ Unlocked /\ HeapData
  BY DEF HeapIs, HeapState, HeapTypes
<1>2. CASE GoesAstray(t)
  <2>1. /\ outcome' = "undefined" /\ Goto(0, at[0] + 1)
        /\ UNCHANGED <<program, runs, status, failed, joinable, reported, found,
                       lock, memory, register>>
        /\ stray' \in Strange /\ t = 0 /\ at[0] = 4 /\ memory.block = "null"
    BY <1>2, AstrayIs, HeapStrays
  <2>2. /\ after' \in [1 .. 5 -> SUBSET (1 .. 2)]
        /\ at' \in [0 .. 5 -> Nat] /\ at'[0] = 5 /\ \A u \in 1 .. 5 : at'[u] = at[u]
    BY <2>1, HeapAfter
  <2>3. HeapTypes'
    <3>1. Kept' /\ at'[0] <= 10
      BY <1>1, <2>1, <2>2 DEF Kept, Strange
    <3>2. Unlocked' /\ HeapData'
      BY <1>1, <2>1, <2>2 DEF Unlocked, HeapData
    <3>. QED  BY <1>1, <2>1, <3>1, <3>2 DEF HeapTypes
  <2>4. HeapPlaces'
    BY <1>1, <2>1, <2>2 DEF HeapPlaces
  <2>5. HeapBlock'
    BY <1>1, <2>1, <2>2 DEF HeapBlock
  <2>. QED  BY <2>3, <2>4, <2>5 DEF HeapState
<1>3. CASE ~ GoesAstray(t)
  <2>1. /\ outcome = "running" /\ outcome' = "running" /\ Goto(t, at[t] + 1)
        /\ UNCHANGED <<program, runs, status, stray, failed, joinable, reported, found,
                       lock, register>>
        /\ \/ t \in 1 .. 2 /\ memory' = memory /\ at[t] = 1
           \/ /\ t = 0 /\ at[0] = 1
              /\ \E block \in {"null", "live"} : memory' = [memory EXCEPT !.block = block]
           \/ /\ t = 0 /\ at[0] = 9
              /\ memory' = [memory EXCEPT !.block = IF @ = "live" THEN "freed" ELSE @]
    BY <1>3, HeapSteps
  <2>2. /\ after' \in [1 .. 5 -> SUBSET (1 .. 2)]
        /\ at' \in [0 .. 5 -> Nat] /\ at'[t] = at[t] + 1
        /\ \A u \in 0 .. 5 : u # t => at'[u] = at[u]
    BY <2>1, HeapAfter
  <2>3. /\ at \in [0 .. 5 -> Nat] /\ at[0] >= 1
    BY <1>1 DEF Kept
  <2>4. HeapTypes'
    <3>1. Kept' /\ at'[0] <= 10
      <4>1. at'[0] >= 1 /\ at'[0] <= 10
        BY <1>1, <2>1, <2>2, <2>3 DEF HeapTypes
      <4>. QED  BY <1>1, <2>1, <2>2, <4>1 DEF Kept
    <3>2. Unlocked'
      BY <1>1, <2>1 DEF Unlocked
    <3>3. HeapData'
      BY <1>1, <2>1, <2>2 DEF HeapData
    <3>. QED  BY <1>1, <2>1, <3>1, <3>2, <3>3 DEF HeapTypes
  <2>5. CASE t \in 1 .. 2 /\ memory' = memory /\ at[t] = 1
    <3>1. at'[0] = at[0] /\ at'[t] = 2 /\ \A u \in 1 .. 2 : u # t => at'[u] = at[u]
      BY <2>2, <2>5
    <3>2. HeapPlaces'
      <4>1. CASE t = 1
        BY <1>1, <2>1, <2>3, <2>5, <3>1, <4>1 DEF HeapPlaces
      <4>2. CASE t = 2
        BY <1>1, <2>1, <2>3, <2>5, <3>1, <4>2 DEF HeapPlaces
      <4>. QED  BY <2>5, <4>1, <4>2
    <3>3. HeapBlock'
      BY <1>1, <2>1, <2>5, <3>1 DEF HeapBlock
    <3>. QED  BY <2>4, <3>2, <3>3 DEF HeapState
  <2>6. CASE /\ t = 0 /\ at[0] = 1
             /\ \E block \in {"null", "live"} : memory' = [memory EXCEPT !.block = block]
    <3>1. at'[0] = 2 /\ at'[1] = at[1] /\ at'[2] = at[2]
      BY <2>2, <2>6
    <3>2. memory'.block \in {"null", "live"}
      BY <1>1, <2>6 DEF HeapData
    <3>3. HeapPlaces'
      BY <1>1, <2>1, <2>3, <2>6, <3>1 DEF HeapPlaces
    <3>4. HeapBlock'
      BY <1>1, <2>1, <2>6, <3>1, <3>2 DEF HeapBlock
    <3>. QED  BY <2>4, <3>3, <3>4 DEF HeapState
  <2>7. CASE /\ t = 0 /\ at[0] = 9
             /\ memory' = [memory EXCEPT !.block = IF @ = "live" THEN "freed" ELSE @]
    <3>1. at'[0] = 10 /\ at'[1] = at[1] /\ at'[2] = at[2]
      BY <2>2, <2>7
    <3>2. memory.block = "live"
      BY <1>1, <2>1, <2>7 DEF HeapBlock, HeapData
    <3>3. memory'.block = "freed"
      BY <1>1, <2>7, <3>2 DEF HeapData
    <3>4. HeapPlaces'
      BY <1>1, <2>1, <2>3, <2>7, <3>1 DEF HeapPlaces
    <3>5. HeapBlock'
      BY <1>1, <2>1, <2>7, <3>1, <3>3 DEF HeapBlock
    <3>. QED  BY <2>4, <3>4, <3>5 DEF HeapState
  <2>. QED  BY <2>1, <2>5, <2>6, <2>7
<1>. QED  BY <1>2, <1>3

\* It holds at first.
LEMMA HeapInit == ProgramsInit => HeapState
<1>. SUFFICES ASSUME ProgramsInit
              PROVE  HeapState
  OBVIOUS
<1>1. /\ Fresh /\ lock = Absent /\ runs = 1 /\ stray = "none"
      /\ memory = [shared_var |-> 0, shared_int |-> "null", block |-> "null", len |-> 0,
                   cells |-> [i \in 0 .. Length - 1 |-> "garbage"]]
  BY InitIs
<1>2. runs \in 1 .. MaxRuns
  BY <1>1, ThreadProgramsAssumption
<1>3. HeapTypes
  BY <1>1, <1>2 DEF Fresh, HeapTypes, HeapData, Kept, Unlocked
<1>4. HeapPlaces
  BY <1>1 DEF Fresh, HeapPlaces
<1>5. HeapBlock
  BY <1>1 DEF Fresh, HeapBlock
<1>. QED  BY <1>3, <1>4, <1>5 DEF HeapState

-----------------------------------------------------------------------------
(***************************************************************************)
(* stack_shared_var, of which what keeps its invariant is the barriers.    *)
(***************************************************************************)
\* stack_shared_var runs.
SharedIs ==
  program.main = stack_shared_var.main /\ program.body = stack_shared_var.body /\ SharedState

\* Where main() and the threads of stack_shared_var are.
LEMMA SharedWhere ==
  ASSUME SharedIs
  PROVE  /\ Workers = 1 .. 2 /\ ~ Over(0)
         /\ \A t \in 1 .. 2 : Over(t) <=> at[t] > 3
         /\ Ready(0) => at[0] \in 1 .. 5 /\ Now(0) = SharedOps[at[0]]
         /\ \A t \in 1 .. 2 : Ready(t) =>
              at[t] \in 1 .. 3 /\ Now(t) = stack_shared_var.body[t][at[t]]
<1>. USE DEF SharedIs, SharedState, SharedTypes, Kept
<1>1. at \in [0 .. 5 -> Nat] /\ at[0] \in 1 .. 5
  OBVIOUS
<1>2. Code(0) = program.main /\ \A t \in 1 .. 2 : Code(t) = program.body[t]
  BY DEF Code
<1>3. Len(Code(0)) = 5 /\ \A k \in 1 .. 5 : Code(0)[k] = SharedOps[k]
  BY <1>2, SharedMain DEF Spells
<1>4. ~ Over(0)
  <2>. DEFINE size == Len(Code(0))
  <2>1. size = 5
    BY <1>3
  <2>2. Over(0) <=> at[0] > size
    BY DEF Over
  <2>. HIDE DEF size
  <2>. QED  BY <1>1, <2>1, <2>2
<1>5. Now(0) = SharedOps[at[0]]
  BY <1>1, <1>3 DEF Now
<1>6. \A t \in 1 .. 2 : Len(Code(t)) = 3
  BY <1>2, SharedBody
<1>7. \A t \in 1 .. 2 : Over(t) <=> at[t] > 3
  BY <1>6 DEF Over
<1>8. ASSUME NEW t \in 1 .. 2, Ready(t)
      PROVE  at[t] \in 1 .. 3 /\ Now(t) = stack_shared_var.body[t][at[t]]
  <2>1. at[t] \in 1 .. 3
    <3>1. at[t] \in Nat
      BY <1>1
    <3>. QED  BY <3>1, <1>7, <1>8 DEF Ready
  <2>2. Now(t) = program.body[t][at[t]]
    BY <1>2 DEF Now
  <2>. QED  BY <2>1, <2>2
<1>9. Workers = 1 .. 2
  BY SharedBody DEF Workers
<1>. QED  BY <1>1, <1>4, <1>5, <1>7, <1>8, <1>9

\* The operation a thread has reached.
LEMMA SharedNow ==
  ASSUME SharedIs, NEW t \in 1 .. 2, Ready(t)
  PROVE  /\ outcome = "running" /\ at[t] \in 1 .. 3
         /\ \/ t = 1 /\ at[t] = 1 /\ Now(t) = Op("publish", 0, "static")
            \/ t = 2 /\ at[t] = 2 /\ Now(t) = Op("read", 0, "local")
            \/ \E b \in 1 .. 2 : at[t] = WaitsAt(t, b) /\ Now(t) = Op("wait", b, "main")
<1>1. at[t] \in 1 .. 3 /\ Now(t) = stack_shared_var.body[t][at[t]] /\ outcome = "running"
  BY SharedWhere DEF Ready
<1>2. at[t] = 1 \/ at[t] = 2 \/ at[t] = 3
  BY <1>1
<1>3. t = 1 \/ t = 2
  OBVIOUS
<1>4. WaitsAt(1, 1) = 2 /\ WaitsAt(2, 1) = 1 /\ WaitsAt(1, 2) = 3 /\ WaitsAt(2, 2) = 3
  BY DEF WaitsAt
<1>5. CASE t = 1
  <2>1. CASE at[t] = 1
    BY <1>1, <1>5, <2>1, SharedBody
  <2>2. CASE at[t] = 2
    <3>1. at[t] = WaitsAt(t, 1) /\ Now(t) = Op("wait", 1, "main")
      BY <1>1, <1>4, <1>5, <2>2, SharedBody
    <3>. QED  BY <1>1, <3>1
  <2>3. CASE at[t] = 3
    <3>1. at[t] = WaitsAt(t, 2) /\ Now(t) = Op("wait", 2, "main")
      BY <1>1, <1>4, <1>5, <2>3, SharedBody
    <3>. QED  BY <1>1, <3>1
  <2>. QED  BY <1>2, <2>1, <2>2, <2>3
<1>6. CASE t = 2
  <2>1. CASE at[t] = 2
    BY <1>1, <1>6, <2>1, SharedBody
  <2>2. CASE at[t] = 1
    <3>1. at[t] = WaitsAt(t, 1) /\ Now(t) = Op("wait", 1, "main")
      BY <1>1, <1>4, <1>6, <2>2, SharedBody
    <3>. QED  BY <1>1, <3>1
  <2>3. CASE at[t] = 3
    <3>1. at[t] = WaitsAt(t, 2) /\ Now(t) = Op("wait", 2, "main")
      BY <1>1, <1>4, <1>6, <2>3, SharedBody
    <3>. QED  BY <1>1, <3>1
  <2>. QED  BY <1>2, <2>1, <2>2, <2>3
<1>. QED  BY <1>3, <1>5, <1>6

\* What main() of stack_shared_var does, and where.
LEMMA SharedDoes ==
  ASSUME SharedIs, NEW op, Does(0, op)
  PROVE  /\ outcome = "running" /\ Ready(0) /\ Now(0).object = "static"
         /\ \/ op = "create" /\ at[0] = 1 /\ Arg(0) = 1
            \/ op = "create" /\ at[0] = 2 /\ Arg(0) = 2
            \/ op = "join" /\ at[0] = 3 /\ Arg(0) = 1
            \/ op = "join" /\ at[0] = 4 /\ Arg(0) = 2
            \/ op = "return" /\ at[0] = 5
<1>1. /\ Ready(0) /\ outcome = "running" /\ Now(0).name = op
      /\ at[0] \in 1 .. 5 /\ Now(0) = SharedOps[at[0]]
  BY SharedWhere DEF Does, Ready
<1>2. at[0] = 1 => Now(0) = Op("create", 1, "static")
  BY <1>1 DEF SharedOps
<1>3. at[0] = 2 => Now(0) = Op("create", 2, "static")
  BY <1>1 DEF SharedOps
<1>4. at[0] = 3 => Now(0) = Op("join", 1, "static")
  BY <1>1 DEF SharedOps
<1>5. at[0] = 4 => Now(0) = Op("join", 2, "static")
  BY <1>1 DEF SharedOps
<1>6. at[0] = 5 => Now(0) = Op("return", 0, "static")
  BY <1>1 DEF SharedOps, Static
<1>7. at[0] = 1 \/ at[0] = 2 \/ at[0] = 3 \/ at[0] = 4 \/ at[0] = 5
  BY <1>1
<1>8. \A name, arg, object :
        /\ Op(name, arg, object).name = name /\ Op(name, arg, object).arg = arg
        /\ Op(name, arg, object).object = object
  BY OpIs
<1>. QED
  BY <1>1, <1>2, <1>3, <1>4, <1>5, <1>6, <1>7, <1>8 DEF Arg

\* The local variable is alive when the second thread reads it, and so is the
\* stack of main(): only a handle that was never set leads astray.
LEMMA SharedStrays ==
  ASSUME SharedIs, NEW t \in 0 .. 2, GoesAstray(t)
  PROVE  t = 0 /\ at[0] \in 3 .. 4 /\ stray' = "handle"
<1>1. Ready(t) /\ outcome = "running" /\ Strays(t, stray')
  BY AstrayIs
<1>2. "static" \notin Dead /\ "main" \notin Dead
  BY SharedWhere DEF Dead
<1>3. CASE t = 0
  <2>. DEFINE op == Now(0).name
  <2>1. /\ Now(0).object = "static"
        /\ \/ op = "create" /\ at[0] = 1 /\ Arg(0) = 1
           \/ op = "create" /\ at[0] = 2 /\ Arg(0) = 2
           \/ op = "join" /\ at[0] = 3 /\ Arg(0) = 1
           \/ op = "join" /\ at[0] = 4 /\ Arg(0) = 2
           \/ op = "return" /\ at[0] = 5
    <3>1. Does(0, op)
      BY <1>1, <1>3 DEF Does
    <3>. QED  BY <3>1, SharedDoes
  <2>2. CASE op = "join"
    <3>1. stray' = "handle"
      BY <1>1, <1>3, <2>2 DEF Strays
    <3>. QED  BY <1>3, <2>1, <2>2, <3>1
  <2>3. CASE op # "join"
    <3>1. Now(0).object \in Dead
      BY <1>1, <1>3, <2>1, <2>3 DEF Strays
    <3>. QED  BY <1>2, <2>1, <3>1
  <2>. QED  BY <2>2, <2>3
<1>4. CASE t \in 1 .. 2
  <2>1. \/ t = 1 /\ at[t] = 1 /\ Now(t) = Op("publish", 0, "static")
        \/ t = 2 /\ at[t] = 2 /\ Now(t) = Op("read", 0, "local")
        \/ \E b \in 1 .. 2 : at[t] = WaitsAt(t, b) /\ Now(t) = Op("wait", b, "main")
    BY <1>1, <1>4, SharedNow
  <2>2. /\ Now(t).name \in {"publish", "read", "wait"}
        /\ Now(t).object = "local" => t = 2 /\ at[2] = 2
        /\ Now(t).object \in {"static", "main", "local"}
    BY <2>1 DEF Op
  <2>3. Now(t).object \in Dead
    BY <1>1, <2>2 DEF Strays
  <2>4. t = 2 /\ at[2] = 2 /\ "local" \in Dead
    BY <1>2, <2>2, <2>3
  <2>5. at[1] \in Nat /\ at[2] \in Nat /\ Round(1) /\ Round(2)
    BY DEF SharedIs, SharedState, SharedTypes, Kept
  <2>6. at[1] > 1
    <3>1. WaitsAt(2, 1) = 1 /\ WaitsAt(1, 1) = 2
      BY DEF WaitsAt
    <3>2. \A u \in 1 .. 2 : at[u] > WaitsAt(u, 1) \/ u \in released[1]
      BY <2>4, <2>5, <3>1 DEF Round
    <3>3. at[1] > 2 \/ at[1] = WaitsAt(1, 1)
      BY <2>5, <3>1, <3>2 DEF Round
    <3>. QED  BY <2>5, <3>1, <3>3
  <2>7. at[1] <= 3
    <3>1. WaitsAt(2, 2) = 3 /\ WaitsAt(1, 2) = 3
      BY DEF WaitsAt
    <3>2. 2 \notin released[2]
      BY <2>4, <2>5, <3>1 DEF Round
    <3>3. ~ \A u \in 1 .. 2 : at[u] > WaitsAt(u, 2) \/ u \in released[2]
      BY <2>4, <3>1, <3>2
    <3>. QED  BY <2>5, <3>1, <3>3 DEF Round
  <2>8. memory.shared_int = "local" /\ ~ Over(1)
    <3>1. memory.shared_int = IF at[1] > 1 THEN "local" ELSE "null"
      BY DEF SharedIs, SharedState, SharedPlaces
    <3>. QED  BY <2>5, <2>6, <2>7, <3>1, SharedWhere
  <2>. QED  BY <2>4, <2>8 DEF Dead
<1>. QED  BY <1>3, <1>4

\* What a barrier's round needs of its callers' moves.
LEMMA RoundPlain ==
  ASSUME NEW b, NEW t \in 1 .. 2, Round(b), at[1] \in Nat, at[2] \in Nat,
         WaitsAt(t, b) \in Nat,
         at[t] # WaitsAt(t, b), at'[t] = at[t] + 1,
         \A u \in 1 .. 2 : u # t => at'[u] = at[u],
         gathering'[b] = gathering[b], released'[b] = released[b],
         gathering[b] \subseteq 1 .. 2, released[b] \subseteq 1 .. 2
  PROVE  Round(b)'
<1>1. at[t] \in Nat /\ t \notin gathering[b] /\ t \notin released[b]
  BY DEF Round
<1>2. \A u \in gathering'[b] \cup released'[b] : at'[u] = WaitsAt(u, b)
  BY <1>1 DEF Round
<1>3. CASE /\ released[b] = {} /\ gathering[b] # {1, 2}
           /\ \A u \in 1 .. 2 : at[u] <= WaitsAt(u, b)
  <2>1. \A u \in 1 .. 2 : at'[u] <= WaitsAt(u, b)
    BY <1>1, <1>3
  <2>. QED  BY <1>2, <1>3, <2>1 DEF Round
<1>4. CASE /\ gathering[b] = {}
           /\ \A u \in 1 .. 2 : at[u] > WaitsAt(u, b) \/ u \in released[b]
  <2>1. \A u \in 1 .. 2 : at'[u] > WaitsAt(u, b) \/ u \in released'[b]
    BY <1>1, <1>4
  <2>. QED  BY <1>2, <1>4, <2>1 DEF Round
<1>. QED  BY <1>3, <1>4 DEF Round

\* A caller that gathers, or completes the round.
LEMMA RoundGathers ==
  ASSUME NEW b \in 1 .. 2, NEW t \in 1 .. 2, Round(b), at[t] = WaitsAt(t, b),
         at \in [0 .. 5 -> Nat], at' = at,
         Gather(t, b) \/ Complete(t, b),
         gathering \in [1 .. 2 -> SUBSET (1 .. 2)], released \in [1 .. 2 -> SUBSET (1 .. 2)]
  PROVE  /\ Round(b)'
         /\ \A c \in 1 .. 2 : c # b =>
              gathering'[c] = gathering[c] /\ released'[c] = released[c]
         /\ gathering' \in [1 .. 2 -> SUBSET (1 .. 2)]
         /\ released' \in [1 .. 2 -> SUBSET (1 .. 2)]
<1>1. barrier_thread_limit[b] = 2 /\ b \in Barriers
  BY ThreadProgramsAssumption
<1>2. t \notin gathering[b] /\ t \notin released[b] /\ at[t] \in Nat
  BY <1>1 DEF Gather, Complete, Engaged
<1>3. /\ released[b] = {} /\ gathering[b] # {1, 2}
      /\ \A u \in 1 .. 2 : at[u] <= WaitsAt(u, b)
  BY <1>2 DEF Round
<1>4. PICK u \in 1 .. 2 : u # t
  <2>1. t = 1 \/ t = 2
    OBVIOUS
  <2>. QED  BY <2>1
<1>5. gathering[b] = {} \/ gathering[b] = {u}
  BY <1>2, <1>4
<1>6. Cardinality(gathering[b]) = IF gathering[b] = {} THEN 0 ELSE 1
  BY <1>5, Counts
<1>7. CASE Gather(t, b)
  <2>1. gathering[b] = {}
    BY <1>1, <1>6, <1>7 DEF Gather
  <2>2. gathering' = [gathering EXCEPT ![b] = {t}] /\ released' = released
    BY <1>7, <2>1 DEF Gather
  <2>3. gathering'[b] = {t} /\ released'[b] = {}
    BY <1>3, <2>2
  <2>4. Round(b)'
    BY <1>3, <1>4, <2>3 DEF Round
  <2>. QED  BY <2>2, <2>4
<1>8. CASE Complete(t, b)
  <2>1. gathering[b] = {u}
    BY <1>1, <1>5, <1>6, <1>8 DEF Complete
  <2>2. /\ gathering' = [gathering EXCEPT ![b] = {}]
        /\ released' = [released EXCEPT ![b] = {u, t}]
    BY <1>8, <2>1 DEF Complete
  <2>3. gathering'[b] = {} /\ released'[b] = {u, t}
    BY <2>2
  <2>4. at[u] = WaitsAt(u, b) /\ \A v \in 1 .. 2 : v = u \/ v = t
    BY <1>4, <2>1 DEF Round
  <2>5. Round(b)'
    BY <2>3, <2>4 DEF Round
  <2>. QED  BY <2>2, <2>5
<1>. QED  BY <1>7, <1>8

\* A caller that departs.
LEMMA RoundDeparts ==
  ASSUME NEW b \in 1 .. 2, NEW t \in 1 .. 2, Round(b), Depart(t, b),
         at[t] \in Nat, at'[t] = at[t] + 1, \A u \in 1 .. 2 : u # t => at'[u] = at[u],
         gathering \in [1 .. 2 -> SUBSET (1 .. 2)], released \in [1 .. 2 -> SUBSET (1 .. 2)]
  PROVE  /\ Round(b)'
         /\ \A c \in 1 .. 2 : c # b =>
              gathering'[c] = gathering[c] /\ released'[c] = released[c]
         /\ gathering' \in [1 .. 2 -> SUBSET (1 .. 2)]
         /\ released' \in [1 .. 2 -> SUBSET (1 .. 2)]
<1>1. /\ t \in released[b] /\ gathering' = gathering
      /\ released' = [released EXCEPT ![b] = released[b] \ {t}]
  BY DEF Depart
<1>2. released'[b] = released[b] \ {t} /\ at[t] = WaitsAt(t, b)
  BY <1>1 DEF Round
<1>3. /\ gathering[b] = {}
      /\ \A u \in 1 .. 2 : at[u] > WaitsAt(u, b) \/ u \in released[b]
  BY <1>1 DEF Round
<1>4. at'[t] > WaitsAt(t, b)
  BY <1>2
<1>5. Round(b)'
  BY <1>1, <1>2, <1>3, <1>4 DEF Round
<1>. QED  BY <1>1, <1>5

\* The threads that have ended are those of the program.
LEMMA SharedAfter ==
  ASSUME SharedIs, NEW t \in 0 .. 2, Goto(t, at[t] + 1)
  PROVE  /\ after' \in [1 .. 5 -> SUBSET (1 .. 2)]
         /\ at' \in [0 .. 5 -> Nat] /\ at'[t] = at[t] + 1
         /\ \A u \in 0 .. 5 : u # t => at'[u] = at[u]
<1>1. Ended \in SUBSET (1 .. 2)
  BY SharedWhere DEF Ended
<1>2. at \in [0 .. 5 -> Nat] /\ after \in [1 .. 5 -> SUBSET (1 .. 2)]
  BY DEF SharedIs, SharedState, SharedTypes, SharedData, Kept
<1>. QED  BY <1>1, <1>2 DEF Goto

\* A step that is not astray publishes, reads or waits.
LEMMA SharedSteps ==
  ASSUME SharedIs, NEW t \in 0 .. 2, Step(t), ~ GoesAstray(t)
  PROVE  /\ outcome = "running" /\ outcome' = "running" /\ t \in 1 .. 2
         /\ UNCHANGED <<program, runs, status, stray, failed, joinable, reported, found,
                        lock, register>>
         /\ \/ /\ Goto(t, at[t] + 1) /\ UNCHANGED avars
               /\ \/ /\ t = 1 /\ at[1] = 1
                     /\ memory' = [memory EXCEPT !.shared_int = "local"]
                  \/ t = 2 /\ at[2] = 2 /\ memory' = memory
            \/ /\ memory' = memory
               /\ \E b \in 1 .. 2 :
                    /\ at[t] = WaitsAt(t, b)
                    /\ \/ (Gather(t, b) \/ Complete(t, b)) /\ UNCHANGED <<at, after>>
                       \/ Depart(t, b) /\ Goto(t, at[t] + 1)
<1>1. ASSUME NEW name, Does(t, name)
      PROVE  \/ t = 0 /\ name \in {"create", "join", "return"}
             \/ t = 1 /\ at[t] = 1 /\ name = "publish"
             \/ t = 2 /\ at[t] = 2 /\ name = "read"
             \/ /\ t \in 1 .. 2 /\ name = "wait"
                /\ Arg(t) \in 1 .. 2 /\ at[t] = WaitsAt(t, Arg(t))
  <2>1. CASE t = 0
    BY <1>1, <2>1, SharedDoes
  <2>2. CASE t \in 1 .. 2
    <3>1. Ready(t) /\ Now(t).name = name
      BY <1>1 DEF Does
    <3>2. \/ t = 1 /\ at[t] = 1 /\ Now(t) = Op("publish", 0, "static")
          \/ t = 2 /\ at[t] = 2 /\ Now(t) = Op("read", 0, "local")
          \/ \E b \in 1 .. 2 : at[t] = WaitsAt(t, b) /\ Now(t) = Op("wait", b, "main")
      BY <2>2, <3>1, SharedNow
    <3>. QED  BY <2>2, <3>1, <3>2 DEF Op, Arg
  <2>. QED  BY <2>1, <2>2
<1>2. ASSUME NEW name, name \notin {"create", "join", "return", "publish", "read", "wait"}
      PROVE  ~ Does(t, name) /\ ~ Works(t, name) /\ ~ Touches(t, name)
  BY <1>1, <1>2 DEF Works, Touches
<1>3. ASSUME NEW name, Touches(t, name)
      PROVE  /\ outcome = "running" /\ outcome' = "running" /\ Goto(t, at[t] + 1)
             /\ UNCHANGED <<program, runs, status, stray, failed, joinable, reported, found,
                            lock, register, avars>>
             /\ Does(t, name)
  BY <1>3 DEF Touches, Works, Does, Ready, process, control
<1>4. Publish(t) \/ Say(t) \/ Wait(t)
  <2>1. ~ malloc(t) /\ ~ free(t) /\ ~ Add(t) /\ ~ Load(t) /\ ~ Store(t) /\ ~ Show(t)
    BY <1>2 DEF malloc, free, Add, Load, Store, Show
  <2>2. ~ Lock(t) /\ ~ Unlock(t) /\ ~ SetLength(t) /\ ~ Cell(t)
    BY <1>2 DEF Lock, Unlock, SetLength, Cell
  <2>3. ~ LoadPointer(t) /\ ~ Terminate(t) /\ ~ PrintArray(t)
    BY <1>2 DEF LoadPointer, Terminate, PrintArray
  <2>. QED  BY <2>1, <2>2, <2>3 DEF Step
<1>5. CASE Publish(t)
  <2>1. Touches(t, "publish") /\ memory' = [memory EXCEPT !.shared_int = "local"]
    BY <1>5 DEF Publish
  <2>2. t = 1 /\ at[1] = 1
    BY <1>1, <1>3, <2>1
  <2>. QED  BY <1>3, <2>1, <2>2
<1>6. CASE Say(t)
  <2>1. PICK name \in {"say", "read"} : Touches(t, name)
    BY <1>6 DEF Say
  <2>2. memory' = memory
    BY <1>6 DEF Say
  <2>3. t = 2 /\ at[2] = 2
    BY <1>1, <1>3, <2>1
  <2>. QED  BY <1>3, <2>1, <2>2, <2>3
<1>7. CASE Wait(t)
  <2>. DEFINE b == Arg(t)
  <2>1. /\ Does(t, "wait") /\ UNCHANGED <<process, control, data>>
        /\ \/ (Gather(t, b) \/ Complete(t, b)) /\ UNCHANGED <<at, after>>
           \/ Depart(t, b) /\ Goto(t, at[t] + 1)
    BY <1>7 DEF Wait
  <2>2. t \in 1 .. 2 /\ b \in 1 .. 2 /\ at[t] = WaitsAt(t, b)
    BY <1>1, <2>1
  <2>3. /\ outcome = "running" /\ outcome' = "running" /\ memory' = memory
        /\ UNCHANGED <<program, runs, status, stray, failed, joinable, reported, found,
                       lock, register>>
    BY <2>1 DEF process, control, data, Does, Ready
  <2>. HIDE DEF b
  <2>. QED  BY <2>1, <2>2, <2>3
<1>. QED  BY <1>4, <1>5, <1>6, <1>7

\* Every step of a thread keeps the invariant.
LEMMA SharedStepKeeps ==
  ASSUME SharedIs, NEW t \in 0 .. 2, Step(t)
  PROVE  SharedState'
<1>1. /\ SharedTypes /\ SharedPlaces /\ Kept /\ Unlocked /\ SharedData
      /\ Round(1) /\ Round(2)
  BY DEF SharedIs, SharedState, SharedTypes
<1>2. /\ at \in [0 .. 5 -> Nat] /\ at[0] >= 1
      /\ gathering \in [1 .. 2 -> SUBSET (1 .. 2)]
      /\ released \in [1 .. 2 -> SUBSET (1 .. 2)]
  BY <1>1 DEF Kept, SharedTypes
<1>3. CASE GoesAstray(t)
  <2>1. /\ outcome' = "undefined" /\ Goto(0, at[0] + 1)
        /\ UNCHANGED <<program, runs, status, failed, joinable, reported, found,
                       lock, memory, register, avars>>
        /\ stray' = "handle" /\ t = 0 /\ at[0] \in 3 .. 4
    BY <1>3, AstrayIs, SharedStrays
  <2>2. /\ after' \in [1 .. 5 -> SUBSET (1 .. 2)]
        /\ at' \in [0 .. 5 -> Nat] /\ at'[0] = at[0] + 1 /\ \A u \in 1 .. 5 : at'[u] = at[u]
    BY <2>1, SharedAfter
  <2>3. SharedTypes'
    <3>1. Kept' /\ at'[0] <= 5
      BY <1>1, <2>1, <2>2 DEF Kept
    <3>2. Unlocked' /\ SharedData'
      BY <1>1, <2>1, <2>2 DEF Unlocked, SharedData
    <3>. QED  BY <1>1, <2>1, <3>1, <3>2 DEF SharedTypes, avars
  <2>4. SharedPlaces'
    <3>1. memory' = memory /\ at'[1] = at[1] /\ at'[2] = at[2]
      BY <2>1, <2>2
    <3>. QED  BY <1>1, <1>2, <2>1, <2>2, <3>1 DEF SharedPlaces
  <2>5. Round(1)' /\ Round(2)'
    BY <1>1, <1>2, <2>1, <2>2 DEF Round, avars
  <2>. QED  BY <2>3, <2>4, <2>5 DEF SharedState
<1>4. CASE ~ GoesAstray(t)
  <2>1. /\ outcome = "running" /\ outcome' = "running" /\ t \in 1 .. 2
        /\ UNCHANGED <<program, runs, status, stray, failed, joinable, reported, found,
                       lock, register>>
        /\ \/ /\ Goto(t, at[t] + 1) /\ UNCHANGED avars
              /\ \/ /\ t = 1 /\ at[1] = 1
                    /\ memory' = [memory EXCEPT !.shared_int = "local"]
                 \/ t = 2 /\ at[2] = 2 /\ memory' = memory
           \/ /\ memory' = memory
              /\ \E b \in 1 .. 2 :
                   /\ at[t] = WaitsAt(t, b)
                   /\ \/ (Gather(t, b) \/ Complete(t, b)) /\ UNCHANGED <<at, after>>
                      \/ Depart(t, b) /\ Goto(t, at[t] + 1)
    BY <1>4, SharedSteps
  <2>2. /\ WaitsAt(1, 1) = 2 /\ WaitsAt(2, 1) = 1 /\ WaitsAt(1, 2) = 3 /\ WaitsAt(2, 2) = 3
        /\ \A b \in 1 .. 2 : WaitsAt(t, b) \in 1 .. 3
    BY DEF WaitsAt
  <2>3. /\ \A b, c \in 1 .. 2 : b # c => WaitsAt(t, b) # WaitsAt(t, c)
    BY <2>1, <2>2
  <2>4. CASE Goto(t, at[t] + 1)
    <3>1. /\ after' \in [1 .. 5 -> SUBSET (1 .. 2)]
          /\ at' \in [0 .. 5 -> Nat] /\ at'[t] = at[t] + 1
          /\ \A u \in 0 .. 5 : u # t => at'[u] = at[u]
      BY <2>4, SharedAfter
    <3>2. at[t] \in 1 .. 3 /\ at[1] \in Nat /\ at[2] \in Nat /\ at'[0] = at[0]
      BY <1>2, <2>1, <2>2, <3>1
    <3>3. \/ memory' = memory
          \/ t = 1 /\ at[1] = 1 /\ memory' = [memory EXCEPT !.shared_int = "local"]
      BY <2>1
    <3>4. t = 1 /\ at[1] = 1 => memory' = [memory EXCEPT !.shared_int = "local"]
      BY <2>1, <2>2, <1>2
    <3>5. SharedPlaces'
      <4>1. at'[t] <= 4 /\ \A u \in 1 .. 2 : u = t \/ at'[u] = at[u]
        BY <3>1, <3>2
      <4>2. t \notin failed /\ at[0] > t
        BY <1>1, <2>1, <3>2 DEF SharedPlaces, SharedTypes, Kept
      <4>3. at[0] <= 2 + t
        BY <1>1, <2>1, <3>2 DEF SharedPlaces, SharedTypes, Kept
      <4>4. memory'.shared_int = IF at'[1] > 1 THEN "local" ELSE "null"
        <5>1. CASE t = 1 /\ at[1] = 1
          BY <1>1, <3>1, <3>4, <5>1 DEF SharedData
        <5>2. CASE t = 1 /\ at[1] # 1
          BY <1>1, <3>1, <3>2, <3>3, <5>2 DEF SharedPlaces
        <5>3. CASE t = 2
          BY <1>1, <3>1, <3>3, <5>3 DEF SharedPlaces
        <5>. QED  BY <2>1, <5>1, <5>2, <5>3
      <4>. QED  BY <1>1, <2>1, <3>1, <3>2, <4>1, <4>2, <4>3, <4>4 DEF SharedPlaces
    <3>6. Kept' /\ Unlocked' /\ SharedData'
      <4>1. Kept' /\ Unlocked'
        BY <1>1, <2>1, <3>1, <3>2 DEF Kept, Unlocked
      <4>2. SharedData'
        BY <1>1, <2>1, <3>1, <3>3 DEF SharedData
      <4>. QED  BY <4>1, <4>2
    <3>7. CASE UNCHANGED avars /\ ((t = 1 /\ at[1] = 1) \/ (t = 2 /\ at[2] = 2))
      <4>1. gathering' = gathering /\ released' = released
        BY <3>7 DEF avars
      <4>2. \A b \in 1 .. 2 : WaitsAt(t, b) # at[t]
        BY <2>2, <3>7
      <4>3. ASSUME NEW b \in 1 .. 2
            PROVE  Round(b)'
        <5>1. Round(b)
          BY <1>1
        <5>2. /\ WaitsAt(t, b) \in Nat /\ at[t] # WaitsAt(t, b)
              /\ gathering'[b] = gathering[b] /\ released'[b] = released[b]
              /\ gathering[b] \subseteq 1 .. 2 /\ released[b] \subseteq 1 .. 2
          BY <1>2, <2>2, <4>1, <4>2
        <5>3. \A u \in 1 .. 2 : u # t => at'[u] = at[u]
          BY <3>1
        <5>. QED  BY <2>1, <3>1, <3>2, <5>1, <5>2, <5>3, RoundPlain
      <4>4. SharedTypes'
        BY <1>1, <2>1, <3>2, <3>6, <4>1 DEF SharedTypes
      <4>. QED  BY <3>5, <4>3, <4>4 DEF SharedState
    <3>8. ASSUME NEW b \in 1 .. 2, at[t] = WaitsAt(t, b), Depart(t, b)
          PROVE  SharedState'
      <4>1. Round(b) /\ \A u \in 1 .. 2 : u # t => at'[u] = at[u]
        BY <1>1, <3>1
      <4>2. /\ Round(b)'
            /\ \A c \in 1 .. 2 : c # b =>
                 gathering'[c] = gathering[c] /\ released'[c] = released[c]
            /\ gathering' \in [1 .. 2 -> SUBSET (1 .. 2)]
            /\ released' \in [1 .. 2 -> SUBSET (1 .. 2)]
        <5>1. at[t] \in Nat
          BY <3>2
        <5>. QED  BY <1>2, <2>1, <3>1, <3>8, <4>1, <5>1, RoundDeparts
      <4>3. ASSUME NEW c \in 1 .. 2, c # b
            PROVE  Round(c)'
        <5>1. Round(c)
          BY <1>1
        <5>2. /\ WaitsAt(t, c) \in Nat /\ at[t] # WaitsAt(t, c)
              /\ gathering'[c] = gathering[c] /\ released'[c] = released[c]
              /\ gathering[c] \subseteq 1 .. 2 /\ released[c] \subseteq 1 .. 2
          BY <1>2, <2>2, <2>3, <3>8, <4>2, <4>3
        <5>. QED  BY <2>1, <3>1, <3>2, <4>1, <5>1, <5>2, RoundPlain
      <4>4. SharedTypes'
        BY <1>1, <2>1, <3>2, <3>6, <4>2 DEF SharedTypes
      <4>5. Round(1)' /\ Round(2)'
        <5>1. b = 1 \/ b = 2
          OBVIOUS
        <5>. QED  BY <4>2, <4>3, <5>1
      <4>. QED  BY <3>5, <4>4, <4>5 DEF SharedState
    <3>9. \/ UNCHANGED avars /\ ((t = 1 /\ at[1] = 1) \/ (t = 2 /\ at[2] = 2))
          \/ \E b \in 1 .. 2 : at[t] = WaitsAt(t, b) /\ Depart(t, b)
      <4>1. at' # at
        BY <3>1, <3>2
      <4>. QED  BY <2>1, <4>1
    <3>. QED  BY <3>7, <3>8, <3>9
  <2>5. ASSUME NEW b \in 1 .. 2, at[t] = WaitsAt(t, b), Gather(t, b) \/ Complete(t, b),
               UNCHANGED <<at, after>>, memory' = memory
        PROVE  SharedState'
    <3>1. Round(b) /\ at' = at
      BY <1>1, <2>5
    <3>2. /\ Round(b)'
          /\ \A c \in 1 .. 2 : c # b =>
               gathering'[c] = gathering[c] /\ released'[c] = released[c]
          /\ gathering' \in [1 .. 2 -> SUBSET (1 .. 2)]
          /\ released' \in [1 .. 2 -> SUBSET (1 .. 2)]
      BY <1>2, <2>1, <2>5, <3>1, RoundGathers
    <3>3. ASSUME NEW c \in 1 .. 2, c # b
          PROVE  Round(c)'
      <4>1. Round(c) /\ gathering'[c] = gathering[c] /\ released'[c] = released[c]
        BY <1>1, <3>2, <3>3
      <4>. QED  BY <3>1, <4>1 DEF Round
    <3>4. Round(1)' /\ Round(2)'
      <4>1. b = 1 \/ b = 2
        OBVIOUS
      <4>. QED  BY <3>2, <3>3, <4>1
    <3>5. SharedTypes'
      <4>1. Kept' /\ Unlocked' /\ SharedData'
        BY <1>1, <2>1, <2>5 DEF Kept, Unlocked, SharedData
      <4>. QED  BY <1>1, <2>1, <2>5, <3>2, <4>1 DEF SharedTypes
    <3>6. SharedPlaces'
      BY <1>1, <2>1, <2>5 DEF SharedPlaces
    <3>. QED  BY <3>4, <3>5, <3>6 DEF SharedState
  <2>. QED  BY <2>1, <2>4, <2>5
<1>. QED  BY <1>3, <1>4

\* So does the creation of a thread.
LEMMA SharedCreates ==
  ASSUME SharedIs, pthread_create
  PROVE  SharedState'
<1>. DEFINE k == Arg(0)
<1>1. /\ Ready(0) /\ outcome = "running" /\ Now(0).name = "create"
      /\ UNCHANGED <<program, runs, outcome, status, stray, after, reported, found,
                     lock, memory, register, avars>>
      /\ \/ /\ at' = [at EXCEPT ![0] = at[0] + 1, ![k] = 1]
            /\ joinable' = joinable \cup {k} /\ failed' = failed
         \/ /\ at' = [at EXCEPT ![0] = at[0] + 1]
            /\ failed' = failed \cup {k} /\ joinable' = joinable
  BY CreateIs
<1>2. (at[0] = 1 /\ k = 1) \/ (at[0] = 2 /\ k = 2)
  <2>1. Does(0, "create")
    BY <1>1 DEF Does
  <2>. QED  BY <2>1, SharedDoes
<1>. HIDE DEF k
<1>3. /\ SharedTypes /\ SharedPlaces /\ Kept /\ Unlocked /\ SharedData
      /\ Round(1) /\ Round(2)
  BY DEF SharedIs, SharedState, SharedTypes
<1>4. /\ at \in [0 .. 5 -> Nat] /\ failed \subseteq 1 .. 2 /\ joinable \subseteq 1 .. 2
      /\ gathering \in [1 .. 2 -> SUBSET (1 .. 2)]
      /\ released \in [1 .. 2 -> SUBSET (1 .. 2)]
  BY <1>3 DEF SharedTypes, Kept
<1>5. at[k] = 0 /\ k \in 1 .. 2
  BY <1>2, <1>3 DEF SharedPlaces
<1>6. /\ at' \in [0 .. 5 -> Nat] /\ at'[0] = at[0] + 1
      /\ \A t \in 1 .. 2 : t # k => at'[t] = at[t]
      /\ at'[k] = at[k] \/ at'[k] = 1
  BY <1>1, <1>2, <1>4
<1>7. \A t \in 1 .. 2 : t \in failed' => at'[t] = 0 /\ t \notin joinable'
  <2>1. \A t \in 1 .. 2 : t \in failed => at[t] = 0 /\ t \notin joinable /\ at[0] > t
    BY <1>3 DEF SharedPlaces
  <2>2. k \notin failed
    BY <1>2, <1>5, <2>1
  <2>3. CASE /\ at' = [at EXCEPT ![0] = at[0] + 1, ![k] = 1]
             /\ joinable' = joinable \cup {k} /\ failed' = failed
    BY <1>6, <2>1, <2>2, <2>3
  <2>4. CASE /\ at' = [at EXCEPT ![0] = at[0] + 1]
             /\ failed' = failed \cup {k} /\ joinable' = joinable
    <3>1. at'[k] = 0 /\ k \notin joinable
      <4>1. k \in joinable => at[0] > k
        BY <1>3, <1>5 DEF SharedPlaces
      <4>2. at'[k] = at[k]
        BY <1>2, <1>4, <2>4
      <4>. QED  BY <1>2, <1>5, <2>4, <4>1, <4>2
    <3>. QED  BY <1>6, <2>1, <2>4, <3>1
  <2>. QED  BY <1>1, <2>3, <2>4
<1>8. SharedTypes'
  <2>1. Kept' /\ at'[0] <= 5
    BY <1>1, <1>2, <1>3, <1>6 DEF Kept
  <2>2. Unlocked' /\ SharedData'
    BY <1>1, <1>3 DEF Unlocked, SharedData
  <2>3. failed' \subseteq 1 .. 2 /\ joinable' \subseteq 1 .. 2
    BY <1>1, <1>4, <1>5
  <2>4. gathering' = gathering /\ released' = released
    BY <1>1 DEF avars
  <2>. QED  BY <1>4, <2>1, <2>2, <2>3, <2>4 DEF SharedTypes
<1>9. SharedPlaces'
  <2>1. \A t \in 1 .. 2 : t \in failed' \/ t \in joinable' => at'[0] > t
    <3>1. at[0] \in Nat /\ at'[0] = at[0] + 1 /\ at'[0] > k
      BY <1>2, <1>4, <1>6
    <3>2. \A t \in 1 .. 2 : t \in failed \/ t \in joinable => at[0] > t
      BY <1>3 DEF SharedPlaces
    <3>3. \A t \in 1 .. 2 : t \in failed' \/ t \in joinable' =>
            t = k \/ t \in failed \/ t \in joinable
      BY <1>1
    <3>. QED  BY <1>5, <3>1, <3>2, <3>3
  <2>2. memory'.shared_int = IF at'[1] > 1 THEN "local" ELSE "null"
    BY <1>1, <1>2, <1>3, <1>4, <1>5, <1>6 DEF SharedPlaces
  <2>3. \A t \in 1 .. 2 : at'[t] <= 4 /\ (at'[0] <= t => at'[t] = 0) /\ at'[0] <= 2 + t
    <3>. SUFFICES ASSUME NEW t \in 1 .. 2
                  PROVE  at'[t] <= 4 /\ (at'[0] <= t => at'[t] = 0) /\ at'[0] <= 2 + t
      OBVIOUS
    <3>1. at[t] \in Nat /\ at[t] <= 4 /\ (at[0] <= t => at[t] = 0) /\ at[0] \in Nat
      BY <1>3, <1>4 DEF SharedPlaces
    <3>2. t = 1 \/ t = 2
      OBVIOUS
    <3>3. CASE t = k
      BY <1>2, <1>5, <1>6, <3>1, <3>2, <3>3
    <3>4. CASE t # k
      <4>1. at'[t] = at[t]
        BY <1>6, <3>4
      <4>. QED  BY <1>2, <1>6, <3>1, <3>2, <4>1
    <3>. QED  BY <3>3, <3>4
  <2>4. outcome' = "running"
    BY <1>1
  <2>. QED  BY <1>7, <2>1, <2>2, <2>3, <2>4, <1>4, <1>6 DEF SharedPlaces
<1>10. ASSUME NEW b \in 1 .. 2
       PROVE  Round(b)'
  <2>1. Round(b) /\ gathering' = gathering /\ released' = released
    BY <1>1, <1>3 DEF avars
  <2>2. WaitsAt(k, b) \in 1 .. 3
    BY DEF WaitsAt
  <2>3. k \notin gathering[b] /\ k \notin released[b]
    BY <1>5, <2>1, <2>2 DEF Round
  <2>4. /\ released[b] = {} /\ gathering[b] # {1, 2}
        /\ \A t \in 1 .. 2 : at[t] <= WaitsAt(t, b)
    <3>1. ~ (at[k] > WaitsAt(k, b) \/ k \in released[b])
      BY <1>5, <2>2, <2>3
    <3>. QED  BY <1>5, <2>1, <3>1 DEF Round
  <2>5. \A t \in 1 .. 2 : at'[t] <= WaitsAt(t, b)
    BY <1>4, <1>5, <1>6, <2>2, <2>4
  <2>6. \A t \in gathering[b] \cup released[b] : at'[t] = WaitsAt(t, b)
    BY <1>4, <1>6, <2>1, <2>3 DEF Round
  <2>. QED  BY <2>1, <2>4, <2>5, <2>6 DEF Round
<1>. QED  BY <1>8, <1>9, <1>10 DEF SharedState

\* So does every step of main().
LEMMA SharedMainKeeps ==
  ASSUME SharedIs, Main
  PROVE  SharedState'
<1>1. ASSUME NEW op, op \notin {"create", "join", "return"}
      PROVE  ~ Does(0, op) /\ ~ Works(0, op)
  BY <1>1, SharedDoes DEF Works
<1>2. pthread_create \/ pthread_join \/ Return
  <2>1. /\ ~ pthread_detach /\ ~ pthread_exit /\ ~ Report /\ ~ spin_init
        /\ ~ sem_open /\ ~ Close
    BY <1>1 DEF pthread_detach, pthread_exit, Report, spin_init, sem_open, Close
  <2>2. ~ CheckResults /\ ~ setstack
    BY <1>1 DEF CheckResults, setstack
  <2>3. ~ LastThreadEnds
    <3>1. at[0] > 0 /\ ~ Over(0)
      BY SharedWhere DEF SharedIs, SharedState, SharedTypes, Kept
    <3>. QED  BY <3>1 DEF LastThreadEnds
  <2>. QED  BY <2>1, <2>2, <2>3 DEF Main
<1>3. CASE pthread_create
  BY <1>3, SharedCreates
<1>4. /\ SharedTypes /\ SharedPlaces /\ Kept /\ Unlocked /\ SharedData
      /\ Round(1) /\ Round(2) /\ at \in [0 .. 5 -> Nat]
  BY DEF SharedIs, SharedState, SharedTypes, Kept
<1>5. CASE pthread_join
  <2>. DEFINE k == Arg(0)
  <2>1. /\ Works(0, "join") /\ (k \in failed \/ Over(k)) /\ joinable' = joinable \ {k}
        /\ UNCHANGED <<failed, reported, found, lock, memory, register>>
    BY <1>5 DEF pthread_join, data
  <2>2. /\ outcome = "running" /\ at' = [at EXCEPT ![0] = at[0] + 1]
        /\ UNCHANGED <<program, runs, outcome, status, stray, after, avars>>
    BY <2>1, PassIs
  <2>3. (at[0] = 3 /\ k = 1) \/ (at[0] = 4 /\ k = 2)
    <3>1. Does(0, "join")
      BY <2>1 DEF Works
    <3>. QED  BY <3>1, SharedDoes
  <2>. HIDE DEF k
  <2>4. k \in failed \/ at[k] = 4
    <3>1. k \in 1 .. 2 /\ at[k] <= 4 /\ at[k] \in Nat
      BY <1>4, <2>3 DEF SharedPlaces
    <3>. QED  BY <2>1, <3>1, SharedWhere
  <2>5. at'[0] = at[0] + 1 /\ at'[1] = at[1] /\ at'[2] = at[2] /\ at' \in [0 .. 5 -> Nat]
    BY <1>4, <2>2
  <2>6. SharedTypes'
    <3>1. Kept' /\ at'[0] <= 5
      BY <1>4, <2>2, <2>3, <2>5 DEF Kept
    <3>2. Unlocked' /\ SharedData'
      BY <1>4, <2>1, <2>2 DEF Unlocked, SharedData
    <3>3. failed' \subseteq 1 .. 2 /\ joinable' \subseteq 1 .. 2
      BY <1>4, <2>1 DEF SharedTypes
    <3>. QED  BY <1>4, <2>2, <3>1, <3>2, <3>3 DEF SharedTypes, avars
  <2>7. SharedPlaces'
    <3>1. /\ outcome' = "running" /\ failed' = failed /\ memory' = memory
          /\ joinable' = joinable \ {k}
      BY <2>1, <2>2
    <3>2. \A t \in 1 .. 2 : at'[0] > 2 + t =>
            (t \in failed \/ at[t] = 4) /\ t \notin joinable'
      <4>1. \A t \in 1 .. 2 : at[0] > 2 + t =>
              (t \in failed \/ at[t] = 4) /\ t \notin joinable
        BY <1>4, <2>2 DEF SharedPlaces
      <4>2. CASE at[0] = 3 /\ k = 1
        BY <2>4, <2>5, <3>1, <4>2
      <4>3. CASE at[0] = 4 /\ k = 2
        BY <2>4, <2>5, <3>1, <4>1, <4>3
      <4>. QED  BY <2>3, <4>2, <4>3
    <3>3. \A t \in 1 .. 2 : at'[t] = at[t]
      BY <2>5
    <3>. QED  BY <1>4, <2>3, <2>5, <3>1, <3>2, <3>3 DEF SharedPlaces
  <2>8. Round(1)' /\ Round(2)'
    <3>1. gathering' = gathering /\ released' = released
      BY <2>2 DEF avars
    <3>2. \A b \in 1 .. 2 : gathering[b] \subseteq 1 .. 2 /\ released[b] \subseteq 1 .. 2
      BY <1>4 DEF SharedTypes
    <3>3. \A t \in 1 .. 2 : at'[t] = at[t]
      BY <2>5
    <3>. QED  BY <1>4, <3>1, <3>2, <3>3 DEF Round
  <2>. QED  BY <2>6, <2>7, <2>8 DEF SharedState
<1>6. CASE Return
  <2>1. Does(0, "return") /\ Ends("exited", 0)
    BY <1>6 DEF Return
  <2>2. at[0] = 5
    BY <2>1, SharedDoes
  <2>3. /\ outcome = "running" /\ outcome' = "exited" /\ status' = 0
        /\ UNCHANGED <<program, runs, stray, at, after, failed, joinable, reported, found,
                       lock, memory, register, avars>>
    BY <2>1, EndIs
  <2>4. SharedTypes'
    BY <1>4, <2>3 DEF SharedTypes, SharedData, Kept, Unlocked, avars
  <2>5. SharedPlaces'
    BY <1>4, <2>2, <2>3 DEF SharedPlaces
  <2>6. Round(1)' /\ Round(2)'
    BY <1>4, <2>3 DEF Round, avars
  <2>. QED  BY <2>4, <2>5, <2>6 DEF SharedState
<1>. QED  BY <1>2, <1>3, <1>5, <1>6

\* It holds at first.
LEMMA SharedInit == ProgramsInit => SharedState
<1>. SUFFICES ASSUME ProgramsInit
              PROVE  SharedState
  OBVIOUS
<1>1. /\ Fresh /\ lock = Absent /\ runs = 1 /\ stray = "none"
      /\ memory = [shared_var |-> 0, shared_int |-> "null", block |-> "null", len |-> 0,
                   cells |-> [i \in 0 .. Length - 1 |-> "garbage"]]
  BY InitIs
<1>2. runs \in 1 .. MaxRuns
  BY <1>1, ThreadProgramsAssumption
<1>3. gathering = [b \in 1 .. 2 |-> {}] /\ released = [b \in 1 .. 2 |-> {}]
  <2>1. Barriers = 1 .. 2
    BY ThreadProgramsAssumption
  <2>. QED  BY <2>1 DEF ProgramsInit, Init
<1>4. SharedTypes
  BY <1>1, <1>2, <1>3 DEF Fresh, SharedTypes, SharedData, Kept, Unlocked
<1>5. SharedPlaces
  BY <1>1 DEF Fresh, SharedPlaces
<1>6. ASSUME NEW b \in 1 .. 2
      PROVE  Round(b)
  <2>1. gathering[b] = {} /\ released[b] = {}
    BY <1>3
  <2>2. \A t \in 1 .. 2 : at[t] = 0 /\ WaitsAt(t, b) \in 1 .. 3
    BY <1>1 DEF Fresh, WaitsAt
  <2>. QED  BY <2>1, <2>2 DEF Round
<1>. QED  BY <1>4, <1>5, <1>6 DEF SharedState

-----------------------------------------------------------------------------
(***************************************************************************)
(* All the programs.                                                       *)
(***************************************************************************)
\* Every program is one of the eight or of the other three.
LEMMA Kinds ==
  ASSUME ProgramIs
  PROVE  /\ program.name \in Usual \/ Array \/ Heap \/ Shared
         /\ Array => /\ program.main = shared_array_raw.main
                     /\ program.body = shared_array_raw.body
         /\ Heap => program.main = heap_stack.main /\ program.body = heap_stack.body
         /\ Shared => /\ program.main = stack_shared_var.main
                      /\ program.body = stack_shared_var.body
         /\ Array \/ Heap \/ Shared => program.name \notin Usual
<1>. DEFINE name == program.name
<1>1. /\ name \in DOMAIN Program
      /\ program.main = Program[name].main /\ program.body = Program[name].body
  BY DEF ProgramIs
<1>2. name = "shared_array_raw" => Program[name] = shared_array_raw
  BY DEF Program
<1>3. name = "heap_stack" => Program[name] = heap_stack
  BY DEF Program
<1>4. name = "stack_shared_var" => Program[name] = stack_shared_var
  BY DEF Program
<1>5. name \in Usual \cup {"shared_array_raw", "heap_stack", "stack_shared_var"}
  BY <1>1 DEF Program, Usual, Counting, Locked
<1>6. /\ "shared_array_raw" \notin Usual /\ "heap_stack" \notin Usual
      /\ "stack_shared_var" \notin Usual
  BY DEF Usual, Counting, Locked
<1>. HIDE DEF name
<1>. QED  BY <1>1, <1>2, <1>3, <1>4, <1>5, <1>6 DEF Array, Heap, Shared, name

\* The invariant of the other three programs holds at first.
LEMMA OthersInvInit == ProgramsInit => OthersInv
BY ArrayMoreInit, HeapInit, SharedInit DEF OthersInv

\* Every step keeps it.
LEMMA OthersInvNext ==
  UsualInv /\ ArrayInv /\ OthersInv /\ [ProgramsNext]_vars => OthersInv'
<1>. SUFFICES ASSUME UsualInv, ArrayInv, OthersInv, [ProgramsNext]_vars
              PROVE  OthersInv'
  OBVIOUS
<1>1. program' = program /\ ProgramIs
  BY ProgramStays DEF UsualInv
<1>2. (Array' <=> Array) /\ (Heap' <=> Heap) /\ (Shared' <=> Shared)
  BY <1>1 DEF Array, Heap, Shared
<1>3. Array => ArrayIs
  BY <1>1, Kinds DEF ArrayInv, OthersInv, ArrayIs
<1>4. Heap => HeapIs
  BY <1>1, Kinds DEF OthersInv, HeapIs
<1>5. Shared => SharedIs
  BY <1>1, Kinds DEF OthersInv, SharedIs
<1>6. Array \/ Heap \/ Shared => ~ Kill /\ ~ Restart
  BY DEF Array, Heap, Shared, Kill, Restart
<1>7. ASSUME Array
      PROVE  ArrayMore'
  <2>1. Table /\ ArrayTypes /\ Workers = 1 .. 5
    BY <1>3, <1>7, TableHolds DEF ArrayIs, ArrayState, Table
  <2>2. CASE UNCHANGED vars
    <3>1. ArrayMore
      BY <1>3, <1>7 DEF ArrayIs
    <3>2. UNCHANGED <<runs, status, outcome, stray, at, reported, found, lock,
                      failed, joinable>>
      BY <2>2 DEF vars, process, control, data
    <3>. QED  BY <3>1, <3>2 DEF ArrayMore, Kept, Unlocked
  <2>3. CASE Main
    BY <1>3, <1>7, <2>3, ArrayMoreMain
  <2>4. ASSUME NEW t \in Workers \cup {0}, Step(t)
        PROVE  ArrayMore'
    <3>1. ~ Step(0)
      BY <2>1, MainStepsNowhere
    <3>2. t \in 1 .. 5
      BY <2>1, <2>4, <3>1
    <3>. QED  BY <1>3, <1>7, <2>4, <3>2, ArrayMoreStep
  <2>. QED  BY <1>6, <1>7, <2>2, <2>3, <2>4 DEF ProgramsNext
<1>8. ASSUME Heap
      PROVE  HeapState'
  <2>1. HeapIs /\ HeapState
    BY <1>4, <1>8 DEF HeapIs
  <2>2. CASE UNCHANGED vars
    <3>1. UNCHANGED <<runs, status, outcome, stray, at, after, reported, found, lock,
                      failed, joinable, memory, register>>
      BY <2>2 DEF vars, process, control, data
    <3>2. HeapTypes'
      BY <2>1, <3>1 DEF HeapState, HeapTypes, HeapData, Kept, Unlocked
    <3>3. HeapPlaces' /\ HeapBlock'
      BY <2>1, <3>1 DEF HeapState, HeapPlaces, HeapBlock
    <3>. QED  BY <3>2, <3>3 DEF HeapState
  <2>3. CASE Main
    BY <2>1, <2>3, HeapMainKeeps
  <2>4. ASSUME NEW t \in Workers \cup {0}, Step(t)
        PROVE  HeapState'
    <3>1. t \in 0 .. 2
      BY <2>1, <2>4, HeapWhere
    <3>. QED  BY <2>1, <2>4, <3>1, HeapStepKeeps
  <2>. QED  BY <1>6, <1>8, <2>2, <2>3, <2>4 DEF ProgramsNext
<1>9. ASSUME Shared
      PROVE  SharedState'
  <2>1. SharedIs /\ SharedState
    BY <1>5, <1>9 DEF SharedIs
  <2>2. CASE UNCHANGED vars
    <3>1. UNCHANGED <<runs, status, outcome, stray, at, after, reported, found, lock,
                      failed, joinable, memory, register, gathering, released>>
      BY <2>2 DEF vars, process, control, data, avars
    <3>2. SharedTypes'
      BY <2>1, <3>1 DEF SharedState, SharedTypes, SharedData, Kept, Unlocked
    <3>3. SharedPlaces'
      BY <2>1, <3>1 DEF SharedState, SharedPlaces
    <3>4. Round(1)' /\ Round(2)'
      BY <2>1, <3>1 DEF SharedState, Round
    <3>. QED  BY <3>2, <3>3, <3>4 DEF SharedState
  <2>3. CASE Main
    BY <2>1, <2>3, SharedMainKeeps
  <2>4. ASSUME NEW t \in Workers \cup {0}, Step(t)
        PROVE  SharedState'
    <3>1. t \in 0 .. 2
      BY <2>1, <2>4, SharedWhere
    <3>. QED  BY <2>1, <2>4, <3>1, SharedStepKeeps
  <2>. QED  BY <1>6, <1>9, <2>2, <2>3, <2>4 DEF ProgramsNext
<1>. QED  BY <1>2, <1>7, <1>8, <1>9 DEF OthersInv

\* The inductive invariant of all the programs of the table.
ProgramsInv == UsualInv /\ ArrayInv /\ OthersInv

(***************************************************************************)
(* The invariant of all eleven programs holds, for an array of any even    *)
(* length and any number of runs.                                          *)
(***************************************************************************)
THEOREM ProgramsInvariant == ProgramsSafetySpec => []ProgramsInv
<1>1. ProgramsInit => ProgramsInv
  BY UsualInvInit, ArrayInvInit, OthersInvInit DEF ProgramsInv
<1>2. ProgramsInv /\ [ProgramsNext]_vars => ProgramsInv'
  BY UsualInvNext, ArrayInvNext, OthersInvNext DEF ProgramsInv
<1>. QED  BY <1>1, <1>2, PTL DEF ProgramsSafetySpec

\* What the invariant says of what is touched.
LEMMA TouchesTheLivingHolds == ProgramsInv => TouchesTheLiving
<1>. SUFFICES ASSUME ProgramsInv, outcome = "undefined"
              PROVE  \/ program.name = "race_corrupt_memory" /\ stray = "main"
                     \/ program.name = "heap_stack" /\ memory.block = "null"
                     \/ program.name = "stack_shared_var" /\ stray = "handle"
                     \/ program.name = "shared_array_raw" /\ stray # "wild"
  BY DEF TouchesTheLiving
<1>1. UsualInv /\ ArrayInv /\ OthersInv /\ ProgramIs
  BY DEF ProgramsInv, UsualInv
<1>2. CASE program.name \in Usual
  BY <1>1, <1>2 DEF UsualInv, UsualControl, Endings
<1>3. CASE Array
  BY <1>1, <1>3 DEF ArrayInv, ArrayState, Unwrapped, Array
<1>4. CASE Heap
  BY <1>1, <1>4 DEF OthersInv, HeapState, HeapBlock, Heap
<1>5. CASE Shared
  BY <1>1, <1>5 DEF OthersInv, SharedState, SharedPlaces, Shared
<1>. QED  BY <1>1, <1>2, <1>3, <1>4, <1>5, Kinds

(***************************************************************************)
(* Nothing is used before or after its life, but for what the programs are *)
(* about and, where a call failed that the program goes on after, a null   *)
(* stack and a handle that was never set.                                  *)
(***************************************************************************)
THEOREM OnlyTheLivingAreTouched == ProgramsSafetySpec => []TouchesTheLiving
<1>. QED  BY ProgramsInvariant, TouchesTheLivingHolds, PTL

\* What the invariant says of a success.
LEMMA SuccessMeansDoneHolds == ProgramsInv => SuccessMeansDone
<1>. DEFINE Reports == program.name \in Counting =>
              reported = IF program.name = "race_to_data_mutex" THEN 0
                         ELSE memory.shared_var
            Done == \/ program.name = "stack_shared_var" /\ failed = Workers
                    \/ /\ failed = {} /\ Ended = Workers
                       /\ joinable = {} \/ program.name = "shared_array_raw"
                       /\ program.name = "heap_stack" => memory.block = "freed"
                       /\ Reports
<1>. SUFFICES ASSUME ProgramsInv, outcome = "exited", status = 0
              PROVE  Done
  BY Zenon DEF SuccessMeansDone
<1>1. UsualInv /\ ArrayInv /\ OthersInv /\ ProgramIs
  BY DEF ProgramsInv, UsualInv
<1>2. ASSUME program.name \in Usual
      PROVE  Done
  <2>1. Usually0 /\ UsualControl /\ UsualData
    BY <1>1, <1>2 DEF UsualInv, Usually0
  <2>2. failed = {} /\ joinable = {} /\ AllOver /\ at[0] >= MainSize
    BY <2>1 DEF UsualControl, Endings
  <2>3. Ended = Workers
    BY <2>1, <2>2, OverIs DEF Ended, AllOver
  <2>4. Reports
    <3>. SUFFICES ASSUME program.name \in Counting
                  PROVE  reported = IF program.name = "race_to_data_mutex" THEN 0
                                    ELSE memory.shared_var
      OBVIOUS
    <3>1. MainSize > ReportAt /\ MainSize \in Nat /\ at[0] \in Nat /\ ReportAt \in Nat
      BY <2>1, CountingSizes, OverIs DEF ReportAt, UsualControl, UsualTypes
    <3>2. at[0] > ReportAt
      BY <2>2, <3>1
    <3>. QED  BY <2>1, <3>2 DEF UsualData, ReportIs
  <2>5. program.name # "heap_stack"
    BY <1>2 DEF Usual, Counting, Locked
  <2>. HIDE DEF Reports
  <2>. QED  BY <2>2, <2>3, <2>4, <2>5
<1>3. ASSUME Array \/ Heap \/ Shared
      PROVE  Reports
  BY <1>3 DEF Array, Heap, Shared, Counting, Locked
<1>. HIDE DEF Reports
<1>4. ASSUME Array
      PROVE  Done
  <2>1. ArrayMore /\ Table /\ ArrayTypes
    BY <1>1, <1>4, Kinds, TableHolds DEF OthersInv, ArrayInv, ArrayState
  <2>2. at[0] = 12 /\ \A t \in 1 .. 5 : at[t] > Size(t)
    BY <2>1 DEF ArrayMore
  <2>3. failed = {}
    BY <2>1, <2>2 DEF ArrayMore
  <2>4. Ended = Workers
    BY <2>1, <2>2, BodySizes DEF Ended, Table
  <2>. QED  BY <1>3, <1>4, <2>3, <2>4 DEF Array
<1>5. ASSUME Heap
      PROVE  Done
  <2>1. HeapIs /\ HeapTypes /\ HeapPlaces /\ HeapBlock
    BY <1>1, <1>5, Kinds DEF OthersInv, HeapIs, HeapState
  <2>2. at[0] = 10
    BY <2>1 DEF HeapBlock
  <2>3. /\ failed = {} /\ at[1] = 2 /\ at[2] = 2 /\ memory.block = "freed"
        /\ 1 \notin joinable /\ 2 \notin joinable
    BY <2>1, <2>2 DEF HeapPlaces, HeapBlock
  <2>4. joinable = {}
    BY <2>1, <2>3 DEF HeapTypes
  <2>5. Ended = Workers
    <3>1. \A t \in 1 .. 2 : at[t] > 1
      BY <2>3
    <3>. QED  BY <2>1, <3>1, HeapWhere DEF Ended
  <2>. QED  BY <1>3, <1>5, <2>3, <2>4, <2>5
<1>6. ASSUME Shared
      PROVE  Done
  <2>1. SharedIs /\ SharedTypes /\ SharedPlaces /\ Round(2)
    BY <1>1, <1>6, Kinds DEF OthersInv, SharedIs, SharedState
  <2>2. at[0] = 5 /\ at \in [0 .. 5 -> Nat]
    BY <2>1 DEF SharedPlaces, SharedTypes, Kept
  <2>3. \A t \in 1 .. 2 : /\ t \in failed => at[t] = 0
                          /\ t \in failed \/ at[t] = 4
                          /\ t \notin joinable
    BY <2>1, <2>2 DEF SharedPlaces
  <2>4. joinable = {} /\ failed \subseteq 1 .. 2 /\ Workers = 1 .. 2
    BY <2>1, <2>3, SharedWhere DEF SharedTypes
  <2>5. WaitsAt(1, 2) = 3 /\ WaitsAt(2, 2) = 3
    BY DEF WaitsAt
  <2>6. ASSUME NEW t \in 1 .. 2, NEW u \in 1 .. 2, t \in failed, u \notin failed
        PROVE  FALSE
    <3>1. at[t] = 0 /\ at[u] = 4
      BY <2>3, <2>6
    <3>2. WaitsAt(t, 2) = 3 /\ WaitsAt(u, 2) = 3
      BY <2>5
    <3>3. at[t] > WaitsAt(t, 2) \/ t \in released[2]
      BY <2>1, <3>1, <3>2 DEF Round
    <3>4. t \in released[2] => at[t] = WaitsAt(t, 2)
      BY <2>1 DEF Round
    <3>. QED  BY <3>1, <3>2, <3>3, <3>4
  <2>7. CASE failed = {}
    <3>1. \A t \in 1 .. 2 : at[t] > 3
      BY <2>3, <2>7
    <3>2. Ended = Workers
      BY <2>1, <3>1, SharedWhere DEF Ended
    <3>3. program.name # "heap_stack"
      BY <1>6 DEF Shared
    <3>. QED  BY <1>3, <1>6, <2>4, <2>7, <3>2, <3>3
  <2>8. CASE failed # {}
    <3>1. failed = Workers
      BY <2>4, <2>6, <2>8
    <3>. QED  BY <1>6, <3>1 DEF Shared
  <2>. QED  BY <2>7, <2>8
<1>. QED  BY <1>1, <1>2, <1>4, <1>5, <1>6, Kinds

(***************************************************************************)
(* A process that exits with status 0 has created all its threads, seen    *)
(* them end, joined or detached them (but for the unsynchronised array,    *)
(* that does neither), freed the stack on the heap and reported the sum;   *)
(* only stack_shared_var also does when it could create neither of its     *)
(* threads.                                                                *)
(***************************************************************************)
THEOREM SuccessIsDone == ProgramsSafetySpec => []SuccessMeansDone
<1>. QED  BY ProgramsInvariant, SuccessMeansDoneHolds, PTL

\* The parts of TypeOK by which the programs differ.
PlacesFit ==
  /\ \A t \in Workers \cup {0} : at[t] \in 0 .. Len(Code(t)) + 1
  /\ after \in [Threads -> SUBSET Workers]
  /\ failed \subseteq Workers /\ joinable \subseteq Workers

ValuesFit ==
  /\ reported \in -1 .. 6 /\ memory.shared_var \in 0 .. 6
  /\ lock \in {Absent, 0, 1} /\ found \in {Absent, 0, 1}
  /\ register \in [Threads -> 0 .. 6]

\* The types, from their parts.
LEMMA TypeParts ==
  ASSUME ProgramIs, Kept, PlacesFit, ValuesFit
  PROVE  TypeOK
BY DEF ProgramIs, Kept, PlacesFit, ValuesFit, TypeOK

\* n threads, whose bodies have the given sizes, and a main() of m operations.
Placed(n, m, size) ==
  /\ Workers = 1 .. n /\ Len(Code(0)) = m
  /\ \A t \in 1 .. n : size[t] \in Nat /\ Len(Code(t)) = size[t] /\ at[t] <= size[t] + 1
  /\ at \in [0 .. 5 -> Nat] /\ at[0] <= m + 1
  /\ after \in [1 .. 5 -> SUBSET (1 .. n)]
  /\ failed \subseteq 1 .. n /\ joinable \subseteq 1 .. n

\* The places, from the sizes.
LEMMA PlacesParts ==
  ASSUME NEW n \in 1 .. 5, NEW m \in Nat, NEW size, Placed(n, m, size)
  PROVE  PlacesFit
<1>. USE DEF Placed
<1>1. at[0] \in 0 .. Len(Code(0)) + 1
  <2>1. at[0] \in 0 .. m + 1 /\ Len(Code(0)) = m
    OBVIOUS
  <2>. QED  BY <2>1, Zenon
<1>2. ASSUME NEW t \in 1 .. n
      PROVE  at[t] \in 0 .. Len(Code(t)) + 1
  <2>1. size[t] \in Nat /\ Len(Code(t)) = size[t] /\ at[t] <= size[t] + 1
    BY Zenon
  <2>2. at[t] \in Nat
    <3>1. at \in [0 .. 5 -> Nat]
      BY Zenon
    <3>. HIDE DEF Placed
    <3>. QED  BY <3>1
  <2>. HIDE DEF Placed
  <2>3. at[t] \in 0 .. size[t] + 1
    BY <2>1, <2>2
  <2>. QED  BY <2>1, <2>3, Zenon
<1>3. \A t \in Workers \cup {0} : at[t] \in 0 .. Len(Code(t)) + 1
  <2>1. ASSUME NEW t \in Workers \cup {0}
        PROVE  at[t] \in 0 .. Len(Code(t)) + 1
    <3>1. t = 0 \/ t \in 1 .. n
      BY <2>1
    <3>2. CASE t = 0
      BY <1>1, <3>2
    <3>3. CASE t \in 1 .. n
      BY <1>2, <3>3
    <3>. QED  BY <3>1, <3>2, <3>3
  <2>. QED  BY <2>1
<1>. QED  BY <1>3, ThreadProgramsAssumption DEF PlacesFit

\* The types of the eight programs,
LEMMA UsualFits ==
  ASSUME UsualOne
  PROVE  Kept /\ PlacesFit /\ ValuesFit
<1>1. Usually0 /\ UsualControl /\ UsualData
  BY DEF UsualOne
<1>2. Kept
  BY <1>1 DEF UsualControl, UsualTypes, Endings, Kept
<1>3. PlacesFit
  <2>1. /\ Workers = 1 .. Team /\ Team \in 1 .. 5
        /\ \A t \in 1 .. Team : Len(Code(t)) = BodySize(t) /\ BodySize(t) \in Nat
        /\ Len(Code(0)) = MainSize /\ MainSize \in Nat
    <3>1. Code(0) = program.main
      BY DEF Code
    <3>. QED  BY <1>1, <3>1, Sizes0, OverIs DEF BodySize, MainSize
  <2>. DEFINE size == [t \in 1 .. Team |-> BodySize(t)]
  <2>2. /\ at \in [0 .. 5 -> Nat] /\ at[0] <= MainSize + 1
        /\ after \in [1 .. 5 -> SUBSET (1 .. Team)]
        /\ failed \subseteq 1 .. Team /\ joinable \subseteq 1 .. Team
        /\ \A t \in 1 .. Team : at[t] <= BodySize(t) + 1
    BY <1>1 DEF UsualControl, UsualTypes
  <2>3. \A t \in 1 .. Team :
          size[t] \in Nat /\ Len(Code(t)) = size[t] /\ at[t] <= size[t] + 1
    BY <2>1, <2>2
  <2>. HIDE DEF size
  <2>4. Placed(Team, MainSize, size)
    BY <2>1, <2>2, <2>3 DEF Placed
  <2>. QED  BY <2>1, <2>4, PlacesParts
<1>4. memory.shared_var \in 0 .. 6 /\ register \in [1 .. 5 -> 0 .. 6]
  BY <1>1 DEF UsualData, DataTypes
<1>5. reported \in -1 .. 6
  BY <1>1, <1>4 DEF UsualData, ReportIs
<1>6. lock \in {Absent, 0, 1} /\ found \in {Absent, 0, 1}
  BY <1>1 DEF UsualData, Lockless, LockedData, LockIs
<1>7. ValuesFit
  BY <1>4, <1>5, <1>6, ThreadProgramsAssumption DEF ValuesFit
<1>. QED  BY <1>2, <1>3, <1>7

\* of the unsynchronised array,
LEMMA ArrayFits ==
  ASSUME ArrayIs
  PROVE  Kept /\ PlacesFit /\ ValuesFit
<1>1. /\ Table /\ ArrayTypes /\ Places /\ Kept /\ Unlocked /\ at[0] <= 12
      /\ failed \subseteq 1 .. 5 /\ joinable \subseteq 1 .. 5
  BY TableHolds DEF ArrayIs, ArrayState, ArrayMore
<1>2. PlacesFit
  <2>1. /\ Workers = 1 .. 5 /\ Code(0) = program.main
        /\ \A t \in 1 .. 5 : Len(Code(t)) = Size(t) /\ Size(t) \in Nat
    BY <1>1, BodySizes, Sizes, Halves DEF Code
  <2>2. Len(Code(0)) = 11
    BY <1>1, <2>1 DEF Table
  <2>. DEFINE size == [t \in 1 .. 5 |-> Size(t)]
  <2>3. at \in [0 .. 5 -> Nat] /\ after \in [1 .. 5 -> SUBSET (1 .. 5)]
    BY <1>1 DEF ArrayTypes
  <2>4. \A t \in 1 .. 5 : size[t] \in Nat /\ Len(Code(t)) = size[t] /\ at[t] <= size[t] + 1
    BY <1>1, <2>1 DEF Places
  <2>5. at[0] <= 11 + 1
    BY <1>1
  <2>. HIDE DEF size
  <2>6. Placed(5, 11, size)
    BY <1>1, <2>1, <2>2, <2>3, <2>4, <2>5 DEF Placed
  <2>. QED  BY <2>6, PlacesParts
<1>3. ValuesFit
  <2>1. memory.shared_var = 0 /\ register \in [1 .. 5 -> 0 .. 6]
    BY <1>1 DEF ArrayTypes
  <2>. QED  BY <1>1, <2>1, ThreadProgramsAssumption DEF ValuesFit, Unlocked
<1>. QED  BY <1>1, <1>2, <1>3

\* of heap_stack,
LEMMA HeapFits ==
  ASSUME HeapIs
  PROVE  Kept /\ PlacesFit /\ ValuesFit
<1>1. /\ HeapTypes /\ HeapPlaces /\ Kept /\ Unlocked /\ HeapData
      /\ program.main = heap_stack.main /\ program.body = heap_stack.body
  BY DEF HeapIs, HeapState, HeapTypes
<1>2. PlacesFit
  <2>1. /\ Workers = 1 .. 2 /\ Code(0) = program.main
        /\ \A t \in 1 .. 2 : Len(Code(t)) = 1
    BY <1>1, HeapWhere, HeapBody DEF Code
  <2>2. Len(Code(0)) = 10
    BY <1>1, <2>1, HeapMain DEF Spells
  <2>. DEFINE size == [t \in 1 .. 2 |-> 1]
  <2>3. /\ at \in [0 .. 5 -> Nat] /\ after \in [1 .. 5 -> SUBSET (1 .. 2)]
        /\ failed \subseteq 1 .. 2 /\ joinable \subseteq 1 .. 2 /\ at[0] <= 10 + 1
        /\ at[1] <= 2 /\ at[2] <= 2
    <3>1. at \in [0 .. 5 -> Nat]
      BY <1>1, Zenon DEF Kept
    <3>2. after \in [1 .. 5 -> SUBSET (1 .. 2)]
      BY <1>1, Zenon DEF HeapData
    <3>3. failed \subseteq 1 .. 2 /\ joinable \subseteq 1 .. 2 /\ at[0] <= 10
      BY <1>1, Zenon DEF HeapTypes
    <3>4. at[1] <= 2 /\ at[2] <= 2
      BY <1>1 DEF HeapPlaces
    <3>5. at[0] <= 10 + 1
      BY <3>1, <3>3
    <3>. QED  BY <3>1, <3>2, <3>3, <3>4, <3>5, Zenon
  <2>4. \A t \in 1 .. 2 : size[t] \in Nat /\ Len(Code(t)) = size[t] /\ at[t] <= size[t] + 1
    BY <2>1, <2>3
  <2>. HIDE DEF size
  <2>5. at \in [0 .. 5 -> Nat] /\ at[0] <= 10 + 1 /\ after \in [1 .. 5 -> SUBSET (1 .. 2)]
    BY <2>3
  <2>6. Placed(2, 10, size)
    BY <2>1, <2>2, <2>3, <2>4, <2>5, Zenon DEF Placed
  <2>. QED  BY <2>6, PlacesParts
<1>3. ValuesFit
  <2>1. memory.shared_var = 0 /\ register \in [1 .. 5 -> 0 .. 6]
    BY <1>1 DEF HeapData
  <2>. QED  BY <1>1, <2>1, ThreadProgramsAssumption DEF ValuesFit, Unlocked
<1>. QED  BY <1>1, <1>2, <1>3

\* and of stack_shared_var.
LEMMA SharedFits ==
  ASSUME SharedIs
  PROVE  Kept /\ PlacesFit /\ ValuesFit
<1>1. /\ SharedTypes /\ SharedPlaces /\ Kept /\ Unlocked /\ SharedData
      /\ program.main = stack_shared_var.main /\ program.body = stack_shared_var.body
  BY DEF SharedIs, SharedState, SharedTypes
<1>2. PlacesFit
  <2>1. /\ Workers = 1 .. 2 /\ Code(0) = program.main
        /\ \A t \in 1 .. 2 : Len(Code(t)) = 3
    BY <1>1, SharedWhere, SharedBody DEF Code
  <2>2. Len(Code(0)) = 5
    BY <1>1, <2>1, SharedMain DEF Spells
  <2>. DEFINE size == [t \in 1 .. 2 |-> 3]
  <2>3. /\ at \in [0 .. 5 -> Nat] /\ after \in [1 .. 5 -> SUBSET (1 .. 2)]
        /\ failed \subseteq 1 .. 2 /\ joinable \subseteq 1 .. 2 /\ at[0] <= 5 + 1
        /\ \A t \in 1 .. 2 : at[t] <= 4
    <3>1. at \in [0 .. 5 -> Nat]
      BY <1>1, Zenon DEF Kept
    <3>2. after \in [1 .. 5 -> SUBSET (1 .. 2)]
      BY <1>1, Zenon DEF SharedData
    <3>3. failed \subseteq 1 .. 2 /\ joinable \subseteq 1 .. 2 /\ at[0] <= 5 + 1
      BY <1>1, <3>1 DEF SharedTypes
    <3>4. \A t \in 1 .. 2 : at[t] <= 4
      BY <1>1, Zenon DEF SharedPlaces
    <3>. QED  BY <3>1, <3>2, <3>3, <3>4, Zenon
  <2>4. \A t \in 1 .. 2 : size[t] \in Nat /\ Len(Code(t)) = size[t] /\ at[t] <= size[t] + 1
    BY <2>1, <2>3
  <2>. HIDE DEF size
  <2>5. at \in [0 .. 5 -> Nat] /\ at[0] <= 5 + 1 /\ after \in [1 .. 5 -> SUBSET (1 .. 2)]
    BY <2>3
  <2>6. Placed(2, 5, size)
    BY <2>1, <2>2, <2>3, <2>4, <2>5, Zenon DEF Placed
  <2>. QED  BY <2>6, PlacesParts
<1>3. ValuesFit
  <2>1. memory.shared_var = 0 /\ register \in [1 .. 5 -> 0 .. 6]
    BY <1>1 DEF SharedData
  <2>. QED  BY <1>1, <2>1, ThreadProgramsAssumption DEF ValuesFit, Unlocked
<1>. QED  BY <1>1, <1>2, <1>3

\* What the invariant says of the types and the locks.
LEMMA LockKeptHolds == ProgramsInv => LockKept
<1>. SUFFICES ASSUME ProgramsInv
              PROVE  TypeOK /\ LockExclusive
  BY DEF LockKept
<1>1. UsualInv /\ ArrayInv /\ OthersInv /\ ProgramIs
  BY DEF ProgramsInv, UsualInv
<1>2. CASE program.name \in Usual
  <2>1. UsualOne
    BY <1>1, <1>2 DEF UsualInv, UsualOne, Usually0
  <2>2. TypeOK
    BY <1>1, <2>1, UsualFits, TypeParts
  <2>. QED  BY <1>1, <1>2, <2>2, LockExclusiveHolds
<1>3. CASE Array \/ Heap \/ Shared
  <2>1. Kept /\ PlacesFit /\ ValuesFit
    <3>1. ASSUME Array
          PROVE  ArrayIs
      BY <1>1, <3>1, Kinds DEF ArrayInv, OthersInv, ArrayIs
    <3>2. ASSUME Heap
          PROVE  HeapIs
      BY <1>1, <3>2, Kinds DEF OthersInv, HeapIs
    <3>3. ASSUME Shared
          PROVE  SharedIs
      BY <1>1, <3>3, Kinds DEF OthersInv, SharedIs
    <3>. QED  BY <1>3, <3>1, <3>2, <3>3, ArrayFits, HeapFits, SharedFits
  <2>2. TypeOK
    BY <1>1, <2>1, TypeParts
  <2>3. found = Absent
    BY <1>1, <1>3
       DEF OthersInv, ArrayMore, HeapState, HeapTypes, SharedState, SharedTypes, Unlocked
  <2>. QED  BY <2>2, <2>3 DEF LockExclusive
<1>. QED  BY <1>1, <1>2, <1>3, Kinds

(***************************************************************************)
(* The types of every program, and the locks: one thread at a time holds   *)
(* the spin lock or sem14, what it holds and what is left is what main()   *)
(* found, and sem14 is found empty only after a run that left it so.       *)
(***************************************************************************)
THEOREM LockIsKept == ProgramsSafetySpec => []LockKept
<1>. QED  BY ProgramsInvariant, LockKeptHolds, PTL
=============================================================================
