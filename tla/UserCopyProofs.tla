---------------------------- MODULE UserCopyProofs -----------------------------
(***************************************************************************)
(* JustTheGranted and AllOrNothing for every size of a page, of the address  *)
(* space and of the buffer, and every layout of regions and pages.  The      *)
(* argument is about one fragment: it lies in one region and one page, so    *)
(* all its bytes are granted and its physical bytes are next to each other.  *)
(* The invariant says how far the loops have come: what is behind current    *)
(* is granted, and in the second pass it is copied.                          *)
(***************************************************************************)
EXTENDS UserCopy, TLAPS

\* Division, and what is left of it.
LEMMA Division ==
  ASSUME NEW a \in Nat, NEW S \in Nat \ {0}
  PROVE  /\ a \div S \in Nat /\ a % S \in 0 .. S - 1
         /\ a = ((a \div S) * S) + (a % S)
  OBVIOUS

\* A place is a block and an offset in just one way.
LEMMA OneBlock ==
  ASSUME NEW S \in Nat \ {0}, NEW p \in Nat, NEW q \in Nat,
         NEW i \in 0 .. S - 1, NEW j \in 0 .. S - 1, p * S + i = q * S + j
  PROVE  p = q /\ i = j
<1>1. (p * S + i) \div S = p
  BY Z3
<1>2. (q * S + j) \div S = q
  BY Z3
<1>3. p = q
  BY <1>1, <1>2
<1> DEFINE b == p * S
<1>4. b \in Int /\ b + i = b + j
  BY <1>3
<1> HIDE DEF b
<1>5. i = j
  BY <1>4
<1> QED BY <1>3, <1>5

\* An address that is less than the rest of a page further on is in the same page.
LEMMA SamePage ==
  ASSUME NEW a \in Nat, NEW k \in Nat, NEW S \in Nat \ {0}, k < S - (a % S)
  PROVE  /\ (a + k) \div S = a \div S
         /\ (a + k) % S = (a % S) + k
<1> DEFINE q == a \div S
           r == a % S
           c == a + k
           j == r + k
<1>1. q \in Nat /\ r \in 0 .. S - 1 /\ a = q * S + r
  BY Division
<1>2. c \in Nat /\ j \in 0 .. S - 1 /\ c = q * S + j
  BY <1>1
<1>3. c \div S \in Nat /\ c % S \in 0 .. S - 1 /\ c = (c \div S) * S + (c % S)
  BY <1>2, Division
<1> HIDE DEF q, r, c, j
<1>4. c \div S = q /\ c % S = j
  BY <1>1, <1>2, <1>3, OneBlock
<1> QED BY <1>4 DEF q, r, c, j

-------------------------------------------------------------------------------
\* A layout is one of those the assumption is about.
LEMMA LayoutFacts ==
  ASSUME layout \in Layouts
  PROVE  /\ \A r \in layout.regions :
              r.start \in Nat /\ r.size \in Nat /\ r.start + r.size <= UINT32_MAX
         /\ \A p \in DOMAIN layout.pages : layout.pages[p].frame \in Nat
         /\ \A p, q \in DOMAIN layout.pages :
              layout.pages[p].frame = layout.pages[q].frame => p = q
  BY UserCopyAssumption DEF Address

\* A granted byte is in the address space and is not the null address.
LEMMA GrantedIsAddress ==
  ASSUME layout \in Layouts, NEW a \in Int, NEW w \in BOOLEAN, Granted(a, w)
  PROVE  a \in 1 .. UINT32_MAX
<1>1. PICK r \in RegionsOf(a, w) : TRUE
  BY DEF Granted
<1>2. r \in layout.regions /\ a # 0 /\ a >= r.start /\ a - r.start < r.size
  BY <1>1 DEF RegionsOf
<1>3. r.start \in Nat /\ r.size \in Nat /\ r.start + r.size <= UINT32_MAX
  BY <1>2, LayoutFacts
<1>4. UINT32_MAX \in Nat
  BY UserCopyAssumption
<1> QED BY <1>2, <1>3, <1>4

\* The physical byte of a granted address is one of the frames.
LEMMA PhysicalInFrames ==
  ASSUME layout \in Layouts, NEW a \in Nat, NEW w \in BOOLEAN, Granted(a, w)
  PROVE  Physical(a) \in Frames
<1> DEFINE p == Page(a)
           base == layout.pages[p].frame * PAGING_PAGE_SIZE
<1>1. p \in DOMAIN layout.pages
  BY DEF Granted, Translates
<1>2. PAGING_PAGE_SIZE \in Nat \ {0} /\ a % PAGING_PAGE_SIZE \in 0 .. PAGING_PAGE_SIZE - 1
  BY UserCopyAssumption, Division
<1>3. base \in Int
  BY <1>1, <1>2, LayoutFacts
<1>4. Physical(a) = base + (a % PAGING_PAGE_SIZE)
  BY DEF Physical
<1>5. (base .. base + PAGING_PAGE_SIZE - 1) \in
        {layout.pages[q].frame * PAGING_PAGE_SIZE
                     .. layout.pages[q].frame * PAGING_PAGE_SIZE + PAGING_PAGE_SIZE - 1 :
           q \in DOMAIN layout.pages}
  BY <1>1
<1> HIDE DEF base, p
<1>6. Physical(a) \in base .. base + PAGING_PAGE_SIZE - 1
  BY <1>2, <1>3, <1>4
<1> QED BY <1>5, <1>6 DEF Frames

\* Two granted addresses are two bytes of the frames.
LEMMA PhysicalInjective ==
  ASSUME layout \in Layouts, NEW a \in Nat, NEW b \in Nat, NEW w \in BOOLEAN,
         Granted(a, w), Granted(b, w), Physical(a) = Physical(b)
  PROVE  a = b
<1> DEFINE S == PAGING_PAGE_SIZE
           p == layout.pages[Page(a)].frame
           q == layout.pages[Page(b)].frame
<1>1. Page(a) \in DOMAIN layout.pages /\ Page(b) \in DOMAIN layout.pages
  BY DEF Granted, Translates
<1>2. S \in Nat \ {0}
  BY UserCopyAssumption
<1>3. /\ a % S \in 0 .. S - 1 /\ b % S \in 0 .. S - 1
      /\ a = (Page(a) * S) + (a % S) /\ b = (Page(b) * S) + (b % S)
  BY <1>2, Division DEF Page
<1>4. p \in Nat /\ q \in Nat
  BY <1>1, LayoutFacts
<1>5. p * S + (a % S) = q * S + (b % S)
  BY DEF Physical
<1>6. p = q => Page(a) = Page(b)
  BY <1>1, LayoutFacts
<1> HIDE DEF S, p, q
<1>7. p = q /\ a % S = b % S
  BY <1>2, <1>3, <1>4, <1>5, OneBlock
<1>8. Page(a) * S = Page(b) * S
  BY <1>6, <1>7
<1> QED BY <1>3, <1>7, <1>8

\* A fragment: it is not empty, the program may use all of it, and its physical bytes
\* follow each other.
LEMMA FragmentFacts ==
  ASSUME layout \in Layouts, NEW a \in Nat, NEW n \in Nat \ {0}, NEW w \in BOOLEAN,
         NEW s \in Fragments(a, n, w)
  PROVE  /\ s \in 1 .. n
         /\ \A k \in 0 .. s - 1 : Granted(a + k, w) /\ Physical(a + k) = Physical(a) + k
<1> DEFINE rest == PAGING_PAGE_SIZE - (a % PAGING_PAGE_SIZE)
<1>1. PAGING_PAGE_SIZE \in Nat \ {0} /\ a % PAGING_PAGE_SIZE \in 0 .. PAGING_PAGE_SIZE - 1
  BY UserCopyAssumption, Division
<1>2. PICK r \in RegionsOf(a, w) : s = Least(Least(n, r.size - (a - r.start)), PageRemaining(a))
  BY DEF Fragments
<1>3. /\ r \in layout.regions /\ a # 0 /\ a >= r.start /\ a - r.start < r.size
      /\ w => r.write
  BY <1>2 DEF RegionsOf
<1>4. r.start \in Nat /\ r.size \in Nat
  BY <1>3, LayoutFacts
<1>5. rest \in Nat \ {0} /\ PageRemaining(a) = rest
  BY <1>1 DEF PageRemaining
<1>6. s \in 1 .. n /\ s <= r.size - (a - r.start) /\ s <= rest
  <2> HIDE DEF rest
  <2> QED BY <1>2, <1>3, <1>4, <1>5 DEF Least
<1>7. Page(a) \in DOMAIN layout.pages /\ (w => layout.pages[Page(a)].write)
  <2>1. Translates(a, w)
    BY DEF Fragments
  <2> QED BY <2>1 DEF Translates
<1>8. ASSUME NEW k \in 0 .. s - 1
      PROVE  Granted(a + k, w) /\ Physical(a + k) = Physical(a) + k
  <2>1. k \in Nat /\ k < rest /\ (a + k) - r.start < r.size /\ a + k >= r.start /\ a + k # 0
    <3> HIDE DEF rest
    <3> QED BY <1>3, <1>4, <1>5, <1>6, <1>8
  <2>2. Page(a + k) = Page(a) /\ (a + k) % PAGING_PAGE_SIZE = (a % PAGING_PAGE_SIZE) + k
    BY <1>1, <2>1, SamePage DEF Page
  <2>3. r \in RegionsOf(a + k, w)
    BY <1>3, <2>1 DEF RegionsOf
  <2>4. Translates(a + k, w)
    BY <1>7, <2>2 DEF Translates
  <2>5. Physical(a + k) = Physical(a) + k
    <3> DEFINE base == layout.pages[Page(a)].frame * PAGING_PAGE_SIZE
               m == a % PAGING_PAGE_SIZE
    <3>1. base \in Int /\ m \in Int
      BY <1>1, <1>7, LayoutFacts
    <3>2. Physical(a + k) = base + (m + k) /\ Physical(a) = base + m
      BY <2>2 DEF Physical
    <3> HIDE DEF base, m
    <3> QED BY <2>1, <3>1, <3>2
  <2> QED BY <2>3, <2>4, <2>5 DEF Granted
<1> QED BY <1>6, <1>8

\* There is no fragment only at a byte that is not granted.
LEMMA NoFragmentFacts ==
  ASSUME NEW a \in Nat, NEW n \in Nat, NEW w \in BOOLEAN
  PROVE  Fragments(a, n, w) = {} <=> ~ Granted(a, w)
  BY DEF Fragments, Granted

-------------------------------------------------------------------------------
Call == [op : {"none", "copy", "validate", "path", "string"},
         at : {"done", "preflight", "copy", "span", "pages", "string"},
         result : {"none", "ok", "EINVARG"}, write : BOOLEAN,
         address : Nat, size : Int, current : Int, remaining : Int, position : Int,
         available : Int]

CopyTypes ==
  /\ layout \in Layouts
  /\ copy \in Call
  /\ copy.at \in {"preflight", "copy"} => copy.op = "copy"
  /\ copy.at \in {"span", "pages"} => copy.op = "validate"
  /\ copy.at = "string" => copy.op \in {"path", "string"}
  /\ DOMAIN user = Frames
  /\ DOMAIN buffer = 0 .. BufferSize - 1

\* The bytes behind current.
Behind == copy.address .. copy.current - 1

\* The loops of a copy and of a validation have come from address to current.
LoopInv ==
  copy.at \in {"preflight", "copy", "span", "pages"} =>
    /\ copy.size \in 1 .. BufferSize
    /\ copy.remaining \in 0 .. copy.size
    /\ copy.current + copy.remaining = copy.address + copy.size
    /\ \A a \in Behind : Granted(a, copy.write)

PassInv ==
  /\ copy.at = "string" => copy.current \in Nat /\ copy.remaining \in Nat
  /\ copy.at \in {"preflight", "copy"} => copy.position = copy.current - copy.address
  /\ copy.at = "copy" => \A a \in Span : Granted(a, copy.write)
  /\ copy.at = "pages" =>
       /\ copy.available \in 0 .. copy.remaining
       /\ \A k \in 0 .. copy.available - 1 : RegionsOf(copy.current + k, copy.write) # {}

\* What the second pass has written.
Written(write) == copy.at = "copy" /\ copy.write = write

MemoryInv ==
  copy.op \in {"copy", "validate"} /\ copy.at # "done" =>
    /\ \A f \in DOMAIN user :
         user[f] = initial.user[f] \/ (Written(TRUE) /\ \E a \in Behind : Physical(a) = f)
    /\ Written(TRUE) => \A a \in Behind : user[Physical(a)] = buffer[a - copy.address]
    /\ \A b \in DOMAIN buffer :
         buffer[b] = IF Written(FALSE) /\ b < copy.position THEN user[Physical(copy.address + b)]
                     ELSE initial.buffer[b]

CopyInv == CopyTypes /\ LoopInv /\ PassInv /\ MemoryInv /\ JustTheGranted /\ AllOrNothing

\* The first state.
LEMMA CopyInitial == CopyInit => CopyInv
<1> SUFFICES ASSUME CopyInit PROVE CopyInv
  OBVIOUS
<1>1. copy = Idle /\ layout \in Layouts
  BY DEF CopyInit
<1>2. DOMAIN user = Frames
  BY DEF CopyInit
<1>3. DOMAIN buffer = 0 .. BufferSize - 1
  BY DEF CopyInit
<1>4. CopyTypes
  BY <1>1, <1>2, <1>3 DEF CopyTypes, Idle, Call
<1> QED BY <1>1, <1>4 DEF CopyInv, LoopInv, PassInv, MemoryInv, JustTheGranted, AllOrNothing, Idle,
                          ready

\* Nothing but the call and the bytes changes, so what is granted stays so.
LEMMA SameLayout ==
  ASSUME layout' = layout
  PROVE  /\ \A a, w : Granted(a, w)' = Granted(a, w) /\ RegionsOf(a, w)' = RegionsOf(a, w)
         /\ \A a : Physical(a)' = Physical(a)
         /\ Frames' = Frames
  BY DEF Granted, RegionsOf, Translates, Physical, Frames

\* A call begins: no byte has been looked at, and one that is refused asked for a byte that
\* is not granted.
LEMMA BeginInv ==
  ASSUME CopyInv, NEW op \in {"copy", "validate", "path", "string"},
         NEW at \in {"preflight", "span", "string"},
         NEW valid \in BOOLEAN, NEW write \in BOOLEAN,
         NEW address \in Address, NEW size \in Int, size <= BufferSize,
         op = "copy" <=> at = "preflight", op = "validate" <=> at = "span",
         op \in {"copy", "validate"} => valid = ValidSpan(address, size) /\ size >= 0,
         valid => size >= 0,
         Begin(op, at, valid, write, address, size)
  PROVE  CopyInv'
<1> USE UserCopyAssumption DEF Address
<1>1. /\ copy' = [Idle EXCEPT !.op = op, !.write = write, !.address = address, !.size = size,
                          !.current = address, !.remaining = size,
                          !.at = IF valid THEN at ELSE "done",
                          !.result = IF valid THEN "none" ELSE "EINVARG"]
      /\ initial' = [user |-> user, buffer |-> buffer]
      /\ layout' = layout /\ user' = user /\ buffer' = buffer
  BY DEF Begin
<1>2. /\ copy'.op = op /\ copy'.write = write /\ copy'.address = address /\ copy'.size = size
      /\ copy'.current = address /\ copy'.remaining = size /\ copy'.position = 0
      /\ copy'.available = 0
      /\ copy'.at = (IF valid THEN at ELSE "done")
      /\ copy'.result = (IF valid THEN "none" ELSE "EINVARG")
  BY <1>1 DEF Idle
<1>3. CopyTypes'
  <2>1. copy' \in Call
    <3>1. copy' = [op |-> op, at |-> IF valid THEN at ELSE "done",
                   result |-> IF valid THEN "none" ELSE "EINVARG", write |-> write,
                   address |-> address, size |-> size, current |-> address, remaining |-> size,
                   position |-> 0, available |-> 0]
      BY <1>1 DEF Idle
    <3>2. address \in Nat
      OBVIOUS
    <3> QED BY <3>1, <3>2 DEF Call
  <2>2. /\ copy'.at \in {"preflight", "copy"} => copy'.op = "copy"
        /\ copy'.at \in {"span", "pages"} => copy'.op = "validate"
        /\ copy'.at = "string" => copy'.op \in {"path", "string"}
    BY <1>2
  <2>3. layout \in Layouts /\ DOMAIN user = Frames /\ DOMAIN buffer = 0 .. BufferSize - 1
    BY DEF CopyInv, CopyTypes
  <2> QED BY <1>1, <2>1, <2>2, <2>3, SameLayout DEF CopyTypes
<1>4. LoopInv'
  BY <1>2 DEF LoopInv, Behind, ValidSpan
<1>5. PassInv'
  BY <1>2 DEF PassInv
<1>6. MemoryInv'
  BY <1>1, <1>2 DEF MemoryInv, Written
<1>7. JustTheGranted'
  <2> SUFFICES ASSUME ready', op \in {"copy", "validate"}, size > 0, \A a \in Span' : Granted(a, write)'
               PROVE  FALSE
    BY <1>2 DEF JustTheGranted, ready
  <2>1. ~ ValidSpan(address, size)
    BY <1>2 DEF ready
  <2>2. Span' = address .. address + size - 1
    BY <1>2 DEF Span
  <2>3. Granted(address, write) /\ Granted(address + size - 1, write)
    BY <1>1, <2>2, SameLayout
  <2>4. address \in 1 .. UINT32_MAX /\ address + size - 1 \in 1 .. UINT32_MAX
    BY <2>3, GrantedIsAddress DEF CopyInv, CopyTypes
  <2> QED BY <2>1, <2>4 DEF ValidSpan
<1>8. AllOrNothing'
  BY <1>1, <1>2 DEF AllOrNothing, ready, Copied
<1> QED BY <1>3, <1>4, <1>5, <1>6, <1>7, <1>8 DEF CopyInv

\* A step that changes only where the call is keeps the types.
LEMMA MovesKeepTypes ==
  ASSUME CopyInv, layout' = layout, DOMAIN user' = DOMAIN user, DOMAIN buffer' = DOMAIN buffer,
         copy' \in Call, copy'.op = copy.op,
         copy'.at \in {"done", copy.at} \/ (copy.at = "preflight" /\ copy'.at = "copy")
           \/ (copy.at = "span" /\ copy'.at = "pages") \/ (copy.at = "pages" /\ copy'.at = "span")
  PROVE  CopyTypes'
<1>1. CopyTypes
  BY DEF CopyInv
<1>2. /\ copy'.at \in {"preflight", "copy"} => copy'.op = "copy"
      /\ copy'.at \in {"span", "pages"} => copy'.op = "validate"
      /\ copy'.at = "string" => copy'.op \in {"path", "string"}
  BY <1>1 DEF CopyTypes
<1> QED BY <1>1, <1>2, SameLayout DEF CopyTypes

\* The fields of a call.
LEMMA Fields ==
  ASSUME CopyInv
  PROVE  /\ copy.at \in {"done", "preflight", "copy", "span", "pages", "string"}
         /\ copy.result \in {"none", "ok", "EINVARG"} /\ copy.write \in BOOLEAN
         /\ copy.address \in Nat /\ copy.size \in Int /\ copy.current \in Int
         /\ copy.remaining \in Int /\ copy.position \in Int /\ copy.available \in Int
  BY DEF CopyInv, CopyTypes, Call

\* The fields that a step which ends the call leaves alone.
LEMMA EndsFacts ==
  ASSUME CopyInv, NEW result \in {"ok", "EINVARG"}, Ends(result)
  PROVE  /\ copy' \in Call
         /\ copy'.op = copy.op /\ copy'.write = copy.write /\ copy'.address = copy.address
         /\ copy'.size = copy.size /\ copy'.at = "done" /\ copy'.result = result
         /\ copy'.position = copy.position
  BY DEF CopyInv, CopyTypes, Call, Ends

\* A call that ends in a failure at a byte that is not granted, before anything was copied.
LEMMA FailureInv ==
  ASSUME CopyInv, copy.at \in {"preflight", "copy", "span", "pages"},
         copy.remaining > 0, ~ Granted(copy.current, copy.write),
         Ends("EINVARG"), layout' = layout, user' = user, buffer' = buffer, initial' = initial
  PROVE  CopyInv'
<1>1. CopyTypes /\ LoopInv /\ PassInv /\ MemoryInv
  BY DEF CopyInv
<1>3. /\ CopyTypes'
      /\ copy'.op = copy.op /\ copy'.write = copy.write /\ copy'.address = copy.address
      /\ copy'.size = copy.size /\ copy'.at = "done" /\ copy'.result = "EINVARG"
  BY EndsFacts, MovesKeepTypes
<1>4. copy.current \in Span
  BY <1>1 DEF CopyTypes, Call, LoopInv, Span
<1>5. copy.at # "copy"
  BY <1>1, <1>4 DEF PassInv
<1>6. Span' = Span
  BY <1>3 DEF Span
<1>7. JustTheGranted'
  BY <1>3, <1>4, <1>6, SameLayout DEF JustTheGranted
<1>8. AllOrNothing'
  BY <1>1, <1>3, <1>5 DEF AllOrNothing, MemoryInv, Written, CopyTypes, Copied
<1> QED BY <1>3, <1>7, <1>8 DEF CopyInv, LoopInv, PassInv, MemoryInv

\* A loop of a copy is over.
LEMMA PassKeeps == CopyInv /\ Pass => CopyInv'
<1> SUFFICES ASSUME CopyInv, Pass PROVE CopyInv'
  OBVIOUS
<1>1. CopyTypes /\ LoopInv /\ PassInv /\ MemoryInv
  BY DEF CopyInv
<1>2. layout' = layout /\ user' = user /\ buffer' = buffer /\ initial' = initial
  BY DEF Pass
<1>3. /\ copy.op = "copy" /\ copy.remaining = 0 /\ copy.current = copy.address + copy.size
      /\ \A a \in Span : Granted(a, copy.write)
      /\ copy.size \in 1 .. BufferSize
      /\ copy.size \in Nat /\ copy.address \in Nat /\ copy.position = copy.size
  BY <1>1 DEF Pass, CopyTypes, Call, LoopInv, PassInv, Span, Behind
<1>4. CASE copy.at = "preflight"
  <2>2. /\ CopyTypes'
        /\ copy'.op = copy.op /\ copy'.write = copy.write /\ copy'.address = copy.address
        /\ copy'.size = copy.size /\ copy'.at = "copy" /\ copy'.current = copy.address
        /\ copy'.remaining = copy.size /\ copy'.position = 0
    <3>1. copy' = [copy EXCEPT !.at = "copy", !.current = copy.address, !.remaining = copy.size,
                               !.position = 0]
      BY <1>4 DEF Pass
    <3>2. /\ copy' \in Call
          /\ copy'.op = copy.op /\ copy'.write = copy.write /\ copy'.address = copy.address
          /\ copy'.size = copy.size /\ copy'.at = "copy" /\ copy'.current = copy.address
          /\ copy'.remaining = copy.size /\ copy'.position = 0
      <4>1. copy \in Call /\ copy.address \in Int /\ copy.size \in Int
        BY <1>1, Fields DEF CopyTypes
      <4>2. copy' = [op |-> copy.op, at |-> "copy", result |-> copy.result, write |-> copy.write,
                     address |-> copy.address, size |-> copy.size, current |-> copy.address,
                     remaining |-> copy.size, position |-> 0, available |-> copy.available]
        BY <3>1, <4>1 DEF Call
      <4> QED BY <4>1, <4>2 DEF Call
    <3> QED BY <1>2, <1>4, <3>2, MovesKeepTypes
  <2>3. Behind' = {}
    BY <1>3, <2>2 DEF Behind
  <2>4. LoopInv'
    BY <1>3, <2>2, <2>3 DEF LoopInv
  <2>5. PassInv'
    BY <1>2, <1>3, <2>2, SameLayout DEF PassInv, Span
  <2>6. MemoryInv'
    <3>1. \A f \in DOMAIN user : user[f] = initial.user[f]
      BY <1>1, <1>3, <1>4 DEF MemoryInv, Written
    <3>2. \A b \in DOMAIN buffer : buffer[b] = initial.buffer[b]
      BY <1>1, <1>3, <1>4 DEF MemoryInv, Written
    <3>3. \A b \in DOMAIN buffer : ~ (b < 0)
      BY <1>1 DEF CopyTypes
    <3> QED BY <1>2, <2>2, <2>3, <3>1, <3>2, <3>3 DEF MemoryInv
  <2> QED BY <2>2, <2>4, <2>5, <2>6 DEF CopyInv, JustTheGranted, AllOrNothing, ready
<1>5. CASE copy.at = "copy"
  <2>2. /\ CopyTypes'
        /\ copy'.op = copy.op /\ copy'.write = copy.write /\ copy'.address = copy.address
        /\ copy'.size = copy.size /\ copy'.at = "done" /\ copy'.result = "ok"
    <3>1. Ends("ok")
      BY <1>5 DEF Pass
    <3> QED BY <1>2, <3>1, EndsFacts, MovesKeepTypes
  <2>3. Span' = Span /\ Behind = Span
    BY <1>3, <2>2 DEF Span, Behind
  <2>4. JustTheGranted'
    BY <1>2, <1>3, <2>2, <2>3, SameLayout DEF JustTheGranted
  <2>5. AllOrNothing'
    <3>1. /\ Written(TRUE) <=> copy.write = TRUE
          /\ Written(FALSE) <=> copy.write = FALSE
          /\ Copied(TRUE)' <=> copy.write = TRUE
          /\ Copied(FALSE)' <=> copy.write = FALSE
      BY <1>3, <1>5, <2>2 DEF Written, Copied
    <3>2. \A f \in DOMAIN user : user[f] = initial.user[f] \/ (Written(TRUE) /\ \E a \in Span : Physical(a) = f)
      BY <1>1, <1>3, <1>5, <2>3 DEF MemoryInv
    <3>3. Written(TRUE) => \A a \in Span : user[Physical(a)] = buffer[a - copy.address]
      BY <1>1, <1>3, <1>5, <2>3 DEF MemoryInv
    <3>4. \A b \in DOMAIN buffer :
            buffer[b] = IF Written(FALSE) /\ b < copy.size THEN user[Physical(copy.address + b)]
                        ELSE initial.buffer[b]
      BY <1>1, <1>3, <1>5 DEF MemoryInv
    <3>5. \A a : Physical(a)' = Physical(a)
      BY <1>2, SameLayout
    <3>6. \A f \in DOMAIN user' :
            user'[f] = initial'.user[f] \/ (Copied(TRUE)' /\ \E a \in Span' : Physical(a)' = f)
      BY <1>2, <2>3, <3>1, <3>2, <3>5
    <3>7. Copied(TRUE)' => \A a \in Span' : user'[Physical(a)'] = buffer'[a - copy'.address]
      BY <1>2, <2>2, <2>3, <3>1, <3>3, <3>5
    <3>8. \A b \in DOMAIN buffer' :
            buffer'[b] = IF Copied(FALSE)' /\ b < copy'.size THEN user'[Physical(copy.address + b)']
                         ELSE initial'.buffer[b]
      BY <1>2, <2>2, <3>1, <3>4, <3>5
    <3> QED BY <3>6, <3>7, <3>8 DEF AllOrNothing
  <2> QED BY <2>2, <2>4, <2>5 DEF CopyInv, LoopInv, PassInv, MemoryInv
<1> QED BY <1>4, <1>5 DEF Pass

\* There is no fragment.
LEMMA NoFragmentKeeps == CopyInv /\ NoFragment => CopyInv'
<1> SUFFICES ASSUME CopyInv, NoFragment PROVE CopyInv'
  OBVIOUS
<1>1. /\ copy.at \in {"preflight", "copy", "span", "pages"} /\ copy.remaining > 0
      /\ Fragments(copy.current, copy.remaining, copy.write) = {}
      /\ Ends("EINVARG") /\ layout' = layout /\ user' = user /\ buffer' = buffer
      /\ initial' = initial
  BY DEF NoFragment
<1>2. copy.current \in Nat /\ copy.remaining \in Nat
  BY <1>1, Fields DEF CopyInv, LoopInv
<1>3. ~ Granted(copy.current, copy.write)
  BY <1>1, <1>2, Fields, NoFragmentFacts
<1> QED BY <1>1, <1>3, FailureInv

\* A fragment is looked at, or copied.
LEMMA FragmentKeeps == CopyInv /\ Fragment => CopyInv'
<1> SUFFICES ASSUME CopyInv, Fragment PROVE CopyInv'
  OBVIOUS
<1>1. CopyTypes /\ LoopInv /\ PassInv /\ MemoryInv
  BY DEF CopyInv
<1>2. /\ copy.at \in {"preflight", "copy"} /\ copy.remaining > 0
      /\ layout' = layout /\ initial' = initial /\ copy.op = "copy"
  BY <1>1 DEF Fragment, CopyTypes
<1>3. PICK n \in Fragments(copy.current, copy.remaining, copy.write) :
        /\ Advance(n)
        /\ IF copy.at = "copy" /\ copy.write THEN ToUser(n) ELSE UNCHANGED user
        /\ IF copy.at = "copy" /\ ~ copy.write THEN FromUser(n) ELSE UNCHANGED buffer
  BY DEF Fragment
<1>4. /\ copy.address \in Nat /\ copy.size \in 1 .. BufferSize /\ copy.remaining \in Nat \ {0}
      /\ copy.current \in Nat /\ copy.position \in Nat /\ copy.write \in BOOLEAN
      /\ copy.current = copy.address + copy.position
      /\ copy.position + copy.remaining = copy.size
      /\ copy.available \in Int
  BY <1>1, <1>2, Fields DEF LoopInv, PassInv
<1>5. /\ n \in 1 .. copy.remaining
      /\ \A k \in 0 .. n - 1 : /\ Granted(copy.current + k, copy.write)
                               /\ Physical(copy.current + k) = Physical(copy.current) + k
  BY <1>1, <1>3, <1>4, FragmentFacts, SMTT(30) DEF CopyTypes
<1>6. /\ copy' \in Call
      /\ copy'.op = copy.op /\ copy'.write = copy.write /\ copy'.address = copy.address
      /\ copy'.size = copy.size /\ copy'.at = copy.at /\ copy'.current = copy.current + n
      /\ copy'.remaining = copy.remaining - n /\ copy'.position = copy.position + n
      /\ copy'.available = copy.available
  <2>1. copy \in Call /\ copy.current + n \in Int /\ copy.remaining - n \in Int /\ copy.position + n \in Int
    <3>1. copy \in Call
      BY <1>1 DEF CopyTypes
    <3>2. n \in Int /\ copy.current \in Int /\ copy.remaining \in Int /\ copy.position \in Int
      BY <1>4, <1>5
    <3> QED BY <3>1, <3>2
  <2>2. copy' = [op |-> copy.op, at |-> copy.at, result |-> copy.result, write |-> copy.write,
                 address |-> copy.address, size |-> copy.size, current |-> copy.current + n,
                 remaining |-> copy.remaining - n, position |-> copy.position + n,
                 available |-> copy.available]
    BY <1>3, <2>1 DEF Call, Advance
  <2> QED BY <2>1, <2>2 DEF Call
<1>7. DOMAIN user' = DOMAIN user /\ DOMAIN buffer' = DOMAIN buffer
  BY <1>3 DEF ToUser, FromUser
<1>8. CopyTypes'
  BY <1>2, <1>6, <1>7, MovesKeepTypes
<1>9. ASSUME NEW a \in Behind' PROVE a \in Nat /\ (a \in Behind \/ (a - copy.current) \in 0 .. n - 1)
  BY <1>4, <1>5, <1>6 DEF Behind
<1>10. ASSUME NEW a \in Behind' PROVE Granted(a, copy.write)
  <2>1. CASE a \in Behind
    BY <1>1, <1>2, <2>1 DEF LoopInv
  <2>2. CASE (a - copy.current) \in 0 .. n - 1
    <3>1. copy.current + (a - copy.current) = a
      BY <1>4, <1>9
    <3> QED BY <1>5, <2>2, <3>1
  <2> QED BY <1>9, <2>1, <2>2
<1>11. LoopInv'
  <2>1. \A a \in Behind' : Granted(a, copy.write)'
    BY <1>2, <1>6, <1>10, SameLayout
  <2>2. copy'.remaining \in 0 .. copy'.size /\ copy'.current + copy'.remaining = copy'.address + copy'.size
    BY <1>4, <1>5, <1>6
  <2> QED BY <1>4, <1>6, <2>1, <2>2 DEF LoopInv
<1>12. PassInv'
  <2>1. copy'.position = copy'.current - copy'.address
    BY <1>4, <1>5, <1>6
  <2>2. Span' = Span
    BY <1>6 DEF Span
  <2>3. copy.at = "copy" => \A a \in Span' : Granted(a, copy.write)'
    BY <1>1, <1>2, <1>6, <2>2, SameLayout DEF PassInv
  <2> QED BY <1>2, <1>6, <2>1, <2>3 DEF PassInv
<1>13. Behind \subseteq Behind'
  BY <1>4, <1>5, <1>6 DEF Behind
<1>14. MemoryInv'
  <2>1. CASE copy.at = "preflight"
    <3>1. user' = user /\ buffer' = buffer
      BY <1>3, <2>1
    <3>2. ~ Written(TRUE) /\ ~ Written(FALSE) /\ ~ Written(TRUE)' /\ ~ Written(FALSE)'
      BY <1>6, <2>1 DEF Written
    <3> QED BY <1>1, <1>2, <1>6, <3>1, <3>2, <2>1 DEF MemoryInv
  <2>2. CASE copy.at = "copy" /\ copy.write = TRUE
    <3>1. ToUser(n) /\ buffer' = buffer
      BY <1>3, <2>2
    <3>2. Written(TRUE) /\ ~ Written(FALSE) /\ Written(TRUE)' /\ ~ Written(FALSE)'
      BY <1>6, <2>2 DEF Written
    <3>3. \A a : Physical(a)' = Physical(a)
      BY <1>2, SameLayout
    <3>4. Physical(copy.current) \in Int
      <4>1. 0 \in 0 .. n - 1 /\ copy.current + 0 = copy.current
        BY <1>4, <1>5
      <4>2. Granted(copy.current, copy.write)
        BY <1>5, <4>1
      <4>3. PAGING_PAGE_SIZE \in Nat \ {0} /\ copy.current % PAGING_PAGE_SIZE \in Int
        BY <1>4, UserCopyAssumption, Division
      <4>4. layout.pages[Page(copy.current)].frame \in Nat
        BY <1>1, <4>2, LayoutFacts DEF Granted, Translates, CopyTypes
      <4> QED BY <4>3, <4>4 DEF Physical
    <3>5. ASSUME NEW f \in DOMAIN user', user'[f] # initial'.user[f]
          PROVE  \E a \in Behind' : Physical(a)' = f
      <4>1. CASE user'[f] = user[f]
        <5>1. \E a \in Behind : Physical(a) = f
          BY <1>1, <1>2, <1>7, <2>2, <3>5, <4>1 DEF MemoryInv
        <5> QED BY <1>13, <3>3, <5>1
      <4>2. CASE user'[f] # user[f]
        <5> DEFINE k == f - Physical(copy.current)
        <5>1. k >= 0 /\ k < n
          BY <1>7, <3>1, <4>2 DEF ToUser
        <5>2. f \in Int
          <6>1. f \in Frames
            BY <1>1, <1>7 DEF CopyTypes
          <6>2. PICK p \in DOMAIN layout.pages :
                  f \in layout.pages[p].frame * PAGING_PAGE_SIZE
                     .. layout.pages[p].frame * PAGING_PAGE_SIZE + PAGING_PAGE_SIZE - 1
            BY <6>1 DEF Frames
          <6> QED BY <6>2
        <5>3. k \in 0 .. n - 1 /\ Physical(copy.current) + k = f
          BY <1>5, <3>4, <5>1, <5>2
        <5> HIDE DEF k
        <5>4. Physical(copy.current + k) = f
          BY <1>5, <5>3
        <5>5. copy.current + k \in Behind'
          BY <1>4, <1>5, <1>6, <5>3 DEF Behind
        <5> QED BY <3>3, <5>4, <5>5
      <4> QED BY <4>1, <4>2
    <3>6. ASSUME NEW a \in Behind' PROVE user'[Physical(a)'] = buffer'[a - copy'.address]
      <4>1. Physical(a) \in DOMAIN user
        BY <1>1, <1>4, <1>9, <1>10, PhysicalInFrames DEF CopyTypes
      <4> DEFINE k == a - copy.current
                 i == Physical(a) - Physical(copy.current)
      <4>2. user'[Physical(a)] = IF i >= 0 /\ i < n THEN buffer[copy.position + i] ELSE user[Physical(a)]
        BY <3>1, <4>1 DEF ToUser
      <4>3. CASE k \in 0 .. n - 1
        <5>1. copy.current + k = a
          BY <1>4, <1>9
        <5>2. Physical(a) = Physical(copy.current) + k
          BY <1>5, <4>3, <5>1
        <5>3. i = k
          BY <3>4, <4>3, <5>2
        <5>4. copy.position + k = a - copy.address
          BY <1>4, <1>9
        <5> HIDE DEF k, i
        <5>5. user'[Physical(a)] = buffer[a - copy.address]
          <6>1. k >= 0 /\ k < n
            BY <1>5, <4>3
          <6> QED BY <4>2, <5>3, <5>4, <6>1
        <5> QED BY <1>6, <3>1, <3>3, <5>5
      <4>4. CASE k \notin 0 .. n - 1
        <5>1. a \in Behind
          BY <1>9, <4>4
        <5>2. user[Physical(a)] = buffer[a - copy.address]
          BY <1>1, <1>2, <2>2, <3>2, <5>1 DEF MemoryInv
        <5>3. ASSUME i >= 0, i < n PROVE FALSE
          <6>1. i \in 0 .. n - 1 /\ Physical(a) = Physical(copy.current) + i
            <7>1. Physical(a) \in Int
              <8>1. Granted(a, copy.write)
                BY <1>10
              <8>2. PAGING_PAGE_SIZE \in Nat \ {0} /\ a % PAGING_PAGE_SIZE \in Int
                BY <1>9, UserCopyAssumption, Division
              <8>3. layout.pages[Page(a)].frame \in Nat
                BY <1>1, <8>1, LayoutFacts DEF Granted, Translates, CopyTypes
              <8> QED BY <8>2, <8>3 DEF Physical
            <7> QED BY <1>5, <3>4, <5>3, <7>1
          <6>2. Physical(a) = Physical(copy.current + i) /\ Granted(copy.current + i, copy.write)
            BY <1>5, <6>1
          <6>3. copy.current + i \in Nat
            BY <1>4, <6>1
          <6> HIDE DEF i
          <6>4. a = copy.current + i
            BY <1>1, <1>4, <1>9, <1>10, <6>2, <6>3, PhysicalInjective DEF CopyTypes
          <6> QED BY <1>4, <4>4, <6>1, <6>4
        <5> QED BY <1>6, <3>1, <3>3, <4>2, <5>2, <5>3
      <4> QED BY <4>3, <4>4
    <3>7. \A b \in DOMAIN buffer' : buffer'[b] = initial'.buffer[b]
      BY <1>1, <1>2, <2>2, <3>1, <3>2 DEF MemoryInv
    <3> QED BY <3>2, <3>5, <3>6, <3>7 DEF MemoryInv
  <2>3. CASE copy.at = "copy" /\ copy.write = FALSE
    <3>1. FromUser(n) /\ user' = user
      BY <1>3, <2>3
    <3>2. ~ Written(TRUE) /\ Written(FALSE) /\ ~ Written(TRUE)' /\ Written(FALSE)'
      BY <1>6, <2>3 DEF Written
    <3>3. \A a : Physical(a)' = Physical(a)
      BY <1>2, SameLayout
    <3>4. \A f \in DOMAIN user' : user'[f] = initial'.user[f]
      BY <1>1, <1>2, <2>3, <3>1, <3>2 DEF MemoryInv
    <3>5. ASSUME NEW b \in DOMAIN buffer'
          PROVE  buffer'[b] = IF b < copy.position + n THEN user[Physical(copy.address + b)]
                              ELSE initial.buffer[b]
      <4>1. b \in DOMAIN buffer /\ b \in Nat
        BY <1>1, <1>7 DEF CopyTypes
      <4> DEFINE i == b - copy.position
      <4>2. buffer'[b] = IF i >= 0 /\ i < n THEN user[Physical(copy.current) + i] ELSE buffer[b]
        BY <3>1, <4>1 DEF FromUser
      <4>3. buffer[b] = IF b < copy.position THEN user[Physical(copy.address + b)] ELSE initial.buffer[b]
        BY <1>1, <1>2, <2>3, <3>2, <4>1 DEF MemoryInv
      <4>4. CASE i \in 0 .. n - 1
        <5>1. Physical(copy.current + i) = Physical(copy.current) + i
          BY <1>5, <4>4
        <5>2. copy.current + i = copy.address + b /\ b < copy.position + n
          BY <1>4, <1>5, <4>1, <4>4
        <5>3. i >= 0 /\ i < n
          BY <1>5, <4>4
        <5> HIDE DEF i
        <5> QED BY <4>2, <5>1, <5>2, <5>3
      <4>5. CASE i \notin 0 .. n - 1
        <5>1. ~ (i >= 0 /\ i < n) /\ (b < copy.position + n <=> b < copy.position)
          BY <1>4, <1>5, <4>1, <4>5
        <5> QED BY <4>2, <4>3, <5>1
      <4> QED BY <4>4, <4>5
    <3>6. \A b \in DOMAIN buffer' :
            buffer'[b] = IF b < copy'.position THEN user'[Physical(copy.address + b)'] ELSE initial'.buffer[b]
      BY <1>2, <1>6, <3>1, <3>3, <3>5
    <3> QED BY <3>2, <3>4, <3>6 DEF MemoryInv
  <2> QED BY <1>2, <1>4, <2>1, <2>2, <2>3
<1> QED BY <1>2, <1>6, <1>8, <1>11, <1>12, <1>14 DEF CopyInv, JustTheGranted, AllOrNothing, ready

\* The outer loop of a validation.
LEMMA ValidateSpanKeeps == CopyInv /\ ValidateSpan => CopyInv'
<1> SUFFICES ASSUME CopyInv, ValidateSpan PROVE CopyInv'
  OBVIOUS
<1>1. CopyTypes /\ LoopInv /\ PassInv /\ MemoryInv
  BY DEF CopyInv
<1>2. /\ copy.at = "span" /\ layout' = layout /\ user' = user /\ buffer' = buffer
      /\ initial' = initial /\ copy.op = "validate"
  BY <1>1 DEF ValidateSpan, CopyTypes
<1>3. /\ copy.address \in Nat /\ copy.size \in 1 .. BufferSize /\ copy.remaining \in Nat
      /\ copy.current \in Nat /\ copy.write \in BOOLEAN
      /\ copy.current + copy.remaining = copy.address + copy.size
  BY <1>1, <1>2, Fields DEF LoopInv
<1>4. /\ \A f \in DOMAIN user : user[f] = initial.user[f]
      /\ \A b \in DOMAIN buffer : buffer[b] = initial.buffer[b]
  BY <1>1, <1>2 DEF MemoryInv, Written
<1>5. CASE copy.remaining = 0 /\ Ends("ok")
  <2>1. /\ CopyTypes'
        /\ copy'.op = copy.op /\ copy'.write = copy.write /\ copy'.address = copy.address
        /\ copy'.size = copy.size /\ copy'.at = "done" /\ copy'.result = "ok"
    BY <1>2, <1>5, EndsFacts, MovesKeepTypes
  <2>2. Span' = Behind
    BY <1>3, <1>5, <2>1 DEF Span, Behind
  <2>3. JustTheGranted'
    BY <1>1, <1>2, <2>1, <2>2, SameLayout DEF JustTheGranted, LoopInv
  <2>4. AllOrNothing'
    BY <1>2, <1>4, <2>1 DEF AllOrNothing, Copied
  <2> QED BY <2>1, <2>3, <2>4 DEF CopyInv, LoopInv, PassInv, MemoryInv
<1>6. CASE copy.remaining > 0 /\ RegionsOf(copy.current, copy.write) = {} /\ Ends("EINVARG")
  <2>1. ~ Granted(copy.current, copy.write)
    BY <1>6 DEF Granted
  <2> QED BY <1>2, <1>6, <2>1, FailureInv
<1>7. ASSUME copy.remaining > 0, NEW r \in RegionsOf(copy.current, copy.write),
             copy' = [copy EXCEPT !.at = "pages",
                        !.available = Least(copy.remaining, r.size - (copy.current - r.start))]
      PROVE  CopyInv'
  <2> DEFINE n == Least(copy.remaining, r.size - (copy.current - r.start))
  <2>1. /\ r \in layout.regions /\ copy.current # 0 /\ copy.current >= r.start
        /\ copy.current - r.start < r.size /\ (copy.write => r.write)
    BY <1>7 DEF RegionsOf
  <2>2. r.start \in Nat /\ r.size \in Nat
    BY <1>1, <2>1, LayoutFacts DEF CopyTypes
  <2>3. n \in 0 .. copy.remaining /\ n <= r.size - (copy.current - r.start)
    BY <1>3, <2>1, <2>2 DEF Least
  <2> HIDE DEF n
  <2>4. copy \in Call /\ n \in Int
    BY <1>1, <1>3, <2>3 DEF CopyTypes
  <2>5. copy' = [op |-> copy.op, at |-> "pages", result |-> copy.result, write |-> copy.write,
                 address |-> copy.address, size |-> copy.size, current |-> copy.current,
                 remaining |-> copy.remaining, position |-> copy.position, available |-> n]
    BY <1>7, <2>4 DEF Call, n
  <2>6. copy' \in Call
    BY <2>4, <2>5 DEF Call
  <2>7. CopyTypes'
    BY <1>2, <2>5, <2>6, MovesKeepTypes
  <2>8. Behind' = Behind
    BY <2>5 DEF Behind
  <2>9. LoopInv'
    BY <1>1, <1>2, <2>5, <2>8, SameLayout DEF LoopInv
  <2>10. ASSUME NEW k \in 0 .. n - 1 PROVE RegionsOf(copy.current + k, copy.write) # {}
    <3>1. /\ copy.current + k # 0 /\ copy.current + k >= r.start
          /\ (copy.current + k) - r.start < r.size
      BY <1>3, <2>1, <2>2, <2>3
    <3> QED BY <2>1, <3>1 DEF RegionsOf
  <2>11. PassInv'
    BY <1>2, <2>3, <2>5, <2>10, SameLayout DEF PassInv
  <2>12. MemoryInv'
    BY <1>2, <1>4, <2>5 DEF MemoryInv, Written
  <2> QED BY <2>5, <2>7, <2>9, <2>11, <2>12 DEF CopyInv, JustTheGranted, AllOrNothing, ready
<1> QED BY <1>5, <1>6, <1>7 DEF ValidateSpan

\* The inner loop of a validation.
LEMMA ValidatePageKeeps == CopyInv /\ ValidatePage => CopyInv'
<1> SUFFICES ASSUME CopyInv, ValidatePage PROVE CopyInv'
  OBVIOUS
<1>1. CopyTypes /\ LoopInv /\ PassInv /\ MemoryInv
  BY DEF CopyInv
<1>2. /\ copy.at = "pages" /\ layout' = layout /\ user' = user /\ buffer' = buffer
      /\ initial' = initial /\ copy.op = "validate"
  BY <1>1 DEF ValidatePage, CopyTypes
<1>3. /\ copy.address \in Nat /\ copy.size \in 1 .. BufferSize /\ copy.remaining \in Nat
      /\ copy.remaining <= copy.size
      /\ copy.current \in Nat /\ copy.write \in BOOLEAN /\ copy.available \in 0 .. copy.remaining
      /\ copy.current + copy.remaining = copy.address + copy.size
      /\ copy.current >= copy.address
  BY <1>1, <1>2, Fields DEF LoopInv, PassInv
<1>4. /\ \A f \in DOMAIN user : user[f] = initial.user[f]
      /\ \A b \in DOMAIN buffer : buffer[b] = initial.buffer[b]
  BY <1>1, <1>2 DEF MemoryInv, Written
<1>5. \A k \in 0 .. copy.available - 1 : RegionsOf(copy.current + k, copy.write) # {}
  BY <1>1, <1>2 DEF PassInv
<1>6. CASE copy.available = 0 /\ copy' = [copy EXCEPT !.at = "span"]
  <2>1. copy' \in Call
    BY <1>1, <1>6 DEF CopyTypes, Call
  <2>2. /\ copy'.op = copy.op /\ copy'.write = copy.write /\ copy'.address = copy.address
        /\ copy'.size = copy.size /\ copy'.at = "span" /\ copy'.current = copy.current
        /\ copy'.remaining = copy.remaining
    BY <1>1, <1>6 DEF CopyTypes, Call
  <2>3. CopyTypes'
    BY <1>2, <2>1, <2>2, MovesKeepTypes
  <2>4. Behind' = Behind
    BY <2>2 DEF Behind
  <2>5. LoopInv'
    BY <1>1, <1>2, <2>2, <2>4, SameLayout DEF LoopInv
  <2>6. MemoryInv'
    BY <1>2, <1>4, <2>2 DEF MemoryInv, Written
  <2> QED BY <2>2, <2>3, <2>5, <2>6 DEF CopyInv, PassInv, JustTheGranted, AllOrNothing, ready
<1>7. CASE copy.available > 0 /\ ~ Translates(copy.current, copy.write) /\ Ends("EINVARG")
  <2>1. ~ Granted(copy.current, copy.write)
    BY <1>7 DEF Granted
  <2>2. copy.remaining > 0
    BY <1>3, <1>7
  <2> QED BY <1>2, <1>7, <2>1, <2>2, FailureInv
<1>8. CASE /\ copy.available > 0 /\ Translates(copy.current, copy.write)
           /\ LET fragment == Least(copy.available, PageRemaining(copy.current))
              IN  copy' = [copy EXCEPT !.current = @ + fragment, !.remaining = @ - fragment,
                                       !.available = @ - fragment]
  <2> DEFINE n == Least(copy.available, PageRemaining(copy.current))
             rest == PAGING_PAGE_SIZE - (copy.current % PAGING_PAGE_SIZE)
  <2>1. PAGING_PAGE_SIZE \in Nat \ {0} /\ copy.current % PAGING_PAGE_SIZE \in 0 .. PAGING_PAGE_SIZE - 1
    BY <1>3, UserCopyAssumption, Division
  <2>2. rest \in Nat \ {0} /\ PageRemaining(copy.current) = rest
    BY <2>1 DEF PageRemaining
  <2>3. n \in 1 .. copy.available /\ n <= rest
    <3> HIDE DEF rest
    <3> QED BY <1>3, <1>8, <2>2 DEF Least
  <2>4. copy' = [copy EXCEPT !.current = copy.current + n, !.remaining = copy.remaining - n,
                             !.available = copy.available - n]
    BY <1>8
  <2> HIDE DEF n
  <2>5. copy \in Call /\ copy.current + n \in Int /\ copy.remaining - n \in Int
        /\ copy.available - n \in Int
    <3>1. copy \in Call
      BY <1>1 DEF CopyTypes
    <3>2. n \in Int /\ copy.current \in Int /\ copy.remaining \in Int /\ copy.available \in Int
      BY <1>3, <2>3
    <3> QED BY <3>1, <3>2
  <2>6. copy' = [op |-> copy.op, at |-> copy.at, result |-> copy.result, write |-> copy.write,
                 address |-> copy.address, size |-> copy.size, current |-> copy.current + n,
                 remaining |-> copy.remaining - n, position |-> copy.position,
                 available |-> copy.available - n]
    BY <2>4, <2>5 DEF Call
  <2>7. copy' \in Call
    BY <2>5, <2>6 DEF Call
  <2>8. CopyTypes'
    BY <1>2, <2>6, <2>7, MovesKeepTypes
  <2>9. ASSUME NEW k \in 0 .. n - 1 PROVE Granted(copy.current + k, copy.write)
    <3>1. k \in Nat /\ k < rest /\ k \in 0 .. copy.available - 1
      <4> HIDE DEF rest
      <4> QED BY <1>3, <2>2, <2>3
    <3>2. Page(copy.current + k) = Page(copy.current)
      BY <1>3, <2>1, <3>1, SamePage DEF Page
    <3>3. Translates(copy.current + k, copy.write)
      BY <1>8, <3>2 DEF Translates
    <3> QED BY <1>5, <3>1, <3>3 DEF Granted
  <2>10. ASSUME NEW a \in Behind' PROVE Granted(a, copy.write)
    <3>1. a \in Int /\ (a \in Behind \/ (a - copy.current) \in 0 .. n - 1)
      BY <1>3, <2>3, <2>6 DEF Behind
    <3>2. CASE a \in Behind
      BY <1>1, <1>2, <3>2 DEF LoopInv
    <3>3. CASE (a - copy.current) \in 0 .. n - 1
      <4>1. copy.current + (a - copy.current) = a
        BY <1>3, <3>1
      <4> QED BY <2>9, <3>3, <4>1
    <3> QED BY <3>1, <3>2, <3>3
  <2>11. LoopInv'
    <3>1. \A a \in Behind' : Granted(a, copy.write)'
      BY <1>2, <2>6, <2>10, SameLayout
    <3>2. /\ copy'.remaining \in 0 .. copy'.size
          /\ copy'.current + copy'.remaining = copy'.address + copy'.size
      BY <1>3, <2>3, <2>6
    <3> QED BY <1>3, <2>6, <3>1, <3>2 DEF LoopInv
  <2>12. PassInv'
    <3>1. copy'.available \in 0 .. copy'.remaining
      BY <1>3, <2>3, <2>6
    <3>2. ASSUME NEW k \in 0 .. copy'.available - 1
          PROVE  RegionsOf(copy'.current + k, copy.write) # {}
      <4>1. n + k \in 0 .. copy.available - 1 /\ copy'.current + k = copy.current + (n + k)
        BY <1>3, <2>3, <2>6
      <4> QED BY <1>5, <4>1
    <3>3. \A k \in 0 .. copy'.available - 1 : RegionsOf(copy.current + k, copy.write)' # {}
      BY <1>2, <2>6, <3>2, SameLayout
    <3> QED BY <1>2, <2>6, <3>1, <3>3 DEF PassInv
  <2>13. MemoryInv'
    BY <1>2, <1>4, <2>6 DEF MemoryInv, Written
  <2> QED BY <1>2, <2>6, <2>8, <2>11, <2>12, <2>13 DEF CopyInv, JustTheGranted, AllOrNothing, ready
<1> QED BY <1>6, <1>7, <1>8 DEF ValidatePage

\* A step of a string's copy: the properties are not about it.
LEMMA StringStep ==
  ASSUME CopyInv, copy.at = "string", layout' = layout, user' = user,
         DOMAIN buffer' = DOMAIN buffer, copy' \in Call, copy'.op = copy.op,
         copy'.at \in {"done", "string"},
         copy'.at = "string" => copy'.current \in Nat /\ copy'.remaining \in Nat
  PROVE  CopyInv'
<1>1. CopyTypes'
  BY MovesKeepTypes
<1>2. copy'.op \in {"path", "string"}
  BY DEF CopyInv, CopyTypes
<1> QED BY <1>1, <1>2 DEF CopyInv, LoopInv, PassInv, MemoryInv, JustTheGranted, AllOrNothing

\* A string's copy ends for want of room or of a fragment.
LEMMA StringEndsKeeps == CopyInv /\ StringEnds => CopyInv'
<1> SUFFICES ASSUME CopyInv, StringEnds PROVE CopyInv'
  OBVIOUS
<1>1. /\ copy.at = "string" /\ layout' = layout /\ user' = user
      /\ DOMAIN buffer' = DOMAIN buffer
      /\ Ends("ok") \/ Ends("EINVARG")
  BY DEF StringEnds, Terminate
<1>2. copy' \in Call /\ copy'.op = copy.op /\ copy'.at = "done"
  BY <1>1, EndsFacts
<1> QED BY <1>1, <1>2, StringStep

\* A fragment of a string is copied.
LEMMA StringFragmentKeeps == CopyInv /\ StringFragment => CopyInv'
<1> SUFFICES ASSUME CopyInv, StringFragment PROVE CopyInv'
  OBVIOUS
<1>1. copy.at = "string" /\ copy.remaining > 0 /\ layout' = layout /\ user' = user
  BY DEF StringFragment
<1>2. /\ copy.current \in Nat /\ copy.remaining \in Nat \ {0} /\ layout \in Layouts
      /\ copy.position \in Int
  BY <1>1, Fields DEF CopyInv, PassInv, CopyTypes
<1>3. PICK n \in Fragments(copy.current, copy.remaining, FALSE) :
        \/ \E k : FromUser(k + 1) /\ Ends("ok")
        \/ AfterFragment(n)
  BY DEF StringFragment
<1>4. n \in 1 .. copy.remaining
  BY <1>2, <1>3, FragmentFacts
<1>5. CASE \E k : FromUser(k + 1) /\ Ends("ok")
  <2>1. DOMAIN buffer' = DOMAIN buffer /\ Ends("ok")
    BY <1>5 DEF FromUser
  <2> QED BY <1>1, <2>1, EndsFacts, StringStep
<1>6. CASE AfterFragment(n) /\ n > UINT32_MAX - copy.current
  <2>1. DOMAIN buffer' = DOMAIN buffer /\ (Ends("ok") \/ Ends("EINVARG"))
    BY <1>6 DEF FromUser, AfterFragment
  <2> QED BY <1>1, <2>1, EndsFacts, StringStep
<1>7. CASE Advance(n) /\ FromUser(n)
  <2>1. DOMAIN buffer' = DOMAIN buffer
    BY <1>7 DEF FromUser
  <2>2. copy \in Call /\ copy.current + n \in Nat /\ copy.remaining - n \in Nat
        /\ copy.position + n \in Int
    <3>1. copy \in Call
      BY DEF CopyInv, CopyTypes
    <3> QED BY <1>2, <1>4, <3>1
  <2>3. copy' = [op |-> copy.op, at |-> copy.at, result |-> copy.result, write |-> copy.write,
                 address |-> copy.address, size |-> copy.size, current |-> copy.current + n,
                 remaining |-> copy.remaining - n, position |-> copy.position + n,
                 available |-> copy.available]
    BY <1>7, <2>2 DEF Call, Advance
  <2>4. /\ copy' \in Call /\ copy'.op = copy.op /\ copy'.at = copy.at
        /\ copy'.current \in Nat /\ copy'.remaining \in Nat
    BY <2>2, <2>3 DEF Call
  <2> QED BY <1>1, <2>1, <2>4, StringStep
<1> QED BY <1>3, <1>5, <1>6, <1>7 DEF AfterFragment

\* A call begins.
LEMMA CallsKeep ==
  ASSUME CopyInv, NEW address \in Address, NEW size \in 0 .. BufferSize,
         \/ \E write \in BOOLEAN : \/ task_copy_user(write, address, size)
                                   \/ task_validate_user_span(write, address, size)
         \/ task_copy_path_from_user(address, size)
         \/ copy_string_from_task(address, size)
  PROVE  CopyInv'
<1>1. BufferSize \in Nat /\ size \in Nat /\ size <= BufferSize /\ address \in Nat
  BY UserCopyAssumption DEF Address
<1>2. ASSUME NEW write \in BOOLEAN, task_copy_user(write, address, size) PROVE CopyInv'
  <2>1. Begin("copy", "preflight", ValidSpan(address, size), write, address, size)
    BY <1>2 DEF task_copy_user
  <2>2. ValidSpan(address, size) \in BOOLEAN
    BY DEF ValidSpan
  <2> QED BY <1>1, <2>1, <2>2, BeginInv
<1>3. ASSUME NEW write \in BOOLEAN, task_validate_user_span(write, address, size) PROVE CopyInv'
  <2>1. Begin("validate", "span", ValidSpan(address, size), write, address, size)
    BY <1>3 DEF task_validate_user_span
  <2>2. ValidSpan(address, size) \in BOOLEAN
    BY DEF ValidSpan
  <2> QED BY <1>1, <2>1, <2>2, BeginInv
<1>4. CASE task_copy_path_from_user(address, size)
  <2> DEFINE valid == address # 0 /\ size # 0
  <2>1. Begin("path", "string", valid, FALSE, address, size)
    BY <1>4 DEF task_copy_path_from_user
  <2>2. valid \in BOOLEAN /\ size \in Int /\ size <= BufferSize /\ size >= 0
    BY <1>1
  <2> HIDE DEF valid
  <2> QED BY <2>1, <2>2, BeginInv
<1>5. CASE copy_string_from_task(address, size)
  <2> DEFINE valid == address # 0 /\ size > 0
             room == size - 1
  <2>1. Begin("string", "string", valid, FALSE, address, room)
    BY <1>5 DEF copy_string_from_task
  <2>2. valid \in BOOLEAN /\ room \in Int /\ room <= BufferSize /\ (valid => room >= 0)
    BY <1>1
  <2> HIDE DEF valid, room
  <2> QED BY <2>1, <2>2, BeginInv
<1> QED BY <1>2, <1>3, <1>4, <1>5

\* Every step keeps the invariant.
LEMMA CopyStep == CopyInv /\ [CopyNext]_copyVars => CopyInv'
<1> SUFFICES ASSUME CopyInv, [CopyNext]_copyVars PROVE CopyInv'
  OBVIOUS
<1>1. CASE UNCHANGED copyVars
  <2>1. layout' = layout /\ user' = user /\ buffer' = buffer /\ copy' = copy /\ initial' = initial
    BY <1>1 DEF copyVars
  <2>2. Behind' = Behind /\ Span' = Span
    BY <2>1 DEF Behind, Span
  <2>3. \A w : Written(w)' = Written(w) /\ Copied(w)' = Copied(w)
    BY <2>1 DEF Written, Copied
  <2>4. CopyTypes'
    BY <2>1, SameLayout DEF CopyInv, CopyTypes
  <2>5. LoopInv' /\ PassInv' /\ JustTheGranted'
    BY <2>1, <2>2, SameLayout DEF CopyInv, LoopInv, PassInv, JustTheGranted, ready
  <2>6. MemoryInv'
    BY <2>1, <2>2, <2>3, SameLayout DEF CopyInv, MemoryInv
  <2>7. AllOrNothing'
    BY <2>1, <2>2, <2>3, SameLayout DEF CopyInv, AllOrNothing, ready
  <2> QED BY <2>4, <2>5, <2>6, <2>7 DEF CopyInv
<1>2. CASE CopyNext
  BY <1>2, CallsKeep, PassKeeps, NoFragmentKeeps, FragmentKeeps, ValidateSpanKeeps, ValidatePageKeeps,
     StringEndsKeeps, StringFragmentKeeps DEF CopyNext
<1> QED BY <1>1, <1>2

\* A copy or a validation succeeds just when every byte of the span is granted.
THEOREM CopiesJustTheGranted == CopySpec => []JustTheGranted
<1>1. CopyInv => JustTheGranted
  BY DEF CopyInv
<1> QED BY <1>1, CopyInitial, CopyStep, PTL DEF CopySpec

\* A copy that fails changes nothing, and one that succeeds copies just the span.
THEOREM CopiesAllOrNothing == CopySpec => []AllOrNothing
<1>1. CopyInv => AllOrNothing
  BY DEF CopyInv
<1> QED BY <1>1, CopyInitial, CopyStep, PTL DEF CopySpec

\* For every address space, task_copy_user copies just the span, if all of it is granted, and
\* nothing otherwise.
THEOREM CopiesAreExact == CopySpec => []CopiesExact
<1>1. JustTheGranted /\ AllOrNothing => CopiesExact BY DEF CopiesExact
<1> QED BY <1>1, CopiesJustTheGranted, CopiesAllOrNothing, PTL
================================================================================
