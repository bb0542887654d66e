----------------------------- MODULE DataProofs -----------------------------
(***************************************************************************)
(* Induction over data, and the parts of the program whose correctness     *)
(* rests on it: the options a request is granted, the waits of the receive *)
(* timer, the log files, the transfer history and the forms.               *)
(***************************************************************************)
EXTENDS ReceiveTimer, LogFiles, TransferLog, Lists, Forms, FiniteSetTheorems,
        WellFoundedInduction, TLAPS

-----------------------------------------------------------------------------
(***************************************************************************)
(* Induction without an operator as a parameter: over a set of natural     *)
(* numbers, from the least-element principle, and the functions that are   *)
(* defined by recursion on the natural numbers                             *)
(***************************************************************************)

\* A set of natural numbers has a least element.
LEMMA Least ==
  ASSUME NEW T, T \subseteq Nat, T # {}
  PROVE  \E x \in T : \A y \in T : x <= y
<1> DEFINE R == {ss \in Nat \X Nat : ss[1] < ss[2]}
<1>1. IsWellFoundedOn(OpToRel(<, Nat), Nat)
  BY Zenon, NatLessThanWellFounded
<1>2. OpToRel(<, Nat) = R
  BY Zenon DEF OpToRel
<1>3. IsWellFoundedOn(R, Nat)
  BY Zenon, <1>1, <1>2
<1> HIDE DEF R
<1>4. PICK x \in T : \A y \in T : ~ (<<y, x>> \in R)
  BY <1>3, WFMin
<1>5. ASSUME NEW y \in T PROVE x <= y
  <2>1. x \in Nat /\ y \in Nat /\ <<y, x>> \in Nat \X Nat
    OBVIOUS
  <2>2. <<y, x>> \in R <=> y < x
    BY <2>1 DEF R
  <2> QED BY <1>4, <2>1, <2>2
<1> QED BY <1>5

\* Induction: a set with 0 and every successor of a member has all of Nat.
LEMMA NatSet ==
  ASSUME NEW S, 0 \in S, \A n \in Nat : n \in S => n + 1 \in S
  PROVE  Nat \subseteq S
<1> DEFINE T == {n \in Nat : n \notin S}
<1> SUFFICES ASSUME T # {} PROVE FALSE
  OBVIOUS
<1>1. PICK x \in T : \A y \in T : x <= y
  <2> T \subseteq Nat
    OBVIOUS
  <2> HIDE DEF T
  <2> QED BY Least
<1>2. x \in Nat /\ x # 0 /\ x - 1 \in Nat
  OBVIOUS
<1>3. x - 1 \in S
  BY <1>1, <1>2
<1>4. x \in S
  BY <1>2, <1>3
<1> QED BY <1>4

\* A set of integers that is bounded from above and not empty has a greatest
\* element.
LEMMA Greatest ==
  ASSUME NEW T, T \subseteq Int, T # {}, NEW b \in Int, \A x \in T : x <= b
  PROVE  \E x \in T : \A y \in T : y <= x
<1> DEFINE D == {b - x : x \in T}
<1>1. D \subseteq Nat /\ D # {}
  <2>1. \A x \in T : b - x \in Nat
    OBVIOUS
  <2> QED BY <2>1
<1>2. \E d \in D : \A e \in D : d <= e
  <2> HIDE DEF D
  <2> QED BY <1>1, Least
<1>3. PICK x \in T : \A e \in D : b - x <= e
  BY <1>2
<1>4. ASSUME NEW y \in T PROVE y <= x
  <2>1. b - y \in D
    OBVIOUS
  <2>2. b - x <= b - y /\ x \in Int /\ y \in Int
    BY <1>3, <2>1
  <2> QED BY <2>2
<1> QED BY <1>4

\* The functions that begin with z and go on with step
Recursions(S, z, step) ==
  {g \in [Nat -> S] : g[0] = z /\ \A n \in Nat : g[n + 1] = step[<<n, g[n]>>]}

\* A first value and a step that goes on from any value define a function.
LEMMA RecursionExists ==
  ASSUME NEW S, NEW z \in S, NEW step \in [Nat \X S -> S]
  PROVE  Recursions(S, z, step) # {}
<1> DEFINE Approx(n) == {h \in [0 .. n -> S] :
                           h[0] = z /\ \A m \in 0 .. n - 1 : h[m + 1] = step[<<m, h[m]>>]}
<1>1. \A n \in Nat : Approx(n) # {}
  <2> DEFINE A == {n \in Nat : Approx(n) # {}}
  <2>1. 0 \in A
    <3>1. [k \in 0 .. 0 |-> z] \in Approx(0)
      OBVIOUS
    <3> QED BY <3>1
  <2>2. ASSUME NEW n \in Nat, n \in A PROVE n + 1 \in A
    <3>1. PICK h \in Approx(n) : TRUE
      BY <2>2
    <3> DEFINE k == [m \in 0 .. n + 1 |-> IF m = n + 1 THEN step[<<n, h[n]>>] ELSE h[m]]
    <3>2. h \in [0 .. n -> S] /\ n \in 0 .. n
      BY <3>1
    <3>3. step[<<n, h[n]>>] \in S
      BY <3>2
    <3>4. k \in [0 .. n + 1 -> S]
      BY <3>2, <3>3
    <3>5. k[0] = z
      <4>1. 0 \in 0 .. n + 1 /\ 0 # n + 1
        OBVIOUS
      <4> QED BY <3>1, <4>1
    <3>6. ASSUME NEW m \in 0 .. (n + 1) - 1 PROVE k[m + 1] = step[<<m, k[m]>>]
      <4>1. CASE m = n
        <5>1. n \in 0 .. n + 1 /\ n + 1 \in 0 .. n + 1 /\ n # n + 1
          OBVIOUS
        <5>2. k[n + 1] = step[<<n, h[n]>>] /\ k[n] = h[n]
          BY <5>1
        <5> QED BY <4>1, <5>2
      <4>2. CASE m # n
        <5>1. m \in 0 .. n - 1 /\ m + 1 \in 0 .. n + 1 /\ m + 1 # n + 1 /\ m # n + 1
              /\ m \in 0 .. n + 1
          BY <4>2
        <5>2. k[m + 1] = h[m + 1] /\ k[m] = h[m]
          BY <5>1
        <5> QED BY <3>1, <5>1, <5>2
      <4> QED BY <4>1, <4>2
    <3>7. k \in Approx(n + 1)
      BY <3>4, <3>5, <3>6
    <3> QED BY <3>7
  <2> HIDE DEF A, Approx
  <2>3. Nat \subseteq A
    BY <2>1, <2>2, NatSet
  <2> QED BY <2>3 DEF A
<1>2. ASSUME NEW n \in Nat, NEW m \in Nat, n <= m, NEW h \in Approx(n), NEW k \in Approx(m)
      PROVE  \A i \in 0 .. n : h[i] = k[i]
  <2> DEFINE A == {i \in Nat : i <= n => h[i] = k[i]}
  <2>1. 0 \in A
    OBVIOUS
  <2>2. ASSUME NEW i \in Nat, i \in A PROVE i + 1 \in A
    <3>1. CASE i + 1 <= n
      <4>1. i \in 0 .. n - 1 /\ i \in 0 .. m - 1 /\ i <= n
        BY <1>2, <3>1
      <4>2. h[i + 1] = step[<<i, h[i]>>] /\ k[i + 1] = step[<<i, k[i]>>]
        BY <4>1
      <4> QED BY <2>2, <4>1, <4>2
    <3> QED BY <3>1
  <2>3. Nat \subseteq A
    <3> HIDE DEF A
    <3> QED BY <2>1, <2>2, NatSet
  <2> QED BY <2>3
<1> DEFINE pick == [n \in Nat |-> CHOOSE h : h \in Approx(n)]
           g == [n \in Nat |-> pick[n][n]]
<1>3. \A n \in Nat : pick[n] \in Approx(n)
  BY <1>1
<1>4. ASSUME NEW n \in Nat PROVE pick[n] \in [0 .. n -> S] /\ n \in 0 .. n
  <2>1. pick[n] \in Approx(n)
    BY <1>3
  <2> HIDE DEF pick
  <2> QED BY <2>1
<1>5. g \in [Nat -> S]
  <2> HIDE DEF pick
  <2> QED BY <1>4
<1>6. g[0] = z
  <2>1. pick[0] \in Approx(0) /\ g[0] = pick[0][0]
    BY <1>3
  <2> HIDE DEF pick, g
  <2> QED BY <2>1
<1>7. ASSUME NEW n \in Nat PROVE g[n + 1] = step[<<n, g[n]>>]
  <2>1. n + 1 \in Nat /\ n <= n + 1 /\ n \in 0 .. n /\ n \in 0 .. (n + 1) - 1
    BY SMT
  <2>2. pick[n] \in Approx(n) /\ pick[n + 1] \in Approx(n + 1)
    BY <1>3, <2>1
  <2>3. g[n + 1] = pick[n + 1][n + 1] /\ g[n] = pick[n][n]
    OBVIOUS
  <2> HIDE DEF pick, g
  <2>4. pick[n][n] = pick[n + 1][n]
    <3> HIDE DEF Approx
    <3> QED BY <1>2, <2>1, <2>2
  <2>5. pick[n + 1][n + 1] = step[<<n, pick[n + 1][n]>>]
    BY <2>1, <2>2
  <2> QED BY <2>3, <2>4, <2>5
<1> HIDE DEF g, pick, Approx
<1> QED BY <1>5, <1>6, <1>7 DEF Recursions

-----------------------------------------------------------------------------
(***************************************************************************)
(* Option negotiation                                                      *)
(***************************************************************************)

\* A configuration with the protocol's defaults, as the program ships it: the
\* limits are not below the defaults.
ShippedDefaults(config) ==
  /\ config.defaultBlksize = 512 /\ config.defaultWindowsize = 1
  /\ config.maxBlksize \in Nat /\ config.maxBlksize >= 512
  /\ config.maxWindowsize \in Nat /\ config.maxWindowsize >= 1
  /\ config.defaultTimeout \in Nat /\ config.minTimeout \in Nat /\ config.maxTimeout \in Nat

Params == [blksize : Nat, windowsize : Nat, timeout : Nat, tsize : Int, hasOptions : BOOLEAN]

\* What stands after n options: the recursion of Negotiate.
Grants(config, options, fileSize, g) ==
  /\ g \in [Nat -> Params] /\ g[0] = Unasked(config)
  /\ \A n \in Nat : g[n + 1] = Grant(config, fileSize, g[n], options[n + 1])

\* max, then min: a natural number, not above the higher bound.
LEMMA Clamped ==
  ASSUME NEW v, NEW width \in Nat, Parses(v, width), NEW low \in Nat, NEW high \in Nat
  PROVE  /\ AtMost(AtLeast(v, low), high) \in Nat
         /\ AtMost(AtLeast(v, low), high) <= high
<1>1. v \in Nat
  BY DEF Parses
<1> QED BY <1>1 DEF AtMost, AtLeast

LEMMA GrantType ==
  ASSUME NEW config, ShippedDefaults(config), NEW fileSize \in Int, NEW p \in Params, NEW opt
  PROVE  Grant(config, fileSize, p, opt) \in Params
<1>0. U16 \in Nat /\ U8 \in Nat /\ 8 \in Nat /\ 1 \in Nat
  BY DEF U16, U8
<1>1. CASE opt.name = "blksize" /\ Parses(opt.value, U16)
  <2>1. Grant(config, fileSize, p, opt) =
          [p EXCEPT !.blksize = AtMost(AtLeast(opt.value, 8), config.maxBlksize),
                    !.hasOptions = TRUE]
    BY <1>1 DEF Grant
  <2>2. AtMost(AtLeast(opt.value, 8), config.maxBlksize) \in Nat
    <3> DEFINE high == config.maxBlksize
    <3>1. high \in Nat
      BY DEF ShippedDefaults
    <3> HIDE DEF high
    <3>2. AtMost(AtLeast(opt.value, 8), high) \in Nat
      BY <1>0, <1>1, <3>1, Clamped
    <3> QED BY <3>2 DEF high
  <2> QED BY <2>1, <2>2 DEF Params
<1>2. CASE opt.name = "windowsize" /\ Parses(opt.value, U16)
  <2>1. Grant(config, fileSize, p, opt) =
          [p EXCEPT !.windowsize = AtMost(AtLeast(opt.value, 1), config.maxWindowsize),
                    !.hasOptions = TRUE]
    BY <1>2 DEF Grant
  <2>2. AtMost(AtLeast(opt.value, 1), config.maxWindowsize) \in Nat
    <3> DEFINE high == config.maxWindowsize
    <3>1. high \in Nat
      BY DEF ShippedDefaults
    <3> HIDE DEF high
    <3>2. AtMost(AtLeast(opt.value, 1), high) \in Nat
      BY <1>0, <1>2, <3>1, Clamped
    <3> QED BY <3>2 DEF high
  <2> QED BY <2>1, <2>2 DEF Params
<1>3. CASE opt.name = "timeout" /\ Parses(opt.value, U8)
  <2>1. Grant(config, fileSize, p, opt) =
          [p EXCEPT !.timeout = AtMost(AtLeast(opt.value, config.minTimeout), config.maxTimeout),
                    !.hasOptions = TRUE]
    BY <1>3 DEF Grant
  <2>2. AtMost(AtLeast(opt.value, config.minTimeout), config.maxTimeout) \in Nat
    <3> DEFINE high == config.maxTimeout
               low == config.minTimeout
    <3>1. high \in Nat /\ low \in Nat
      BY DEF ShippedDefaults
    <3> HIDE DEF high, low
    <3>2. AtMost(AtLeast(opt.value, low), high) \in Nat
      BY <1>0, <1>3, <3>1, Clamped
    <3> QED BY <3>2 DEF high, low
  <2> QED BY <2>1, <2>2 DEF Params
<1>4. CASE opt.name = "tsize" /\ fileSize # None
  <2>1. Grant(config, fileSize, p, opt) = [p EXCEPT !.tsize = fileSize, !.hasOptions = TRUE]
    BY <1>4 DEF Grant
  <2> QED BY <2>1 DEF Params
<1>5. CASE ~ \/ opt.name = "blksize" /\ Parses(opt.value, U16)
             \/ opt.name = "windowsize" /\ Parses(opt.value, U16)
             \/ opt.name = "timeout" /\ Parses(opt.value, U8)
             \/ opt.name = "tsize" /\ fileSize # None
  BY <1>5 DEF Grant
<1> QED BY <1>1, <1>2, <1>3, <1>4, <1>5

\* negotiate_options goes through the options one by one.
LEMMA NegotiateLoop ==
  ASSUME NEW config, ShippedDefaults(config), NEW options, Len(options) \in Nat,
         NEW fileSize \in Int
  PROVE  \E g : Grants(config, options, fileSize, g)
                /\ Negotiate(config, options, fileSize) = g[Len(options)]
<1> DEFINE z == Unasked(config)
           step == [s \in Nat \X Params |-> Grant(config, fileSize, s[2], options[s[1] + 1])]
           Is(g) == g = [n \in Nat |-> IF n = 0 THEN Unasked(config)
                                       ELSE Grant(config, fileSize, g[n - 1], options[n])]
           F == CHOOSE g : Is(g)
<1>1. z \in Params
  BY DEF Params, Unasked, ShippedDefaults, None
<1>2. step \in [Nat \X Params -> Params]
  BY GrantType
<1>3. PICK g \in Recursions(Params, z, step) : TRUE
  <2> HIDE DEF z, step
  <2> QED BY <1>1, <1>2, RecursionExists
<1>4. /\ g \in [Nat -> Params] /\ g[0] = Unasked(config)
      /\ \A n \in Nat : g[n + 1] = Grant(config, fileSize, g[n], options[n + 1])
  BY <1>3 DEF Recursions
<1>5. Is(g)
  <2>1. ASSUME NEW n \in Nat
        PROVE  g[n] = IF n = 0 THEN Unasked(config)
                      ELSE Grant(config, fileSize, g[n - 1], options[n])
    <3>1. CASE n = 0
      BY <1>4, <3>1
    <3>2. CASE n # 0
      <4>1. n - 1 \in Nat /\ (n - 1) + 1 = n
        BY <3>2
      <4>2. g[(n - 1) + 1] = Grant(config, fileSize, g[n - 1], options[(n - 1) + 1])
        BY <1>4, <4>1
      <4> QED BY <3>2, <4>1, <4>2, Zenon
    <3> QED BY <3>1, <3>2
  <2> QED BY <1>4, <2>1
<1>6. Is(F)
  <2> HIDE DEF Is
  <2> QED BY <1>5, Zenon DEF F
<1>7. Negotiate(config, options, fileSize) = F[Len(options)]
  BY Zenon DEF Negotiate, F, Is
<1>8. F = g
  <2>1. F = [n \in Nat |-> IF n = 0 THEN Unasked(config)
                           ELSE Grant(config, fileSize, F[n - 1], options[n])]
    BY <1>6, Zenon DEF Is
  <2> HIDE DEF F
  <2> DEFINE A == {n \in Nat : F[n] = g[n]}
  <2>2. 0 \in A
    BY <1>4, <2>1, Zenon
  <2>3. ASSUME NEW n \in Nat, n \in A PROVE n + 1 \in A
    <3>1. n + 1 \in Nat /\ n + 1 # 0 /\ (n + 1) - 1 = n
      OBVIOUS
    <3>2. F[n + 1] = Grant(config, fileSize, F[(n + 1) - 1], options[n + 1])
      BY <2>1, <3>1, Zenon
    <3> QED BY <1>4, <2>3, <3>1, <3>2, Zenon
  <2>4. Nat \subseteq A
    <3> HIDE DEF A
    <3> QED BY <2>2, <2>3, NatSet
  <2>5. \A n \in Nat : F[n] = g[n]
    BY <2>4
  <2>6. F = [n \in Nat |-> F[n]] /\ g = [n \in Nat |-> g[n]]
    BY <1>4, <2>1, Zenon
  <2> QED BY <2>5, <2>6
<1> QED BY <1>4, <1>7, <1>8 DEF Grants

-----------------------------------------------------------------------------
\* What holds after n options: nothing above the limits, and a size that is not
\* the protocol's default was asked for.
Granted(config, options, p, n) ==
  /\ p.blksize <= config.maxBlksize /\ p.windowsize <= config.maxWindowsize
  /\ p.blksize # 512 => \E j \in 1 .. n : options[j].name = "blksize"
  /\ p.windowsize # 1 => \E j \in 1 .. n : options[j].name = "windowsize"
  /\ p.tsize # None => \E j \in 1 .. n : options[j].name = "tsize"
  /\ ~p.hasOptions => p.blksize = 512 /\ p.windowsize = 1

LEMMA GrantedStep ==
  ASSUME NEW config, ShippedDefaults(config), NEW fileSize \in Int, NEW options,
         NEW n \in Nat, NEW p \in Params, Granted(config, options, p, n)
  PROVE  Granted(config, options, Grant(config, fileSize, p, options[n + 1]), n + 1)
<1> DEFINE opt == options[n + 1]
           q == Grant(config, fileSize, p, opt)
<1>0. /\ U16 \in Nat /\ U8 \in Nat /\ 8 \in Nat /\ 1 \in Nat /\ n + 1 \in 1 .. n + 1
      /\ \A j \in 1 .. n : j \in 1 .. n + 1
      /\ \A j \in 1 .. n + 1 : j \in 1 .. n \/ j = n + 1
      /\ config.maxBlksize \in Nat /\ config.maxWindowsize \in Nat
  BY DEF U16, U8, ShippedDefaults
<1>1. p \in Params /\ q \in Params
  BY GrantType
<1>2. CASE opt.name = "blksize" /\ Parses(opt.value, U16)
  <2> DEFINE c == AtMost(AtLeast(opt.value, 8), config.maxBlksize)
  <2>1. q = [p EXCEPT !.blksize = c, !.hasOptions = TRUE]
    BY <1>2 DEF Grant
  <2>2. c \in Nat /\ c <= config.maxBlksize
    <3> DEFINE high == config.maxBlksize
               v == opt.value
    <3>1. high \in Nat /\ Parses(v, U16)
      BY <1>0, <1>2
    <3> HIDE DEF high, v
    <3>2. AtMost(AtLeast(v, 8), high) \in Nat /\ AtMost(AtLeast(v, 8), high) <= high
      BY <1>0, <3>1, Clamped
    <3> QED BY <3>2 DEF high, v
  <2> HIDE DEF c, q
  <2>3. /\ q.blksize = c /\ q.hasOptions /\ q.windowsize = p.windowsize /\ q.tsize = p.tsize
    BY <1>1, <2>1 DEF Params
  <2>5. q.windowsize # 1 => \E j \in 1 .. n + 1 : options[j].name = "windowsize"
    BY <1>0, <2>3 DEF Granted
  <2>6. q.tsize # None => \E j \in 1 .. n + 1 : options[j].name = "tsize"
    BY <1>0, <2>3 DEF Granted
  <2>7. \E j \in 1 .. n + 1 : options[j].name = "blksize"
    BY <1>0, <1>2
  <2>8. q.blksize <= config.maxBlksize /\ q.windowsize <= config.maxWindowsize
    BY <2>2, <2>3 DEF Granted
  <2>9. Granted(config, options, q, n + 1)
    BY <2>3, <2>5, <2>6, <2>7, <2>8 DEF Granted
  <2> QED BY <2>9 DEF q
<1>3. CASE ~(opt.name = "blksize" /\ Parses(opt.value, U16))
  <2>1. q.blksize = p.blksize /\ (q.hasOptions \/ q = p)
    BY <1>1, <1>3 DEF Grant, Params
  <2>2. /\ q.windowsize <= config.maxWindowsize
        /\ q.windowsize # p.windowsize => opt.name = "windowsize"
        /\ q.tsize # p.tsize => opt.name = "tsize"
    <3>1. CASE opt.name = "windowsize" /\ Parses(opt.value, U16)
      <4> DEFINE c == AtMost(AtLeast(opt.value, 1), config.maxWindowsize)
      <4>1. q = [p EXCEPT !.windowsize = c, !.hasOptions = TRUE]
        BY <3>1 DEF Grant
      <4>2. c <= config.maxWindowsize
        <5> DEFINE high == config.maxWindowsize
        <5>1. high \in Nat
          BY <1>0
        <5> HIDE DEF high
        <5>2. AtMost(AtLeast(opt.value, 1), high) <= high
          BY <1>0, <3>1, <5>1, Clamped
        <5> QED BY <5>2 DEF high
      <4> HIDE DEF c, q
      <4> QED BY <1>1, <3>1, <4>1, <4>2 DEF Params
    <3>2. CASE ~(opt.name = "windowsize" /\ Parses(opt.value, U16))
      <4>1. q.windowsize = p.windowsize /\ (q.tsize # p.tsize => opt.name = "tsize")
        BY <1>1, <1>3, <3>2 DEF Grant, Params
      <4> QED BY <4>1 DEF Granted
    <3> QED BY <3>1, <3>2
  <2> HIDE DEF q
  <2>3. q.blksize # 512 => \E j \in 1 .. n + 1 : options[j].name = "blksize"
    BY <1>0, <2>1 DEF Granted
  <2>4. q.windowsize # 1 => \E j \in 1 .. n + 1 : options[j].name = "windowsize"
    BY <1>0, <2>2 DEF Granted
  <2>5. q.tsize # None => \E j \in 1 .. n + 1 : options[j].name = "tsize"
    BY <1>0, <2>2 DEF Granted
  <2>7. ~q.hasOptions => q.blksize = 512 /\ q.windowsize = 1
    BY <2>1 DEF Granted
  <2>8. q.blksize <= config.maxBlksize
    BY <2>1 DEF Granted
  <2>9. Granted(config, options, q, n + 1)
    BY <2>2, <2>3, <2>4, <2>5, <2>7, <2>8 DEF Granted
  <2> QED BY <2>9 DEF q
<1> QED BY <1>2, <1>3

\* One more option is the last of its name, and leaves the last of another one.
LEMMA LastStep ==
  ASSUME NEW options, NEW n \in Nat, NEW name, NEW width,
         NEW i \in LastAsked(options, n + 1, name, width)
  PROVE  \/ i = n + 1 /\ IsOption(options[n + 1], name, width)
         \/ i \in LastAsked(options, n, name, width) /\ ~IsOption(options[n + 1], name, width)
<1>1. n + 1 \in 1 .. n + 1 /\ \A j \in 1 .. n : j \in 1 .. n + 1 /\ n + 1 > j
  OBVIOUS
<1>2. /\ i \in 1 .. n + 1 /\ IsOption(options[i], name, width)
      /\ \A j \in 1 .. n + 1 : j > i => ~IsOption(options[j], name, width)
  BY DEF LastAsked
<1>3. i \in 1 .. n \/ i = n + 1
  BY <1>2
<1> QED BY <1>1, <1>2, <1>3 DEF LastAsked

\* max, then min, is not above the result of max.
LEMMA ClampedToAsked ==
  ASSUME NEW v, NEW width \in Nat, Parses(v, width), NEW low \in Nat, NEW high \in Nat
  PROVE  AtMost(AtLeast(v, low), high) <= AtLeast(v, low)
<1>1. v \in Nat
  BY DEF Parses
<1> QED BY <1>1 DEF AtMost, AtLeast

LEMMA NoMoreStep ==
  ASSUME NEW config, ShippedDefaults(config), NEW fileSize \in Int, NEW options,
         NEW n \in Nat, NEW p \in Params, NoMore(config, options, p, n)
  PROVE  NoMore(config, options, Grant(config, fileSize, p, options[n + 1]), n + 1)
<1> DEFINE opt == options[n + 1]
           q == Grant(config, fileSize, p, opt)
<1>0. U16 \in Nat /\ U8 \in Nat /\ 8 \in Nat /\ 1 \in Nat
  BY DEF U16, U8
<1>1. /\ config.maxBlksize \in Nat /\ config.maxWindowsize \in Nat
      /\ config.maxTimeout \in Nat /\ config.minTimeout \in Nat
  BY DEF ShippedDefaults
<1>2. ASSUME NEW i \in LastAsked(options, n + 1, "blksize", U16)
      PROVE  q.blksize <= AtLeast(options[i].value, 8)
  <2>1. CASE i = n + 1 /\ IsOption(opt, "blksize", U16)
    <3>1. q.blksize = AtMost(AtLeast(opt.value, 8), config.maxBlksize)
      BY <2>1 DEF Grant, Params, IsOption
    <3>2. Parses(opt.value, U16)
      BY <2>1 DEF IsOption
    <3>3. AtMost(AtLeast(opt.value, 8), config.maxBlksize) <= AtLeast(opt.value, 8)
      BY <1>0, <1>1, <3>2, ClampedToAsked
    <3> QED BY <2>1, <3>1, <3>3
  <2>2. CASE i \in LastAsked(options, n, "blksize", U16) /\ ~IsOption(opt, "blksize", U16)
    <3>1. q.blksize = p.blksize
      BY <2>2 DEF Grant, Params, IsOption
    <3> QED BY <2>2, <3>1 DEF NoMore
  <2> QED BY <1>2, <2>1, <2>2, LastStep
<1>3. ASSUME NEW i \in LastAsked(options, n + 1, "windowsize", U16)
      PROVE  q.windowsize <= AtLeast(options[i].value, 1)
  <2>1. CASE i = n + 1 /\ IsOption(opt, "windowsize", U16)
    <3>1. q.windowsize = AtMost(AtLeast(opt.value, 1), config.maxWindowsize)
      BY <2>1 DEF Grant, Params, IsOption
    <3>2. Parses(opt.value, U16)
      BY <2>1 DEF IsOption
    <3>3. AtMost(AtLeast(opt.value, 1), config.maxWindowsize) <= AtLeast(opt.value, 1)
      BY <1>0, <1>1, <3>2, ClampedToAsked
    <3> QED BY <2>1, <3>1, <3>3
  <2>2. CASE i \in LastAsked(options, n, "windowsize", U16) /\ ~IsOption(opt, "windowsize", U16)
    <3>1. q.windowsize = p.windowsize
      BY <2>2 DEF Grant, Params, IsOption
    <3> QED BY <2>2, <3>1 DEF NoMore
  <2> QED BY <1>3, <2>1, <2>2, LastStep
<1>4. ASSUME NEW i \in LastAsked(options, n + 1, "timeout", U8)
      PROVE  q.timeout <= AtLeast(options[i].value, config.minTimeout)
  <2>1. CASE i = n + 1 /\ IsOption(opt, "timeout", U8)
    <3>1. q.timeout = AtMost(AtLeast(opt.value, config.minTimeout), config.maxTimeout)
      BY <2>1 DEF Grant, Params, IsOption
    <3>2. Parses(opt.value, U8)
      BY <2>1 DEF IsOption
    <3>3. AtMost(AtLeast(opt.value, config.minTimeout), config.maxTimeout)
            <= AtLeast(opt.value, config.minTimeout)
      BY <1>0, <1>1, <3>2, ClampedToAsked
    <3> QED BY <2>1, <3>1, <3>3
  <2>2. CASE i \in LastAsked(options, n, "timeout", U8) /\ ~IsOption(opt, "timeout", U8)
    <3>1. q.timeout = p.timeout
      BY <2>2 DEF Grant, Params, IsOption
    <3> QED BY <2>2, <3>1 DEF NoMore
  <2> QED BY <1>4, <2>1, <2>2, LastStep
<1> QED BY <1>2, <1>3, <1>4 DEF NoMore

\* Whatever was asked for, what holds after each option holds in the end.
LEMMA NegotiateGrants ==
  ASSUME NEW config, ShippedDefaults(config), NEW options, Len(options) \in Nat,
         NEW fileSize \in Int
  PROVE  /\ Negotiate(config, options, fileSize) \in Params
         /\ Granted(config, options, Negotiate(config, options, fileSize), Len(options))
         /\ NoMore(config, options, Negotiate(config, options, fileSize), Len(options))
<1>1. PICK g : Grants(config, options, fileSize, g)
               /\ Negotiate(config, options, fileSize) = g[Len(options)]
  BY NegotiateLoop
<1>2. /\ g \in [Nat -> Params] /\ g[0] = Unasked(config)
      /\ \A n \in Nat : g[n + 1] = Grant(config, fileSize, g[n], options[n + 1])
  BY <1>1 DEF Grants
<1> DEFINE A == {n \in Nat : Granted(config, options, g[n], n) /\ NoMore(config, options, g[n], n)}
<1>3. 0 \in A
  <2> DEFINE p == Unasked(config)
  <2>1. /\ p.blksize = 512 /\ p.windowsize = 1 /\ p.tsize = None
        /\ 512 <= config.maxBlksize /\ 1 <= config.maxWindowsize
    BY DEF Unasked, ShippedDefaults
  <2> HIDE DEF p
  <2>2. ~ \E j \in 1 .. 0 : TRUE
    OBVIOUS
  <2>3. Granted(config, options, p, 0) /\ NoMore(config, options, p, 0)
    BY <2>1, <2>2 DEF Granted, NoMore, LastAsked
  <2> QED BY <1>2, <2>3 DEF p
<1>4. ASSUME NEW n \in Nat, n \in A PROVE n + 1 \in A
  <2>1. /\ g[n] \in Params
        /\ Granted(config, options, g[n], n) /\ NoMore(config, options, g[n], n)
    BY <1>2, <1>4
  <2>2. /\ Granted(config, options, Grant(config, fileSize, g[n], options[n + 1]), n + 1)
        /\ NoMore(config, options, Grant(config, fileSize, g[n], options[n + 1]), n + 1)
    BY <2>1, GrantedStep, NoMoreStep
  <2>3. n + 1 \in Nat /\ g[n + 1] = Grant(config, fileSize, g[n], options[n + 1])
    BY <1>2
  <2> QED BY <2>2, <2>3, Zenon
<1> HIDE DEF A
<1>5. Nat \subseteq A
  BY <1>3, <1>4, NatSet
<1> QED BY <1>1, <1>2, <1>5 DEF A

\* A sequence of one element, and of none
LEMMA Singleton ==
  ASSUME NEW X, NEW x \in X
  PROVE  /\ <<x>> \in Seq(X) /\ Len(<<x>>) = 1 /\ <<x>>[1] = x
         /\ <<>> \in Seq(X) /\ Len(<<>>) = 0
OBVIOUS

LEMMA Appended ==
  ASSUME NEW X, NEW s \in Seq(X), NEW t \in Seq(X)
  PROVE  /\ s \o t \in Seq(X) /\ Len(s \o t) = Len(s) + Len(t)
         /\ Len(s) \in Nat /\ Len(t) \in Nat
         /\ \A i \in 1 .. Len(s \o t) : (s \o t)[i] = IF i <= Len(s) THEN s[i] ELSE t[i - Len(s)]
OBVIOUS

\* The OACK has the options that differ from the protocol's defaults.
LEMMA OackFacts ==
  ASSUME NEW p \in Params
  PROVE  LET oack == BuildOack(p)
         IN  /\ DOMAIN oack = 1 .. Len(oack)
             /\ \A i \in DOMAIN oack :
                  \/ oack[i] = [name |-> "blksize", value |-> p.blksize] /\ p.blksize # 512
                  \/ oack[i] = [name |-> "windowsize", value |-> p.windowsize] /\ p.windowsize # 1
                  \/ oack[i] = [name |-> "tsize", value |-> p.tsize] /\ p.tsize # None
             /\ p.blksize # 512 => \E i \in DOMAIN oack : oack[i].name = "blksize"
             /\ p.windowsize # 1 => \E i \in DOMAIN oack : oack[i].name = "windowsize"
<1> DEFINE b == [name |-> "blksize", value |-> p.blksize]
           w == [name |-> "windowsize", value |-> p.windowsize]
           t == [name |-> "tsize", value |-> p.tsize]
           R == [name : STRING, value : Int]
           B == IF p.blksize # 512 THEN <<b>> ELSE <<>>
           W == IF p.windowsize # 1 THEN <<w>> ELSE <<>>
           T == IF p.tsize # None THEN <<t>> ELSE <<>>
           X == {b, w, t}
<1>1. b.name = "blksize" /\ w.name = "windowsize" /\ t.name = "tsize"
  OBVIOUS
<1> HIDE DEF b, w, t
<1>2. /\ B \in Seq(X) /\ W \in Seq(X) /\ T \in Seq(X)
      /\ Len(B) = (IF p.blksize # 512 THEN 1 ELSE 0)
      /\ Len(W) = (IF p.windowsize # 1 THEN 1 ELSE 0)
      /\ Len(T) = (IF p.tsize # None THEN 1 ELSE 0)
      /\ p.blksize # 512 => B[1] = b
      /\ p.windowsize # 1 => W[1] = w
      /\ p.tsize # None => T[1] = t
  <2>1. b \in X /\ w \in X /\ t \in X
    OBVIOUS
  <2> HIDE DEF X
  <2>2. B \in Seq(X) /\ Len(B) = (IF p.blksize # 512 THEN 1 ELSE 0)
        /\ (p.blksize # 512 => B[1] = b)
    BY <2>1, Singleton
  <2>3. W \in Seq(X) /\ Len(W) = (IF p.windowsize # 1 THEN 1 ELSE 0)
        /\ (p.windowsize # 1 => W[1] = w)
    BY <2>1, Singleton
  <2>4. T \in Seq(X) /\ Len(T) = (IF p.tsize # None THEN 1 ELSE 0)
        /\ (p.tsize # None => T[1] = t)
    BY <2>1, Singleton
  <2> QED BY <2>2, <2>3, <2>4
<1> HIDE DEF B, W, T, X
<1> DEFINE q == B \o W
           o == q \o T
<1>3. /\ o \in Seq(X) /\ Len(o) = Len(B) + Len(W) + Len(T)
      /\ \A i \in 1 .. Len(o) :
           o[i] = IF i <= Len(B) THEN B[i]
                  ELSE IF i <= Len(B) + Len(W) THEN W[i - Len(B)] ELSE T[i - Len(B) - Len(W)]
  <2>1. /\ q \in Seq(X) /\ Len(q) = Len(B) + Len(W) /\ Len(B) \in Nat /\ Len(W) \in Nat
        /\ \A i \in 1 .. Len(q) : q[i] = IF i <= Len(B) THEN B[i] ELSE W[i - Len(B)]
    BY <1>2, Appended
  <2> HIDE DEF q
  <2>2. /\ o \in Seq(X) /\ Len(o) = Len(q) + Len(T) /\ Len(T) \in Nat
        /\ \A i \in 1 .. Len(o) : o[i] = IF i <= Len(q) THEN q[i] ELSE T[i - Len(q)]
    BY <1>2, <2>1, Appended
  <2> HIDE DEF o
  <2>3. ASSUME NEW i \in 1 .. Len(o)
        PROVE  o[i] = IF i <= Len(B) THEN B[i]
                  ELSE IF i <= Len(B) + Len(W) THEN W[i - Len(B)] ELSE T[i - Len(B) - Len(W)]
    BY <2>1, <2>2
  <2> QED BY <2>1, <2>2, <2>3
<1>4. BuildOack(p) = o
  BY Zenon DEF BuildOack, B, W, T, b, w, t, q
<1> HIDE DEF o
<1>5. DOMAIN o = 1 .. Len(o)
  BY <1>3
<1>6. ASSUME NEW i \in DOMAIN o
      PROVE  \/ o[i] = b /\ p.blksize # 512
             \/ o[i] = w /\ p.windowsize # 1
             \/ o[i] = t /\ p.tsize # None
  BY <1>2, <1>3, <1>5
<1>7. p.blksize # 512 => 1 \in DOMAIN o /\ o[1] = b
  BY <1>2, <1>3, <1>5
<1>8. p.windowsize # 1 => Len(B) + 1 \in DOMAIN o /\ o[Len(B) + 1] = w
  BY <1>2, <1>3, <1>5
<1>9. p.windowsize # 1 => \E i \in DOMAIN o : o[i].name = "windowsize"
  BY <1>1, <1>8
<1>10. p.blksize # 512 => \E i \in DOMAIN o : o[i].name = "blksize"
  BY <1>1, <1>7
<1> QED BY <1>4, <1>5, <1>6, <1>9, <1>10 DEF b, w, t

\* For every list of options the OACK names only options of the request, and no
\* size and no timeout is above what the last option of its name asks, nor a
\* size above the limit (negotiate_options, build_oack in core/session/mod.rs).
THEOREM OnlyAsked ==
  ASSUME NEW config, ShippedDefaults(config), NEW X, NEW options \in Seq(X), NEW fileSize \in Int
  PROVE  OnlyWhatWasAsked(config, options, fileSize)
<1> DEFINE p == Negotiate(config, options, fileSize)
           oack == BuildOack(p)
<1>1. Len(options) \in Nat /\ DOMAIN options = 1 .. Len(options)
  OBVIOUS
<1>2. /\ p \in Params
      /\ Granted(config, options, p, Len(options)) /\ NoMore(config, options, p, Len(options))
  BY <1>1, NegotiateGrants
<1> HIDE DEF p
<1>3. \A i \in DOMAIN oack : \E j \in DOMAIN options : options[j].name = oack[i].name
  <2> SUFFICES ASSUME NEW i \in DOMAIN oack
               PROVE  \E j \in DOMAIN options : options[j].name = oack[i].name
    OBVIOUS
  <2>1. \/ oack[i] = [name |-> "blksize", value |-> p.blksize] /\ p.blksize # 512
        \/ oack[i] = [name |-> "windowsize", value |-> p.windowsize] /\ p.windowsize # 1
        \/ oack[i] = [name |-> "tsize", value |-> p.tsize] /\ p.tsize # None
    BY <1>2, OackFacts, Zenon
  <2>2. \/ oack[i].name = "blksize" /\ p.blksize # 512
        \/ oack[i].name = "windowsize" /\ p.windowsize # 1
        \/ oack[i].name = "tsize" /\ p.tsize # None
    <3> HIDE DEF oack
    <3> QED BY <2>1
  <2> HIDE DEF oack
  <2>3. \E j \in 1 .. Len(options) : options[j].name = oack[i].name
    <3>1. CASE oack[i].name = "blksize" /\ p.blksize # 512
      BY <1>2, <3>1 DEF Granted
    <3>2. CASE oack[i].name = "windowsize" /\ p.windowsize # 1
      BY <1>2, <3>2 DEF Granted
    <3>3. CASE oack[i].name = "tsize" /\ p.tsize # None
      BY <1>2, <3>3 DEF Granted
    <3> QED BY <2>2, <3>1, <3>2, <3>3
  <2> QED BY <1>1, <2>3
<1>5. p.blksize <= config.maxBlksize /\ p.windowsize <= config.maxWindowsize
  BY <1>2 DEF Granted
<1> QED BY <1>2, <1>3, <1>5, Zenon DEF OnlyWhatWasAsked, p

\* For every list of options the client has the sizes the session uses, after the
\* OACK or without one (negotiate_options, build_oack in core/session/mod.rs).
THEOREM ViewShared ==
  ASSUME NEW config, ShippedDefaults(config), NEW X, NEW options \in Seq(X), NEW fileSize \in Int
  PROVE  SharedView(config, options, fileSize)
<1> DEFINE p == Negotiate(config, options, fileSize)
           oack == IF p.hasOptions THEN BuildOack(p) ELSE <<>>
           named(name) == {i \in DOMAIN oack : oack[i].name = name}
<1>1. p \in Params /\ Granted(config, options, p, Len(options))
  <2>1. Len(options) \in Nat
    OBVIOUS
  <2> QED BY <2>1, NegotiateGrants
<1> HIDE DEF p
<1>2. p.hasOptions \in BOOLEAN /\ (~p.hasOptions => p.blksize = 512 /\ p.windowsize = 1)
  BY <1>1 DEF Granted, Params
<1>3. \A i \in DOMAIN oack :
        /\ oack[i].name = "blksize" => oack[i].value = p.blksize /\ p.blksize # 512
        /\ oack[i].name = "windowsize" => oack[i].value = p.windowsize /\ p.windowsize # 1
  <2>1. CASE p.hasOptions
    <3> DEFINE o == BuildOack(p)
    <3>1. \A i \in DOMAIN o :
                  \/ o[i] = [name |-> "blksize", value |-> p.blksize] /\ p.blksize # 512
                  \/ o[i] = [name |-> "windowsize", value |-> p.windowsize] /\ p.windowsize # 1
                  \/ o[i] = [name |-> "tsize", value |-> p.tsize] /\ p.tsize # None
      BY <1>1, OackFacts, Zenon
    <3> HIDE DEF o
    <3>2. \A i \in DOMAIN o :
        /\ o[i].name = "blksize" => o[i].value = p.blksize /\ p.blksize # 512
        /\ o[i].name = "windowsize" => o[i].value = p.windowsize /\ p.windowsize # 1
      BY <3>1
    <3> QED BY <2>1, <3>2 DEF o
  <2>2. CASE ~p.hasOptions
    BY <2>2
  <2> QED BY <1>2, <2>1, <2>2
<1>4. /\ p.blksize # 512 => named("blksize") # {}
      /\ p.windowsize # 1 => named("windowsize") # {}
  <2>1. CASE p.hasOptions
    <3> DEFINE o == BuildOack(p)
    <3>1. /\ p.blksize # 512 => \E i \in DOMAIN o : o[i].name = "blksize"
          /\ p.windowsize # 1 => \E i \in DOMAIN o : o[i].name = "windowsize"
      BY <1>1, OackFacts, Zenon
    <3> HIDE DEF o
    <3> QED BY <2>1, <3>1 DEF o
  <2>2. CASE ~p.hasOptions
    BY <1>2, <2>2
  <2> QED BY <1>2, <2>1, <2>2
<1> HIDE DEF oack
<1>5. p.blksize = Deduced(oack, "blksize", 512)
  BY <1>3, <1>4 DEF Deduced
<1>6. p.windowsize = Deduced(oack, "windowsize", 1)
  BY <1>3, <1>4 DEF Deduced
<1> QED BY <1>5, <1>6, Zenon DEF SharedView, p, oack

-----------------------------------------------------------------------------
(***************************************************************************)
(* Backoff and the receive timer                                           *)
(***************************************************************************)

\* The factors of compute_backoff: 2^min(attempt, 8).
LEMMA Factors ==
  /\ 2 ^ 0 = 1 /\ 2 ^ 1 = 2 /\ 2 ^ 2 = 4 /\ 2 ^ 3 = 8 /\ 2 ^ 4 = 16
  /\ 2 ^ 5 = 32 /\ 2 ^ 6 = 64 /\ 2 ^ 7 = 128 /\ 2 ^ 8 = 256
OBVIOUS

LEMMA TimesGrows ==
  ASSUME NEW b \in Nat, NEW f \in Nat, NEW g \in Nat, 1 <= f, f <= g
  PROVE  b * f \in Nat /\ b * g \in Nat /\ b <= b * f /\ b * f <= b * g
<1>1. \A x, y \in Nat : x * y \in Nat
  OBVIOUS
<1>2. f - 1 \in Nat /\ g - f \in Nat
  OBVIOUS
<1>3. b * (f - 1) \in Nat /\ b * (g - f) \in Nat
  BY <1>1, <1>2
<1>4. b * (f - 1) = b * f - b /\ b * (g - f) = b * g - b * f
  OBVIOUS
<1> QED BY <1>1, <1>3, <1>4

\* The waits of successive attempts grow, from the negotiated timeout to the
\* longest one (compute_backoff in core/session/mod.rs).
THEOREM BackoffFacts ==
  ASSUME NEW base \in Nat, NEW max \in Nat, base <= max, NEW exponential \in BOOLEAN,
         NEW a \in Nat
  PROVE  /\ Backoff(base, a, exponential, max) \in base .. max
         /\ Backoff(base, a, exponential, max) <= Backoff(base, a + 1, exponential, max)
<1> DEFINE f == 2 ^ AtMost(a, 8)
           g == 2 ^ AtMost(a + 1, 8)
<1>1. /\ a = 0 \/ a = 1 \/ a = 2 \/ a = 3 \/ a = 4 \/ a = 5 \/ a = 6 \/ a = 7 \/ a >= 8
  OBVIOUS
<1>2. f \in Nat /\ g \in Nat /\ 1 <= f /\ f <= g
  <2>1. CASE a = 0
    BY <2>1, Factors DEF AtMost
  <2>2. CASE a = 1
    BY <2>2, Factors DEF AtMost
  <2>3. CASE a = 2
    BY <2>3, Factors DEF AtMost
  <2>4. CASE a = 3
    BY <2>4, Factors DEF AtMost
  <2>5. CASE a = 4
    BY <2>5, Factors DEF AtMost
  <2>6. CASE a = 5
    BY <2>6, Factors DEF AtMost
  <2>7. CASE a = 6
    BY <2>7, Factors DEF AtMost
  <2>8. CASE a = 7
    BY <2>8, Factors DEF AtMost
  <2>9. CASE a >= 8
    <3>1. AtMost(a, 8) = 8 /\ AtMost(a + 1, 8) = 8
      BY <2>9 DEF AtMost
    <3>2. f = 2 ^ 8 /\ g = 2 ^ 8
      BY <3>1, Zenon
    <3>3. f = 256 /\ g = 256
      BY <3>2, Factors, Zenon
    <3> HIDE DEF f, g
    <3> QED BY <3>3
  <2> QED BY <1>1, <2>1, <2>2, <2>3, <2>4, <2>5, <2>6, <2>7, <2>8, <2>9
<1>3. base * f \in Nat /\ base * g \in Nat /\ base <= base * f /\ base * f <= base * g
  <2> HIDE DEF f, g
  <2> QED BY <1>2, TimesGrows
<1>4. /\ Backoff(base, a, exponential, max)
           = IF ~exponential \/ a = 0 THEN base ELSE AtMost(base * f, max)
      /\ Backoff(base, a + 1, exponential, max)
           = IF ~exponential THEN base ELSE AtMost(base * g, max)
  BY DEF Backoff
<1> HIDE DEF f, g
<1> QED BY <1>3, <1>4 DEF AtMost

-----------------------------------------------------------------------------
LEMMA WaitFacts ==
  ASSUME NEW a \in Nat
  PROVE  Wait(a) \in Nat /\ Wait(a) <= LongestTimeout
<1>1. /\ BaseTimeout \in Nat /\ LongestTimeout \in Nat /\ BaseTimeout <= LongestTimeout
      /\ TRUE \in BOOLEAN
  BY TimerAssumption
<1>2. Wait(a) \in BaseTimeout .. LongestTimeout
  BY <1>1, BackoffFacts DEF Wait
<1> QED BY <1>1, <1>2

\* Waited is the function its recursion describes.
LEMMA WaitedFacts ==
  /\ Waited \in [Nat -> Nat] /\ Waited[0] = Wait(0)
  /\ \A a \in Nat : Waited[a + 1] = Waited[a] + Wait(a + 1)
<1> DEFINE step == [s \in Nat \X Nat |-> s[2] + Wait(s[1] + 1)]
           Is(g) == g = [a \in Nat |-> IF a = 0 THEN Wait(0) ELSE g[a - 1] + Wait(a)]
<1>1. step \in [Nat \X Nat -> Nat] /\ Wait(0) \in Nat
  <2>1. \A s \in Nat \X Nat : s[2] + Wait(s[1] + 1) \in Nat
    BY WaitFacts
  <2> QED BY <2>1, WaitFacts
<1>2. PICK g \in Recursions(Nat, Wait(0), step) : TRUE
  <2> HIDE DEF step
  <2> QED BY <1>1, RecursionExists
<1>3. \A n \in Nat : g[n + 1] = g[n] + Wait(n + 1)
  BY <1>2 DEF Recursions
<1>4. Is(g)
  <2>0. g \in [Nat -> Nat] /\ g[0] = Wait(0)
    BY <1>2 DEF Recursions
  <2>1. ASSUME NEW a \in Nat
        PROVE  g[a] = IF a = 0 THEN Wait(0) ELSE g[a - 1] + Wait(a)
    <3>1. CASE a = 0
      BY <2>0, <3>1
    <3>2. CASE a # 0
      <4>1. a - 1 \in Nat /\ (a - 1) + 1 = a
        BY <3>2
      <4> QED BY <1>3, <3>2, <4>1
    <3> QED BY <3>1, <3>2
  <2> QED BY <2>0, <2>1
<1>5. Waited = CHOOSE f : Is(f)
  BY Zenon DEF Waited
<1> HIDE DEF Is
<1>6. Is(Waited)
  BY <1>4, <1>5, Zenon
<1> USE DEF Is
<1>7. Waited = [a \in Nat |-> IF a = 0 THEN Wait(0) ELSE Waited[a - 1] + Wait(a)]
  BY <1>6
<1>8. Waited[0] = Wait(0)
  BY <1>7, Zenon
<1>9. ASSUME NEW a \in Nat PROVE Waited[a + 1] = Waited[a] + Wait(a + 1)
  <2>1. a + 1 \in Nat /\ a + 1 # 0 /\ (a + 1) - 1 = a
    OBVIOUS
  <2> QED BY <1>7, <2>1
<1>10. \A a \in Nat : Waited[a] \in Nat
  <2> DEFINE A == {a \in Nat : Waited[a] \in Nat}
  <2>1. 0 \in A
    BY <1>8, <1>1
  <2>2. ASSUME NEW a \in Nat, a \in A PROVE a + 1 \in A
    BY <1>9, <2>2, WaitFacts
  <2> HIDE DEF A
  <2>3. Nat \subseteq A
    BY <2>1, <2>2, NatSet
  <2> QED BY <2>3 DEF A
<1> QED BY <1>7, <1>8, <1>9, <1>10

LEMMA WaitedGrows ==
  ASSUME NEW a \in Nat, NEW b \in Nat, a <= b
  PROVE  Waited[a] <= Waited[b]
<1> DEFINE A == {n \in Nat : Waited[a] <= Waited[a + n]}
<1>1. 0 \in A
  BY WaitedFacts
<1>2. ASSUME NEW n \in Nat, n \in A PROVE n + 1 \in A
  <2>1. a + n \in Nat /\ a + (n + 1) = (a + n) + 1
    OBVIOUS
  <2>2. Waited[a + (n + 1)] = Waited[a + n] + Wait((a + n) + 1)
    BY <2>1, WaitedFacts
  <2> QED BY <1>2, <2>1, <2>2, WaitFacts, WaitedFacts
<1> HIDE DEF A
<1>3. Nat \subseteq A
  BY <1>1, <1>2, NatSet
<1>4. b - a \in Nat /\ a + (b - a) = b
  OBVIOUS
<1> QED BY <1>3, <1>4 DEF A

-----------------------------------------------------------------------------
TimerTypes ==
  /\ waiting \in {"yes", "done", "expired"}
  /\ attempt \in Nat /\ left \in Nat /\ finished \in Nat /\ chatter \in Nat
  /\ silence \in Nat /\ lived \in Nat

\* While a session waits, what it has waited in silence and has left of this
\* attempt is at least the wait of this attempt and at most all waits so far;
\* what it has lived and could still live without a packet is bounded.
WaitSoFar ==
  waiting = "yes" =>
    /\ attempt <= TimerRetries
    /\ silence + left \in Wait(attempt) .. Waited[attempt]
    /\ lived + left + (Patience - Waited[attempt])
         <= (finished + 1) * Patience + chatter * LongestTimeout

TimerInv == TimerTypes /\ WaitSoFar /\ TimerIsKept

LEMMA TimerStarts == TimerInit => TimerInv
<1> SUFFICES ASSUME TimerInit PROVE TimerInv
  OBVIOUS
<1>1. /\ Patience \in Nat /\ Wait(0) \in Nat /\ Waited[0] = Wait(0) /\ Wait(0) <= Patience
      /\ TimerRetries \in Nat /\ LongestTimeout \in Nat
  <2>1. /\ TimerRetries \in Nat /\ LongestTimeout \in Nat
        /\ 0 \in Nat /\ 0 <= TimerRetries
    BY TimerAssumption
  <2>2. Waited[0] <= Waited[TimerRetries]
    BY <2>1, WaitedGrows
  <2> QED BY <2>1, <2>2, WaitedFacts, WaitFacts DEF Patience
<1>2. waiting = "yes" /\ attempt = 0 /\ left = Wait(0)
      /\ finished = 0 /\ chatter = 0 /\ silence = 0 /\ lived = 0
  BY DEF TimerInit
<1>3. TimerTypes
  BY <1>1, <1>2 DEF TimerTypes
<1>4. (0 + 1) * Patience + 0 * LongestTimeout = Patience
  BY <1>1
<1>5. WaitSoFar
  BY <1>1, <1>2, <1>4 DEF WaitSoFar
<1>6. TimerIsKept
  BY <1>1, <1>2, <1>4 DEF TimerIsKept, SilenceIsBounded, OnlyPacketsProlong, NobodyIsDroppedTalking
<1> QED BY <1>3, <1>5, <1>6 DEF TimerInv

LEMMA TimerSteps == TimerInv /\ [TimerNext]_timerVars => TimerInv'
<1> SUFFICES ASSUME TimerInv, [TimerNext]_timerVars PROVE TimerInv'
  OBVIOUS
<1> DEFINE P == Patience
           L == LongestTimeout
           W == Waited[attempt]
<1>1. TimerTypes /\ WaitSoFar /\ TimerIsKept
  BY DEF TimerInv
<1>2. P \in Nat /\ L \in Nat /\ TimerRetries \in Nat
  BY TimerAssumption, WaitedFacts DEF Patience
<1>3. /\ attempt \in Nat /\ left \in Nat /\ finished \in Nat /\ chatter \in Nat
      /\ silence \in Nat /\ lived \in Nat /\ waiting \in {"yes", "done", "expired"}
  BY <1>1 DEF TimerTypes
<1>4. silence <= P /\ lived <= (finished + 1) * P + chatter * L
  BY <1>1 DEF TimerIsKept, SilenceIsBounded, OnlyPacketsProlong
<1>5. waiting = "yes" =>
        /\ attempt <= TimerRetries /\ W <= P
        /\ silence + left \in Wait(attempt) .. W
        /\ lived + left + (P - W) <= (finished + 1) * P + chatter * L
  BY <1>1, <1>2, <1>3, WaitedGrows DEF WaitSoFar, Patience
<1>6. /\ W \in Nat /\ Wait(attempt) \in Nat /\ Wait(attempt) <= L /\ Wait(attempt) <= W
      /\ Wait(0) \in Nat /\ Waited[0] = Wait(0) /\ Wait(0) <= P
  <2>1. CASE attempt = 0
    BY <1>2, <1>3, <2>1, WaitFacts, WaitedFacts, WaitedGrows DEF Patience
  <2>2. CASE attempt # 0
    <3>1. attempt - 1 \in Nat /\ (attempt - 1) + 1 = attempt
      BY <1>3, <2>2
    <3>2. Waited[attempt] = Waited[attempt - 1] + Wait(attempt)
      BY <3>1, WaitedFacts
    <3> QED BY <1>2, <1>3, <3>1, <3>2, WaitFacts, WaitedFacts, WaitedGrows DEF Patience
  <2> QED BY <2>1, <2>2
<1>7. /\ (finished + 1) * P \in Nat /\ chatter * L \in Nat
      /\ ((finished + 1) + 1) * P = (finished + 1) * P + P
      /\ (chatter + 1) * L = chatter * L + L
  BY <1>2, <1>3
<1> HIDE DEF P, L, W
<1>8. CASE Tick
  <2>1. /\ waiting = "yes" /\ left > 0 /\ left' = left - 1 /\ silence' = silence + 1
        /\ lived' = lived + 1 /\ UNCHANGED <<waiting, attempt, finished, chatter>>
    BY <1>8 DEF Tick
  <2>2. TimerTypes'
    BY <1>3, <2>1 DEF TimerTypes
  <2>3. /\ silence' <= P /\ lived' <= (finished + 1) * P + chatter * L
        /\ silence' + left' \in Wait(attempt) .. W
        /\ lived' + left' + (P - W) <= (finished + 1) * P + chatter * L
    BY <1>2, <1>3, <1>4, <1>5, <1>6, <1>7, <2>1
  <2>4. WaitSoFar'
    BY <1>5, <2>1, <2>3 DEF WaitSoFar, P, L, W
  <2>5. TimerIsKept'
    BY <2>1, <2>3
    DEF TimerIsKept, SilenceIsBounded, OnlyPacketsProlong, NobodyIsDroppedTalking, P, L
  <2> QED BY <2>2, <2>4, <2>5 DEF TimerInv
<1>9. CASE OtherPacket
  <2>1. /\ waiting = "yes" /\ chatter' = chatter + 1 /\ silence' = 0
        /\ left' = Wait(attempt) /\ UNCHANGED <<waiting, attempt, finished, lived>>
    BY <1>9 DEF OtherPacket
  <2>2. TimerTypes'
    BY <1>3, <1>6, <2>1 DEF TimerTypes
  <2>3. /\ silence' <= P /\ lived' <= (finished + 1) * P + (chatter + 1) * L
        /\ silence' + left' \in Wait(attempt) .. W
        /\ lived' + left' + (P - W) <= (finished + 1) * P + (chatter + 1) * L
    BY <1>2, <1>3, <1>4, <1>5, <1>6, <1>7, <2>1
  <2>4. WaitSoFar'
    BY <1>5, <2>1, <2>3 DEF WaitSoFar, P, L, W
  <2>5. TimerIsKept'
    BY <2>1, <2>3
    DEF TimerIsKept, SilenceIsBounded, OnlyPacketsProlong, NobodyIsDroppedTalking, P, L
  <2> QED BY <2>2, <2>4, <2>5 DEF TimerInv
<1>10. CASE NextWindow
  <2>1. /\ waiting = "yes" /\ finished' = finished + 1 /\ silence' = 0
        /\ attempt' = 0 /\ left' = Wait(0) /\ waiting' \in {"done", "yes"}
        /\ UNCHANGED <<chatter, lived>>
    BY <1>10 DEF NextWindow
  <2>2. TimerTypes'
    BY <1>3, <1>6, <2>1 DEF TimerTypes
  <2>3. /\ silence' <= P /\ lived' <= ((finished + 1) + 1) * P + chatter * L
        /\ silence' + left' \in Wait(0) .. Waited[0]
        /\ lived' + left' + (P - Waited[0]) <= ((finished + 1) + 1) * P + chatter * L
    BY <1>2, <1>3, <1>4, <1>5, <1>6, <1>7, <2>1
  <2>4. WaitSoFar'
    BY <1>2, <2>1, <2>3 DEF WaitSoFar, P, L
  <2>5. TimerIsKept'
    BY <2>1, <2>3
    DEF TimerIsKept, SilenceIsBounded, OnlyPacketsProlong, NobodyIsDroppedTalking, P, L
  <2> QED BY <2>2, <2>4, <2>5 DEF TimerInv
<1>11. CASE Expire
  <2>1. /\ waiting = "yes" /\ left = 0 /\ attempt' = attempt + 1
        /\ UNCHANGED <<finished, chatter, silence, lived>>
    BY <1>11 DEF Expire
  <2>2. CASE attempt + 1 > TimerRetries
    <3>1. waiting' = "expired" /\ UNCHANGED left /\ attempt = TimerRetries
      BY <1>2, <1>3, <1>5, <1>11, <2>1, <2>2 DEF Expire
    <3>2. TimerTypes'
      BY <1>3, <2>1, <3>1 DEF TimerTypes
    <3>3. silence' >= Wait(TimerRetries)
      BY <1>3, <1>5, <1>6, <2>1, <3>1
    <3>4. WaitSoFar'
      BY <3>1 DEF WaitSoFar
    <3>5. TimerIsKept'
      BY <1>4, <2>1, <3>1, <3>3
      DEF TimerIsKept, SilenceIsBounded, OnlyPacketsProlong, NobodyIsDroppedTalking, P, L
    <3> QED BY <3>2, <3>4, <3>5 DEF TimerInv
  <2>3. CASE ~ (attempt + 1 > TimerRetries)
    <3>1. left' = Wait(attempt + 1) /\ UNCHANGED waiting /\ attempt + 1 \in Nat
          /\ attempt + 1 <= TimerRetries
      BY <1>2, <1>3, <1>11, <2>1, <2>3 DEF Expire
    <3>2. Wait(attempt + 1) \in Nat /\ Waited[attempt + 1] = W + Wait(attempt + 1)
      BY <1>3, <3>1, WaitFacts, WaitedFacts DEF W
    <3>3. TimerTypes'
      BY <1>3, <2>1, <3>1, <3>2 DEF TimerTypes
    <3>4. /\ silence' + left' \in Wait(attempt + 1) .. Waited[attempt + 1]
          /\ lived' + left' + (P - Waited[attempt + 1]) <= (finished + 1) * P + chatter * L
      BY <1>2, <1>3, <1>5, <1>6, <1>7, <2>1, <3>1, <3>2
    <3>5. WaitSoFar'
      BY <2>1, <3>1, <3>4 DEF WaitSoFar, P, L
    <3>6. TimerIsKept'
      BY <1>4, <2>1, <3>1
      DEF TimerIsKept, SilenceIsBounded, OnlyPacketsProlong, NobodyIsDroppedTalking, P, L
    <3> QED BY <3>3, <3>5, <3>6 DEF TimerInv
  <2> QED BY <2>2, <2>3
<1>12. CASE UNCHANGED timerVars
  BY <1>1, <1>12 DEF timerVars, TimerInv, TimerTypes, WaitSoFar, TimerIsKept, SilenceIsBounded,
     OnlyPacketsProlong, NobodyIsDroppedTalking
<1> QED BY <1>8, <1>9, <1>10, <1>11, <1>12 DEF TimerNext

-----------------------------------------------------------------------------
(***************************************************************************)
(* The log files and the log tab                                           *)
(***************************************************************************)

\* Lines in the order they were logged, all before line m; those between two
\* of them, and between the last one and m, are in L.
Rising(s)      == \A a, b \in DOMAIN s : a < b => s[a] < s[b]
Below(s, m)    == \A a \in DOMAIN s : s[a] \in 1 .. m - 1
Joined(s, L)   == \A a \in 1 .. Len(s) - 1 : \A k \in s[a] + 1 .. s[a + 1] - 1 : k \in L
UpTo(s, L, m)  == Len(s) > 0 => \A k \in s[Len(s)] + 1 .. m - 1 : k \in L

\* The end of a sequence
LEMMA LastFacts ==
  ASSUME NEW X, NEW s \in Seq(X), NEW n \in Nat
  PROVE  /\ Last_(n, s) \in Seq(X)
         /\ Len(Last_(n, s)) = IF Len(s) > n THEN n ELSE Len(s)
         /\ \A a \in 1 .. Len(Last_(n, s)) : Last_(n, s)[a] = s[Len(s) - Len(Last_(n, s)) + a]
<1>1. CASE Len(s) > n
  <2>1. Last_(n, s) = SubSeq(s, Len(s) - n + 1, Len(s))
    BY <1>1 DEF Last_
  <2> QED BY <1>1, <2>1
<1>2. CASE ~(Len(s) > n)
  <2>1. Last_(n, s) = SubSeq(s, 1, Len(s))
    BY <1>2 DEF Last_
  <2>2. SubSeq(s, 1, Len(s)) = s
    OBVIOUS
  <2>3. \A a \in 1 .. Len(s) : Len(s) - Len(s) + a = a
    OBVIOUS
  <2> HIDE DEF Last_
  <2> QED BY <1>2, <2>1, <2>2, <2>3
<1> QED BY <1>1, <1>2

\* A line logged after n others of its file has a number that is larger by n.
LEMMA RisingGap ==
  ASSUME NEW s \in Seq(Nat), Rising(s), NEW a \in DOMAIN s, NEW b \in DOMAIN s, a <= b
  PROVE  s[a] + (b - a) <= s[b]
<1> DEFINE A == {d \in Nat : a + d \in DOMAIN s => s[a] + d <= s[a + d]}
<1>1. DOMAIN s = 1 .. Len(s) /\ Len(s) \in Nat /\ \A k \in DOMAIN s : s[k] \in Nat
  OBVIOUS
<1>2. 0 \in A
  BY <1>1
<1>3. ASSUME NEW d \in Nat, d \in A PROVE d + 1 \in A
  <2> SUFFICES ASSUME a + (d + 1) \in DOMAIN s PROVE s[a] + (d + 1) <= s[a + (d + 1)]
    OBVIOUS
  <2>1. a + d \in DOMAIN s /\ a + d < a + (d + 1)
    BY <1>1
  <2>2. s[a + d] < s[a + (d + 1)] /\ s[a] + d <= s[a + d]
    BY <1>3, <2>1 DEF Rising
  <2> QED BY <1>1, <2>1, <2>2
<1> HIDE DEF A
<1>4. Nat \subseteq A
  BY <1>2, <1>3, NatSet
<1>5. b - a \in Nat /\ a + (b - a) = b
  BY <1>1
<1> QED BY <1>4, <1>5 DEF A

\* The end of a file is in order and joined, and only misses lines that n later
\* ones follow.
LEMMA LastKeeps ==
  ASSUME NEW s \in Seq(Nat), NEW n \in Nat, NEW L, NEW m \in Nat,
         Rising(s), Below(s, m), Joined(s, L)
  PROVE  /\ Rising(Last_(n, s)) /\ Below(Last_(n, s), m) /\ Joined(Last_(n, s), L)
         /\ UpTo(s, L, m) => UpTo(Last_(n, s), L, m)
         /\ ToSet(Last_(n, s)) \subseteq ToSet(s)
         /\ \A k \in ToSet(s) \ ToSet(Last_(n, s)) : k <= m - 1 - n
<1> DEFINE t == Last_(n, s)
           c == Len(s) - Len(t)
<1>1. /\ t \in Seq(Nat) /\ Len(t) = (IF Len(s) > n THEN n ELSE Len(s))
      /\ \A a \in 1 .. Len(t) : t[a] = s[c + a]
      /\ Len(s) \in Nat /\ Len(t) \in Nat /\ c \in Nat
      /\ DOMAIN s = 1 .. Len(s) /\ DOMAIN t = 1 .. Len(t)
      /\ \A a \in DOMAIN s : s[a] \in Nat
  <2>1. /\ t \in Seq(Nat) /\ Len(t) = (IF Len(s) > n THEN n ELSE Len(s))
        /\ \A a \in 1 .. Len(t) : t[a] = s[Len(s) - Len(t) + a]
    BY LastFacts
  <2> HIDE DEF t
  <2>2. Len(s) \in Nat /\ Len(t) \in Nat /\ DOMAIN s = 1 .. Len(s) /\ DOMAIN t = 1 .. Len(t)
    BY <2>1
  <2>3. c \in Nat
    BY <2>1, <2>2
  <2>4. \A a \in DOMAIN s : s[a] \in Nat
    OBVIOUS
  <2> QED BY <2>1, <2>2, <2>3, <2>4
<1> HIDE DEF t
<1>2. \A a \in DOMAIN t : c + a \in DOMAIN s /\ t[a] = s[c + a]
  <2>1. \A a \in 1 .. Len(t) : c + a \in 1 .. Len(s)
    BY <1>1
  <2> QED BY <1>1, <2>1
<1>3. Len(s) = c + Len(t)
  BY <1>1
<1> HIDE DEF c
<1>4. Rising(t)
  <2> SUFFICES ASSUME NEW a \in DOMAIN t, NEW b \in DOMAIN t, a < b PROVE t[a] < t[b]
    BY DEF Rising
  <2>1. c + a < c + b
    BY <1>1
  <2> QED BY <1>2, <2>1 DEF Rising
<1>5. Below(t, m)
  BY <1>2 DEF Below
<1>6. Joined(t, L)
  <2> SUFFICES ASSUME NEW a \in 1 .. Len(t) - 1, NEW k \in t[a] + 1 .. t[a + 1] - 1 PROVE k \in L
    BY DEF Joined
  <2>1. /\ c + a \in 1 .. Len(s) - 1 /\ t[a] = s[c + a] /\ t[a + 1] = s[(c + a) + 1]
    <3> DEFINE z == Len(t)
    <3>1. z \in Nat /\ c \in Nat /\ a \in 1 .. z - 1 /\ Len(s) = c + z
      BY <1>1, <1>3
    <3> HIDE DEF z
    <3>2. a \in 1 .. z /\ a + 1 \in 1 .. z /\ c + (a + 1) = (c + a) + 1 /\ c + a \in 1 .. (c + z) - 1
      BY <3>1
    <3>3. a \in DOMAIN t /\ a + 1 \in DOMAIN t
      BY <1>1, <3>2 DEF z
    <3>4. t[a] = s[c + a] /\ t[a + 1] = s[c + (a + 1)]
      BY <1>2, <3>3
    <3> QED BY <3>1, <3>2, <3>4
  <2> QED BY <2>1 DEF Joined
<1>7. UpTo(s, L, m) => UpTo(t, L, m)
  <2> SUFFICES ASSUME UpTo(s, L, m), Len(t) > 0 PROVE UpTo(t, L, m)
    BY DEF UpTo
  <2>1. Len(t) \in 1 .. Len(t) /\ Len(s) > 0
    BY <1>1, <1>3
  <2>2. t[Len(t)] = s[Len(s)]
    <3>1. Len(t) \in DOMAIN t
      BY <1>1, <2>1
    <3> QED BY <1>2, <1>3, <3>1
  <2> QED BY <2>1, <2>2 DEF UpTo
<1>8. ToSet(t) \subseteq ToSet(s)
  BY <1>2 DEF ToSet
<1>9. ASSUME NEW k \in ToSet(s) \ ToSet(t) PROVE k <= m - 1 - n
  <2>1. PICK a \in DOMAIN s : k = s[a]
    BY <1>9 DEF ToSet
  <2>2. a <= c
    <3>1. CASE a > c
      <4>0. a \in 1 .. Len(s)
        BY <1>1
      <4>1. a - c \in DOMAIN t /\ c + (a - c) = a
        <5>1. a - c \in 1 .. Len(t) /\ c + (a - c) = a
          <6> DEFINE z == Len(t)
          <6>1. z \in Nat /\ c \in Nat /\ a \in 1 .. c + z /\ a > c
            BY <1>1, <1>3, <3>1, <4>0
          <6> HIDE DEF z
          <6>2. a - c \in 1 .. z /\ c + (a - c) = a
            BY <6>1
          <6> QED BY <6>2 DEF z
        <5> QED BY <1>1, <5>1
      <4>2. t[a - c] = k
        BY <1>2, <2>1, <4>1
      <4> QED BY <1>9, <4>1, <4>2 DEF ToSet
    <3>2. a \in Nat
      BY <1>1
    <3> QED BY <1>1, <3>1, <3>2
  <2>0. a \in 1 .. Len(s)
    BY <1>1
  <2>3. Len(t) = n /\ Len(s) \in DOMAIN s /\ a <= Len(s) /\ Len(s) - a >= n
    BY <1>1, <1>3, <2>0, <2>2
  <2>4. s[a] + (Len(s) - a) <= s[Len(s)]
    BY <2>3, RisingGap
  <2>5. s[Len(s)] <= m - 1 /\ s[Len(s)] \in Nat /\ s[a] \in Nat
    <3>1. s[Len(s)] \in 1 .. m - 1
      BY <2>3 DEF Below
    <3> QED BY <1>1, <3>1
  <2> QED BY <1>1, <2>1, <2>3, <2>4, <2>5
<1> QED BY <1>4, <1>5, <1>6, <1>7, <1>8, <1>9 DEF t

\* The next line is appended in order.
LEMMA AppendKeeps ==
  ASSUME NEW s \in Seq(Nat), NEW L, NEW m \in Nat \ {0}, Rising(s), Below(s, m), Joined(s, L),
         UpTo(s, L, m)
  PROVE  /\ Append(s, m) \in Seq(Nat) /\ Rising(Append(s, m)) /\ Below(Append(s, m), m + 1)
         /\ Joined(Append(s, m), L) /\ UpTo(Append(s, m), L, m + 1)
         /\ ToSet(Append(s, m)) = ToSet(s) \cup {m}
<1> DEFINE t == Append(s, m)
           n == Len(s) + 1
<1>1. /\ t \in Seq(Nat) /\ Len(t) = n /\ n \in Nat /\ DOMAIN s = 1 .. Len(s) /\ DOMAIN t = 1 .. n
      /\ t[n] = m /\ \A a \in DOMAIN s : t[a] = s[a] /\ s[a] \in Nat /\ s[a] \in 1 .. m - 1
      /\ \A a \in DOMAIN t : a \in DOMAIN s \/ a = n
      /\ Len(s) \in Nat
  <2>1. \A a \in DOMAIN s : s[a] \in 1 .. m - 1
    BY DEF Below
  <2> QED BY <2>1
<1> HIDE DEF t
<1>2. Rising(t)
  <2> SUFFICES ASSUME NEW a \in DOMAIN t, NEW b \in DOMAIN t, a < b PROVE t[a] < t[b]
    BY DEF Rising
  <2>1. a \in DOMAIN s
    BY <1>1
  <2>2. CASE b = n
    BY <1>1, <2>1, <2>2
  <2>3. CASE b \in DOMAIN s
    BY <1>1, <2>1, <2>3 DEF Rising
  <2> QED BY <1>1, <2>2, <2>3
<1>3. Below(t, m + 1)
  <2> SUFFICES ASSUME NEW a \in DOMAIN t PROVE t[a] \in 1 .. (m + 1) - 1
    BY DEF Below
  <2> QED BY <1>1
<1>4. Joined(t, L)
  <2> SUFFICES ASSUME NEW a \in 1 .. Len(t) - 1, NEW k \in t[a] + 1 .. t[a + 1] - 1 PROVE k \in L
    BY DEF Joined
  <2>1. CASE a = Len(s)
    <3>1. t[a] = s[Len(s)] /\ t[a + 1] = m /\ Len(s) > 0
      BY <1>1, <2>1
    <3> QED BY <3>1 DEF UpTo
  <2>2. CASE a # Len(s)
    <3> DEFINE z == Len(s)
    <3>0. z \in Nat /\ a \in 1 .. (z + 1) - 1 /\ a # z
      BY <1>1, <2>2
    <3> HIDE DEF z
    <3>3. a \in 1 .. z - 1 /\ a \in 1 .. z /\ a + 1 \in 1 .. z
      BY <3>0
    <3>1. a \in 1 .. Len(s) - 1 /\ a \in DOMAIN s /\ a + 1 \in DOMAIN s
      BY <1>1, <3>3 DEF z
    <3>2. t[a] = s[a] /\ t[a + 1] = s[a + 1]
      BY <1>1, <3>1
    <3> QED BY <3>1, <3>2 DEF Joined
  <2> QED BY <2>1, <2>2
<1>5. UpTo(t, L, m + 1)
  <2>1. t[Len(t)] = m
    BY <1>1
  <2> QED BY <2>1 DEF UpTo
<1>6. ToSet(t) = ToSet(s) \cup {m}
  <2>1. \A a \in DOMAIN s : a \in DOMAIN t
    BY <1>1
  <2>2. n \in DOMAIN t
    BY <1>1
  <2> HIDE DEF n
  <2>3. ToSet(t) = {t[a] : a \in DOMAIN t} /\ ToSet(s) = {s[a] : a \in DOMAIN s}
    BY DEF ToSet
  <2>4. \A a \in DOMAIN s : t[a] = s[a]
    BY <1>1
  <2>5. \A a \in DOMAIN t : a \in DOMAIN s \/ a = n
    BY <1>1
  <2>6. t[n] = m
    BY <1>1
  <2> QED BY <2>1, <2>2, <2>3, <2>4, <2>5, <2>6
<1> QED BY <1>1, <1>2, <1>3, <1>4, <1>5, <1>6 DEF t

\* What the ring drops does not come back.
LEMMA LastAppend ==
  ASSUME NEW X, NEW s \in Seq(X), NEW x \in X, NEW n \in Nat
  PROVE  Last_(n, Append(Last_(n, s), x)) = Last_(n, Append(s, x))
<1> DEFINE r == Last_(n, s)
           p == Append(r, x)
           q == Append(s, x)
           u == Last_(n, p)
           v == Last_(n, q)
<1>1. /\ r \in Seq(X) /\ Len(r) = (IF Len(s) > n THEN n ELSE Len(s))
      /\ \A a \in 1 .. Len(r) : r[a] = s[Len(s) - Len(r) + a]
  BY LastFacts
<1> HIDE DEF r
<1>2. /\ p \in Seq(X) /\ Len(p) = Len(r) + 1 /\ p[Len(r) + 1] = x
      /\ \A a \in 1 .. Len(r) : p[a] = r[a]
      /\ q \in Seq(X) /\ Len(q) = Len(s) + 1 /\ q[Len(s) + 1] = x
      /\ \A a \in 1 .. Len(s) : q[a] = s[a]
      /\ Len(r) \in Nat /\ Len(s) \in Nat
  BY <1>1
<1> HIDE DEF p, q
<1>3. \A a \in 1 .. Len(p) : p[a] = q[Len(q) - Len(p) + a]
  <2> SUFFICES ASSUME NEW a \in 1 .. Len(p) PROVE p[a] = q[Len(q) - Len(p) + a]
    OBVIOUS
  <2>1. CASE a = Len(r) + 1
    BY <1>2, <2>1
  <2>2. CASE a # Len(r) + 1
    <3>1. a \in 1 .. Len(r) /\ Len(s) - Len(r) + a \in 1 .. Len(s)
      BY <1>1, <1>2, <2>2
    <3>2. Len(q) - Len(p) + a = Len(s) - Len(r) + a
      BY <1>2
    <3> QED BY <1>1, <1>2, <3>1, <3>2
  <2> QED BY <2>1, <2>2
<1>4. /\ u \in Seq(X) /\ Len(u) = (IF Len(p) > n THEN n ELSE Len(p))
      /\ \A a \in 1 .. Len(u) : u[a] = p[Len(p) - Len(u) + a]
  BY <1>2, LastFacts
<1>5. /\ v \in Seq(X) /\ Len(v) = (IF Len(q) > n THEN n ELSE Len(q))
      /\ \A a \in 1 .. Len(v) : v[a] = q[Len(q) - Len(v) + a]
  BY <1>2, LastFacts
<1> HIDE DEF u, v
<1>6. Len(u) = Len(v) /\ Len(u) \in Nat
  BY <1>1, <1>2, <1>4, <1>5
<1>7. ASSUME NEW a \in 1 .. Len(u) PROVE u[a] = v[a]
  <2>1. Len(p) - Len(u) + a \in 1 .. Len(p)
    BY <1>2, <1>4, <1>6
  <2>2. u[a] = q[Len(q) - Len(p) + (Len(p) - Len(u) + a)]
    BY <1>3, <1>4, <2>1
  <2>3. Len(q) - Len(p) + (Len(p) - Len(u) + a) = Len(q) - Len(v) + a
    BY <1>2, <1>6
  <2> QED BY <1>5, <1>6, <2>2, <2>3
<1>8. u = v
  BY <1>4, <1>5, <1>6, <1>7
<1> QED BY <1>8 DEF u, v, p, q, r

-----------------------------------------------------------------------------
\* Files in the order of their days, each in order, and all of it before m
Ordered(fs, m) ==
  /\ \A i \in DOMAIN fs : Rising(fs[i]) /\ Below(fs[i], m)
  /\ \A i, j \in DOMAIN fs : \A x \in ToSet(fs[i]), y \in ToSet(fs[j]) : i < j => x < y

\* A file that ends the log: joined, up to line m
Ends(s, L, m) == Joined(s, L) /\ UpTo(s, L, m)

\* What a rotation has read is, with what was logged since, the file.
SnapshotInv ==
  /\ snapshot.of = 0 => snapshot = NoSnapshot
  /\ snapshot.of # 0 =>
       /\ snapshot.of \in DOMAIN files /\ MaxLines > 0
       /\ snapshot.lines \in Seq(Nat) /\ Rising(snapshot.lines)
       /\ Joined(snapshot.lines, lost)
       /\ ToSet(files[snapshot.of]) = ToSet(snapshot.lines) \cup gap
       /\ snapshot.of = Len(files) => UpTo(snapshot.lines, lost \cup gap \cup queued, next)

FilesInv ==
  /\ files \in Seq(Seq(Nat)) /\ Len(files) >= 1 /\ next \in Nat \ {0}
  /\ Ordered(files, next)
  /\ Joined(files[Len(files)], lost) /\ UpTo(files[Len(files)], lost \cup queued, next)

\* What is queued comes after what is written, and nothing after the first of
\* it is missing.
QueueInv ==
  /\ queued \subseteq 1 .. next - 1
  /\ \A i \in DOMAIN files : \A x \in ToSet(files[i]), y \in queued : x < y
  /\ \A x \in queued : \A y \in x + 1 .. next - 1 : y \in queued \cup lost

TabInv ==
  /\ shown \in Seq(Nat) /\ Rising(shown) /\ Below(shown, next) /\ Ends(shown, lost, next)
  /\ ring = Last_(RingSize, shown)

LogInv == FilesInv /\ SnapshotInv /\ QueueInv /\ TabInv /\ KeepsTheEnd

\* What is joined stays joined when more is lost.
LEMMA MoreLost ==
  ASSUME NEW s, NEW L, NEW M, NEW m, L \subseteq M
  PROVE  /\ Joined(s, L) => Joined(s, M)
         /\ UpTo(s, L, m) => UpTo(s, M, m)
         /\ Ends(s, L, m) => Ends(s, M, m)
BY DEF Joined, UpTo, Ends

\* The next line was logged, and is not in the file.
LEMMA OneMore ==
  ASSUME NEW s \in Seq(Nat), NEW L, NEW M, NEW m \in Nat, UpTo(s, L, m), L \cup {m} \subseteq M
  PROVE  UpTo(s, M, m + 1)
<1> SUFFICES ASSUME Len(s) > 0, NEW k \in s[Len(s)] + 1 .. (m + 1) - 1 PROVE k \in M
  BY DEF UpTo
<1>1. Len(s) \in DOMAIN s
  OBVIOUS
<1>2. s[Len(s)] \in Nat
  BY <1>1
<1>3. k = m \/ k \in s[Len(s)] + 1 .. m - 1
  BY <1>2
<1> QED BY <1>3 DEF UpTo

\* ... and what comes before it does.
LEMMA BelowNext ==
  ASSUME NEW s, NEW m \in Nat, NEW n \in Nat, m <= n, Below(s, m)
  PROVE  Below(s, n)
BY DEF Below

\* Files that lost some of their lines are in order still.
LEMMA StillOrdered ==
  ASSUME NEW fs \in Seq(Seq(Nat)), NEW gs \in Seq(Seq(Nat)), NEW m \in Nat, Ordered(fs, m),
         DOMAIN gs = DOMAIN fs,
         \A i \in DOMAIN fs : Rising(gs[i]) /\ ToSet(gs[i]) \subseteq ToSet(fs[i])
  PROVE  Ordered(gs, m)
<1>1. ASSUME NEW i \in DOMAIN gs PROVE Rising(gs[i]) /\ Below(gs[i], m)
  <2>1. Below(fs[i], m) /\ Rising(gs[i]) /\ ToSet(gs[i]) \subseteq ToSet(fs[i])
    BY DEF Ordered
  <2>2. \A x \in ToSet(fs[i]) : x \in 1 .. m - 1
    BY <2>1 DEF Below, ToSet
  <2>3. \A a \in DOMAIN gs[i] : gs[i][a] \in ToSet(gs[i])
    BY DEF ToSet
  <2> QED BY <2>1, <2>2, <2>3 DEF Below
<1>2. ASSUME NEW i \in DOMAIN gs, NEW j \in DOMAIN gs,
             NEW x \in ToSet(gs[i]), NEW y \in ToSet(gs[j]), i < j
      PROVE  x < y
  <2>1. x \in ToSet(fs[i]) /\ y \in ToSet(fs[j])
    OBVIOUS
  <2> QED BY <1>2, <2>1 DEF Ordered
<1> QED BY <1>1, <1>2 DEF Ordered

\* All the lines that are in files
Kept(fs) == UNION {ToSet(fs[i]) : i \in DOMAIN fs}

LEMMA KeptFacts ==
  ASSUME NEW fs, NEW k
  PROVE  k \in Kept(fs) <=> \E i \in DOMAIN fs : k \in ToSet(fs[i])
BY DEF Kept

\* The invariant gives the two properties that are not conjuncts of it.
LEMMA LogTells == LogInv => InOrder /\ TabShowsTheEnd /\ KeepsTheEnd
<1> SUFFICES ASSUME LogInv PROVE InOrder /\ TabShowsTheEnd
  BY DEF LogInv
<1> USE DEF LogInv
<1>1. InOrder
  <2> SUFFICES ASSUME NEW i \in DOMAIN files, NEW j \in DOMAIN files,
                      NEW a \in DOMAIN files[i], NEW b \in DOMAIN files[j],
                      i < j \/ (i = j /\ a < b)
               PROVE  files[i][a] < files[j][b]
    BY DEF InOrder
  <2>1. Ordered(files, next)
    BY DEF FilesInv
  <2>2. CASE i < j
    <3>1. files[i][a] \in ToSet(files[i]) /\ files[j][b] \in ToSet(files[j])
      BY DEF ToSet
    <3> QED BY <2>1, <2>2, <3>1 DEF Ordered
  <2>3. CASE i = j /\ a < b
    BY <2>1, <2>3 DEF Ordered, Rising
  <2> QED BY <2>2, <2>3
<1>2. TabShowsTheEnd
  <2>1. RingSize \in Nat
    BY LogAssumption
  <2>2. /\ shown \in Seq(Nat) /\ Rising(shown) /\ Below(shown, next) /\ Joined(shown, lost)
        /\ ring = Last_(RingSize, shown) /\ next \in Nat
    BY DEF TabInv, FilesInv, Ends
  <2>3. Joined(Last_(RingSize, shown), lost)
    BY <2>1, <2>2, LastKeeps
  <2> QED BY <2>2, <2>3 DEF TabShowsTheEnd, Joined
<1> QED BY <1>1, <1>2

LEMMA LogStarts == LogInit => LogInv
<1> SUFFICES ASSUME LogInit PROVE LogInv
  OBVIOUS
<1> USE DEF LogInit
<1>1. \A L, m : /\ Rising(<<>>) /\ Below(<<>>, m) /\ Ends(<<>>, L, m)
  BY DEF Rising, Below, Ends, Joined, UpTo
<1>2. files \in Seq(Seq(Nat)) /\ Len(files) = 1 /\ DOMAIN files = {1} /\ files[1] = <<>>
  OBVIOUS
<1>3. Ordered(files, next)
  BY <1>1, <1>2 DEF Ordered
<1>4. FilesInv
  BY <1>1, <1>2, <1>3 DEF FilesInv, Ends
<1>5. SnapshotInv /\ QueueInv
  BY DEF SnapshotInv, NoSnapshot, QueueInv
<1>6. ring = Last_(RingSize, shown)
  <2>1. RingSize \in Nat /\ shown \in Seq(Nat) /\ Len(shown) = 0
    BY LogAssumption
  <2>2. /\ Last_(RingSize, shown) \in Seq(Nat)
        /\ Len(Last_(RingSize, shown)) = IF Len(shown) > RingSize THEN RingSize ELSE Len(shown)
    BY <2>1, LastFacts
  <2>3. Len(Last_(RingSize, shown)) = 0
    BY <2>1, <2>2
  <2> HIDE DEF LogInit
  <2>4. Last_(RingSize, shown) = <<>>
    BY <2>2, <2>3
  <2> QED BY <2>4 DEF LogInit
<1>7. TabInv
  BY <1>1, <1>6 DEF TabInv
<1>8. KeepsTheEnd
  BY DEF KeepsTheEnd
<1> QED BY <1>4, <1>5, <1>7, <1>8 DEF LogInv

\* One file is replaced.
LEMMA ReplaceFile ==
  ASSUME NEW fs \in Seq(Seq(Nat)), NEW k \in DOMAIN fs, NEW x \in Seq(Nat)
  PROVE  LET gs == [fs EXCEPT ![k] = x]
         IN  /\ gs \in Seq(Seq(Nat)) /\ Len(gs) = Len(fs) /\ DOMAIN gs = DOMAIN fs
             /\ gs[k] = x /\ \A i \in DOMAIN fs \ {k} : gs[i] = fs[i]
OBVIOUS

\* A start shows the end of the newest file.
LEMMA LoadedTab ==
  ASSUME NEW fs \in Seq(Seq(Nat)), Len(fs) >= 1, NEW L, NEW m \in Nat,
         Ordered(fs, m), Ends(fs[Len(fs)], L, m)
  PROVE  /\ Loaded(fs) \in Seq(Nat) /\ Rising(Loaded(fs)) /\ Below(Loaded(fs), m)
         /\ Ends(Loaded(fs), L, m) /\ Loaded(fs) = Last_(RingSize, Loaded(fs))
<1> DEFINE s == fs[Len(fs)]
           t == Last_(LoadLines, s)
<1>0. LoadLines \in Nat /\ RingSize \in Nat /\ LoadLines <= RingSize
  BY LogAssumption
<1>1. Len(fs) \in DOMAIN fs /\ s \in Seq(Nat)
  OBVIOUS
<1>2. Rising(s) /\ Below(s, m) /\ Joined(s, L) /\ UpTo(s, L, m)
  BY <1>1 DEF Ordered, Ends
<1> HIDE DEF s
<1>3. Rising(t) /\ Below(t, m) /\ Joined(t, L) /\ UpTo(t, L, m)
  BY <1>0, <1>1, <1>2, LastKeeps
<1>4. t \in Seq(Nat) /\ Len(t) = (IF Len(s) > LoadLines THEN LoadLines ELSE Len(s))
  BY <1>0, <1>1, LastFacts
<1> HIDE DEF t
<1>5. Last_(RingSize, t) = t
  <2>1. Len(s) \in Nat /\ Len(t) \in Nat
    BY <1>1, <1>4
  <2>2. ~(Len(t) > RingSize)
    BY <1>0, <1>4, <2>1
  <2>3. Last_(RingSize, t) = SubSeq(t, 1, Len(t))
    BY <2>2 DEF Last_
  <2>4. SubSeq(t, 1, Len(t)) = t
    BY <1>4
  <2> QED BY <2>3, <2>4
<1>6. Loaded(fs) = t
  BY DEF Loaded, t, s
<1> QED BY <1>3, <1>4, <1>5, <1>6 DEF Ends

LEMMA LogStep == LogInv /\ Log => LogInv'
<1> SUFFICES ASSUME LogInv, Log PROVE LogInv'
  OBVIOUS
<1> DEFINE k == Len(files)
<1>1. /\ files \in Seq(Seq(Nat)) /\ k >= 1 /\ k \in DOMAIN files /\ next \in Nat \ {0}
      /\ Ordered(files, next) /\ Joined(files[k], lost) /\ UpTo(files[k], lost \cup queued, next)
      /\ files[k] \in Seq(Nat)
  BY DEF LogInv, FilesInv
<1>2. /\ next' = next + 1 /\ UNCHANGED <<files, snapshot, gap>>
      /\ ring' = Last_(RingSize, Append(ring, next)) /\ shown' = Append(shown, next)
      /\ lost \subseteq lost' /\ queued \subseteq queued'
      /\ queued' \subseteq queued \cup {next}
      /\ lost' \cup queued' = lost \cup queued \cup {next}
  BY DEF Log
<1>3. next + 1 \in Nat \ {0} /\ next \in Nat /\ next <= next + 1
  BY <1>1
<1>4. FilesInv'
  <2>1. Ordered(files, next + 1)
    BY <1>1, <1>3, BelowNext DEF Ordered
  <2>2. Joined(files[k], lost')
    BY <1>1, <1>2, MoreLost
  <2>3. UpTo(files[k], lost' \cup queued', next + 1)
    <3>1. (lost \cup queued) \cup {next} \subseteq lost' \cup queued'
      BY <1>2
    <3> HIDE DEF k
    <3> QED BY <1>1, <1>3, <3>1, OneMore
  <2> QED BY <1>1, <1>2, <1>3, <2>1, <2>2, <2>3 DEF FilesInv
<1>5. SnapshotInv'
  <2>0. SnapshotInv
    BY DEF LogInv
  <2>1. CASE snapshot.of = 0
    BY <1>2, <2>0, <2>1 DEF SnapshotInv, NoSnapshot
  <2>2. CASE snapshot.of # 0
    <3>1. /\ snapshot.of \in DOMAIN files /\ MaxLines > 0
          /\ snapshot.lines \in Seq(Nat) /\ Rising(snapshot.lines)
          /\ Joined(snapshot.lines, lost)
          /\ ToSet(files[snapshot.of]) = ToSet(snapshot.lines) \cup gap
          /\ snapshot.of = k => UpTo(snapshot.lines, lost \cup gap \cup queued, next)
      BY <2>0, <2>2 DEF SnapshotInv
    <3>2. Joined(snapshot.lines, lost')
      BY <1>2, <3>1, MoreLost
    <3>3. (lost \cup gap \cup queued) \cup {next} \subseteq lost' \cup gap \cup queued'
      BY <1>2
    <3>4. snapshot.of = k => UpTo(snapshot.lines, lost' \cup gap \cup queued', next + 1)
      BY <1>3, <3>1, <3>3, OneMore
    <3> QED BY <1>2, <2>2, <3>1, <3>2, <3>4 DEF SnapshotInv
  <2> QED BY <2>1, <2>2
<1>6. QueueInv'
  <2>0. /\ queued \subseteq 1 .. next - 1
        /\ \A i \in DOMAIN files : \A x \in ToSet(files[i]), y \in queued : x < y
        /\ \A x \in queued : \A y \in x + 1 .. next - 1 : y \in queued \cup lost
    BY DEF LogInv, QueueInv
  <2>1. queued' \subseteq 1 .. (next + 1) - 1
    BY <1>1, <1>2, <2>0
  <2>2. ASSUME NEW i \in DOMAIN files, NEW x \in ToSet(files[i]), NEW y \in queued' PROVE x < y
    <3>1. x \in 1 .. next - 1
      <4>1. Below(files[i], next)
        BY <1>1 DEF Ordered
      <4> QED BY <4>1 DEF Below, ToSet
    <3>2. CASE y = next
      BY <1>1, <3>1, <3>2
    <3>3. CASE y \in queued
      BY <2>0, <3>3
    <3> QED BY <1>2, <3>2, <3>3
  <2>3. ASSUME NEW x \in queued', NEW y \in x + 1 .. (next + 1) - 1 PROVE y \in queued' \cup lost'
    <3>1. x \in 1 .. next /\ (x = next \/ x \in queued)
      BY <1>1, <1>2, <2>0
    <3>2. y = next \/ (x \in queued /\ y \in x + 1 .. next - 1)
      BY <1>1, <3>1
    <3>3. y = next \/ y \in queued \cup lost
      BY <2>0, <3>2
    <3> QED BY <1>2, <3>3
  <2> QED BY <1>2, <2>1, <2>2, <2>3 DEF QueueInv
<1>7. TabInv'
  <2>1. /\ shown \in Seq(Nat) /\ Rising(shown) /\ Below(shown, next)
        /\ Joined(shown, lost) /\ UpTo(shown, lost, next) /\ ring = Last_(RingSize, shown)
    BY DEF LogInv, TabInv, Ends
  <2>2. /\ Append(shown, next) \in Seq(Nat) /\ Rising(Append(shown, next))
        /\ Below(Append(shown, next), next + 1)
        /\ Joined(Append(shown, next), lost) /\ UpTo(Append(shown, next), lost, next + 1)
    BY <1>1, <2>1, AppendKeeps
  <2>3. Last_(RingSize, Append(ring, next)) = Last_(RingSize, Append(shown, next))
    <3>1. RingSize \in Nat /\ next \in Nat
      BY <1>1, LogAssumption
    <3> QED BY <2>1, <3>1, LastAppend
  <2>4. Joined(Append(shown, next), lost') /\ UpTo(Append(shown, next), lost', next + 1)
    BY <1>2, <2>2, MoreLost
  <2> QED BY <1>2, <2>2, <2>3, <2>4 DEF TabInv, Ends
<1>8. KeepsTheEnd'
  <2>0. KeepsTheEnd /\ MaxLines \in Nat
    BY LogAssumption DEF LogInv
  <2> SUFFICES ASSUME NEW y \in 1 .. next, MaxLines = 0 \/ y > next - MaxLines
               PROVE  y \in Kept(files) \cup queued' \cup lost'
    <3>1. 1 .. next' - 1 = 1 .. next /\ next' - 1 = next /\ files' = files
      BY <1>1, <1>2
    <3> QED BY Zenon, <3>1 DEF KeepsTheEnd, Kept
  <2>1. CASE y = next
    BY <1>2, <2>1
  <2>2. CASE y # next
    <3>1. y \in 1 .. next - 1 /\ (MaxLines = 0 \/ y > next - 1 - MaxLines)
      BY <1>1, <2>0, <2>2
    <3>2. y \in Kept(files) \cup queued \cup lost
      BY <2>0, <3>1 DEF KeepsTheEnd, Kept
    <3> QED BY <1>2, <3>2
  <2> QED BY <2>1, <2>2
<1> QED BY <1>4, <1>5, <1>6, <1>7, <1>8 DEF LogInv

LEMMA WorkStep == LogInv /\ Work => LogInv'
<1> SUFFICES ASSUME LogInv, Work PROVE LogInv'
  OBVIOUS
<1> DEFINE k == Len(files)
<1>1. /\ files \in Seq(Seq(Nat)) /\ k \in DOMAIN files /\ k \in Nat \ {0} /\ next \in Nat \ {0}
      /\ DOMAIN files = 1 .. k
      /\ Ordered(files, next) /\ Joined(files[k], lost) /\ UpTo(files[k], lost \cup queued, next)
      /\ files[k] \in Seq(Nat) /\ Rising(files[k]) /\ Below(files[k], next)
  <2>1. k \in DOMAIN files
    BY DEF LogInv, FilesInv
  <2> QED BY <2>1 DEF LogInv, FilesInv, Ordered
<1>2. /\ queued \subseteq 1 .. next - 1
      /\ \A i \in DOMAIN files : \A a \in ToSet(files[i]), b \in queued : a < b
      /\ \A a \in queued : \A b \in a + 1 .. next - 1 : b \in queued \cup lost
  BY DEF LogInv, QueueInv
<1>3. PICK m \in queued :
        /\ \A later \in queued : m <= later
        /\ queued' = queued \ {m}
        /\ files' = [files EXCEPT ![k] = Append(@, m)]
        /\ gap'   = IF snapshot.of = k THEN gap \cup {m} ELSE gap
        /\ UNCHANGED <<snapshot, lost, ring, shown, next>>
  BY DEF Work
<1> DEFINE x == Append(files[k], m)
<1>4. m \in 1 .. next - 1 /\ m \in Nat \ {0} /\ m + 1 <= next /\ m + 1 \in Nat /\ next \in Nat
  BY <1>1, <1>2
<1>5. Below(files[k], m)
  <2>1. \A a \in DOMAIN files[k] : files[k][a] \in ToSet(files[k])
    BY DEF ToSet
  <2>2. \A a \in DOMAIN files[k] : files[k][a] < m /\ files[k][a] \in 1 .. next - 1
    BY <1>1, <1>2, <1>3, <2>1 DEF Below
  <2> QED BY <1>4, <2>2 DEF Below
<1>6. UpTo(files[k], lost, m)
  <2> SUFFICES ASSUME Len(files[k]) > 0, NEW y \in files[k][Len(files[k])] + 1 .. m - 1 PROVE y \in lost
    BY DEF UpTo
  <2>1. Len(files[k]) \in DOMAIN files[k]
    BY <1>1
  <2>2. files[k][Len(files[k])] \in Nat
    BY <1>1, <2>1
  <2>3. y \in files[k][Len(files[k])] + 1 .. next - 1 /\ ~(m <= y)
    BY <1>4, <2>2
  <2>4. y \in lost \cup queued
    BY <1>1, <2>3 DEF UpTo
  <2> QED BY <1>3, <2>3, <2>4
<1>7. /\ x \in Seq(Nat) /\ Rising(x) /\ Below(x, m + 1) /\ Joined(x, lost)
      /\ ToSet(x) = ToSet(files[k]) \cup {m}
  BY <1>1, <1>4, <1>5, <1>6, AppendKeeps
<1>8. UpTo(x, lost \cup queued', next)
  <2>1. Len(x) > 0 /\ x[Len(x)] = m
    BY <1>1
  <2>2. ASSUME NEW y \in m + 1 .. next - 1 PROVE y \in lost \cup queued'
    <3>1. y \in queued \cup lost
      BY <1>2
    <3>2. y # m
      BY <1>4
    <3> QED BY <1>3, <3>1, <3>2
  <2> QED BY <2>1, <2>2 DEF UpTo
<1> HIDE DEF k, x
<1>9. /\ files' \in Seq(Seq(Nat)) /\ Len(files') = k /\ DOMAIN files' = DOMAIN files
      /\ files'[k] = x /\ \A i \in DOMAIN files \ {k} : files'[i] = files[i]
  <2>1. files' = [files EXCEPT ![k] = x]
    BY <1>3 DEF x
  <2> QED BY <1>1, <1>7, <2>1, ReplaceFile DEF k
<1>10. Ordered(files', next)
  <2>1. ASSUME NEW i \in DOMAIN files' PROVE Rising(files'[i]) /\ Below(files'[i], next)
    <3>1. CASE i = k
      BY <1>4, <1>7, <1>9, <3>1, BelowNext
    <3>2. CASE i # k
      BY <1>1, <1>9, <3>2 DEF Ordered
    <3> QED BY <3>1, <3>2
  <2>2. ASSUME NEW i \in DOMAIN files', NEW j \in DOMAIN files',
               NEW a \in ToSet(files'[i]), NEW b \in ToSet(files'[j]), i < j
        PROVE  a < b
    <3>1. i # k /\ files'[i] = files[i] /\ i \in DOMAIN files /\ j \in DOMAIN files
      BY <1>1, <1>9, <2>2
    <3>2. CASE j = k
      <4>1. b \in ToSet(files[k]) \/ b = m
        BY <1>7, <1>9, <3>2
      <4> QED BY <1>1, <1>2, <1>3, <2>2, <3>1, <3>2, <4>1 DEF Ordered
    <3>3. CASE j # k
      <4>1. files'[j] = files[j]
        BY <1>9, <3>1, <3>3
      <4> QED BY <1>1, <2>2, <3>1, <4>1 DEF Ordered
    <3> QED BY <3>2, <3>3
  <2> QED BY <2>1, <2>2 DEF Ordered
<1>11. FilesInv'
  <2>1. files'[Len(files')] = x /\ Len(files') >= 1 /\ lost' = lost /\ next' = next
    BY <1>1, <1>3, <1>9
  <2>2. Joined(files'[Len(files')], lost') /\ UpTo(files'[Len(files')], lost' \cup queued', next')
    BY <1>7, <1>8, <2>1
  <2> QED BY <1>1, <1>9, <1>10, <2>1, <2>2 DEF FilesInv
<1>12. SnapshotInv'
  <2>0. SnapshotInv
    BY DEF LogInv
  <2>1. CASE snapshot.of = 0
    BY <1>3, <2>0, <2>1 DEF SnapshotInv, NoSnapshot
  <2>2. CASE snapshot.of # 0
    <3>1. /\ snapshot.of \in DOMAIN files /\ MaxLines > 0
          /\ snapshot.lines \in Seq(Nat) /\ Rising(snapshot.lines)
          /\ Joined(snapshot.lines, lost)
          /\ ToSet(files[snapshot.of]) = ToSet(snapshot.lines) \cup gap
          /\ snapshot.of = k => UpTo(snapshot.lines, lost \cup gap \cup queued, next)
      BY <2>0, <2>2 DEF SnapshotInv, k
    <3>2. CASE snapshot.of = k
      <4>1. gap' = gap \cup {m} /\ ToSet(files'[k]) = ToSet(snapshot.lines) \cup gap'
        BY <1>3, <1>7, <1>9, <3>1, <3>2
      <4>2. lost \cup gap \cup queued \subseteq lost \cup gap' \cup queued'
        BY <1>3, <4>1
      <4>3. UpTo(snapshot.lines, lost \cup gap' \cup queued', next)
        BY <3>1, <3>2, <4>2, MoreLost
      <4> QED BY <1>3, <1>9, <2>2, <3>1, <3>2, <4>1, <4>3 DEF SnapshotInv
    <3>3. CASE snapshot.of # k
      <4>1. gap' = gap /\ files'[snapshot.of] = files[snapshot.of]
        BY <1>3, <1>9, <3>1, <3>3
      <4> QED BY <1>3, <1>9, <2>2, <3>1, <3>3, <4>1 DEF SnapshotInv
    <3> QED BY <3>2, <3>3
  <2> QED BY <2>1, <2>2
<1>13. QueueInv'
  <2>1. queued' \subseteq 1 .. next - 1
    BY <1>2, <1>3
  <2>2. ASSUME NEW i \in DOMAIN files, NEW a \in ToSet(files'[i]), NEW b \in queued' PROVE a < b
    <3>1. b \in queued /\ b # m /\ m <= b /\ b \in Nat
      BY <1>2, <1>3
    <3>2. a \in ToSet(files[i]) \/ a = m
      BY <1>7, <1>9
    <3> QED BY <1>2, <1>4, <3>1, <3>2
  <2>3. ASSUME NEW a \in queued', NEW b \in a + 1 .. next - 1 PROVE b \in queued' \cup lost
    <3>1. a \in queued /\ m <= a /\ a \in Nat
      BY <1>2, <1>3
    <3>2. b \in queued \cup lost /\ b # m
      BY <1>2, <1>4, <3>1
    <3> QED BY <1>3, <3>2
  <2> QED BY <1>3, <1>9, <2>1, <2>2, <2>3 DEF QueueInv
<1>14. TabInv'
  BY <1>3 DEF LogInv, TabInv
<1>15. KeepsTheEnd'
  <2>1. ASSUME NEW y, y \in Kept(files) PROVE y \in Kept(files')
    <3>1. PICK i \in DOMAIN files : y \in ToSet(files[i])
      BY <2>1, KeptFacts
    <3>2. y \in ToSet(files'[i])
      BY <1>7, <1>9, <3>1
    <3> QED BY <1>9, <3>2, KeptFacts
  <2>2. m \in Kept(files')
    <3>1. m \in ToSet(files'[k])
      BY <1>7, <1>9
    <3> QED BY <1>1, <1>9, <3>1, KeptFacts
  <2>3. Kept(files) \cup queued \cup lost \subseteq Kept(files') \cup queued' \cup lost'
    BY <1>3, <2>1, <2>2
  <2>4. KeepsTheEnd
    BY DEF LogInv
  <2> QED BY <1>3, <2>3, <2>4 DEF KeepsTheEnd, Kept
<1> QED BY <1>11, <1>12, <1>13, <1>14, <1>15 DEF LogInv

LEMMA NewDayStep == LogInv /\ NewDay => LogInv'
<1> SUFFICES ASSUME LogInv, NewDay PROVE LogInv'
  OBVIOUS
<1> DEFINE k == Len(files)
<1>1. /\ files \in Seq(Seq(Nat)) /\ k \in Nat \ {0} /\ next \in Nat \ {0} /\ DOMAIN files = 1 .. k
      /\ Ordered(files, next)
  BY DEF LogInv, FilesInv
<1>2. files' = Append(files, <<>>) /\ UNCHANGED <<snapshot, gap, queued, lost, ring, shown, next>>
  BY DEF NewDay
<1> HIDE DEF k
<1>3. /\ files' \in Seq(Seq(Nat)) /\ Len(files') = k + 1 /\ DOMAIN files' = 1 .. k + 1
      /\ files'[k + 1] = <<>> /\ \A i \in DOMAIN files : files'[i] = files[i]
  BY <1>1, <1>2 DEF k
<1>4. \A L, m : Rising(<<>>) /\ Below(<<>>, m) /\ Ends(<<>>, L, m)
  BY DEF Rising, Below, Ends, Joined, UpTo
<1>5. /\ \A i \in DOMAIN files' : i \in DOMAIN files \/ i = k + 1
      /\ \A i \in DOMAIN files : i \in DOMAIN files'
      /\ \A i \in DOMAIN files : ~ (k + 1 < i)
  BY <1>1, <1>3
<1>6. Ordered(files', next')
  <2>1. ASSUME NEW i \in DOMAIN files' PROVE Rising(files'[i]) /\ Below(files'[i], next)
    BY <1>1, <1>3, <1>4, <1>5 DEF Ordered
  <2>2. ASSUME NEW i \in DOMAIN files', NEW j \in DOMAIN files',
               NEW a \in ToSet(files'[i]), NEW b \in ToSet(files'[j]), i < j
        PROVE  a < b
    <3>0. ToSet(<<>>) = {}
      BY DEF ToSet
    <3>1. i # k + 1 /\ j # k + 1
      BY <1>3, <3>0
    <3>2. i \in DOMAIN files /\ j \in DOMAIN files /\ files'[i] = files[i] /\ files'[j] = files[j]
      BY <1>3, <1>5, <3>1
    <3> QED BY <1>1, <2>2, <3>2 DEF Ordered
  <2> QED BY <1>2, <2>1, <2>2 DEF Ordered
<1>7. FilesInv'
  <2>1. Joined(files'[Len(files')], lost') /\ UpTo(files'[Len(files')], lost' \cup queued', next')
    BY <1>3, <1>4 DEF Ends
  <2> QED BY <1>1, <1>2, <1>3, <1>6, <2>1 DEF FilesInv
<1>8. SnapshotInv'
  <2>0. SnapshotInv
    BY DEF LogInv
  <2>1. CASE snapshot.of = 0
    BY <1>2, <2>0, <2>1 DEF SnapshotInv, NoSnapshot
  <2>2. CASE snapshot.of # 0
    <3>1. snapshot.of \in DOMAIN files /\ snapshot.of # k + 1
      BY <1>1, <2>0, <2>2 DEF SnapshotInv
    <3> QED BY <1>2, <1>3, <1>5, <2>0, <2>2, <3>1 DEF SnapshotInv
  <2> QED BY <2>1, <2>2
<1>9. TabInv'
  BY <1>2 DEF LogInv, TabInv
<1>10. KeepsTheEnd'
  <2>1. \A y : y \in Kept(files) => y \in Kept(files')
    BY <1>3, <1>5, KeptFacts
  <2>2. KeepsTheEnd
    BY DEF LogInv
  <2> QED BY <1>2, <2>1, <2>2 DEF KeepsTheEnd, Kept
<1>11. QueueInv'
  <2>1. QueueInv
    BY DEF LogInv
  <2>2. ToSet(<<>>) = {}
    BY DEF ToSet
  <2>3. ASSUME NEW i \in DOMAIN files', NEW x \in ToSet(files'[i]), NEW y \in queued PROVE x < y
    <3>1. i \in DOMAIN files /\ files'[i] = files[i]
      BY <1>3, <1>5, <2>2
    <3> QED BY <2>1, <3>1 DEF QueueInv
  <2> QED BY <1>2, <2>1, <2>3 DEF QueueInv
<1> QED BY <1>7, <1>8, <1>9, <1>10, <1>11 DEF LogInv

LEMMA ReadBackStep == LogInv /\ ReadBack => LogInv'
<1> SUFFICES ASSUME LogInv, ReadBack PROVE LogInv'
  OBVIOUS
<1>1. /\ files \in Seq(Seq(Nat)) /\ Len(files) \in DOMAIN files
      /\ Ordered(files, next) /\ MaxLines > 0
      /\ Joined(files[Len(files)], lost) /\ UpTo(files[Len(files)], lost \cup queued, next)
      /\ Len(files) # 0 /\ files[Len(files)] \in Seq(Nat)
  BY DEF LogInv, FilesInv, ReadBack
<1>2. /\ snapshot' = [of |-> Len(files), lines |-> files[Len(files)]] /\ gap' = {}
      /\ UNCHANGED <<files, queued, lost, ring, shown, next>>
  BY DEF ReadBack
<1>3. FilesInv' /\ QueueInv' /\ TabInv' /\ KeepsTheEnd'
  <2>1. FilesInv /\ QueueInv /\ TabInv /\ KeepsTheEnd
    BY DEF LogInv
  <2>2. FilesInv' /\ QueueInv' /\ TabInv'
    BY <1>2, <2>1 DEF FilesInv, QueueInv, TabInv
  <2>3. KeepsTheEnd'
    BY <1>2, <2>1 DEF KeepsTheEnd
  <2> QED BY <2>2, <2>3
<1>4. SnapshotInv'
  <2>1. Rising(files[Len(files)]) /\ Joined(files[Len(files)], lost)
        /\ UpTo(files[Len(files)], lost \cup queued, next)
    BY <1>1 DEF Ordered
  <2>2. snapshot'.of = Len(files) /\ snapshot'.lines = files[Len(files)]
    BY <1>2
  <2>3. lost \cup gap' \cup queued = lost \cup queued /\ ToSet(files[Len(files)]) \cup gap' = ToSet(files[Len(files)])
    BY <1>2
  <2> QED BY <1>1, <1>2, <2>1, <2>2, <2>3 DEF SnapshotInv
<1> QED BY <1>3, <1>4 DEF LogInv

LEMMA RestartStep == LogInv /\ Restart => LogInv'
<1> SUFFICES ASSUME LogInv, Restart PROVE LogInv'
  OBVIOUS
<1>1. /\ files \in Seq(Seq(Nat)) /\ Len(files) >= 1 /\ next \in Nat
      /\ Ordered(files, next) /\ Joined(files[Len(files)], lost)
      /\ UpTo(files[Len(files)], lost \cup queued, next)
  BY DEF LogInv, FilesInv
<1>2. /\ ring' = Loaded(files) /\ shown' = Loaded(files) /\ snapshot' = NoSnapshot
      /\ queued' = {} /\ lost' = lost \cup queued /\ UNCHANGED <<files, gap, next>>
  BY DEF Restart
<1>3. Joined(files[Len(files)], lost') /\ UpTo(files[Len(files)], lost', next)
  <2>1. lost \subseteq lost' /\ lost' = lost \cup queued
    BY <1>2
  <2> QED BY <1>1, <2>1, MoreLost
<1>4. TabInv'
  <2>1. /\ Loaded(files) \in Seq(Nat) /\ Rising(Loaded(files)) /\ Below(Loaded(files), next)
        /\ Ends(Loaded(files), lost', next) /\ Loaded(files) = Last_(RingSize, Loaded(files))
    BY <1>1, <1>3, LoadedTab DEF Ends
  <2> QED BY <1>2, <2>1 DEF TabInv
<1>5. FilesInv' /\ SnapshotInv' /\ QueueInv' /\ KeepsTheEnd'
  <2>1. FilesInv /\ KeepsTheEnd
    BY DEF LogInv
  <2>2. lost' \cup queued' = lost'
    BY <1>2
  <2>3. FilesInv'
    BY <1>2, <1>3, <2>1, <2>2 DEF FilesInv
  <2>4. SnapshotInv' /\ QueueInv'
    BY <1>2 DEF SnapshotInv, NoSnapshot, QueueInv
  <2>5. \A S : S \cup queued \cup lost = S \cup queued' \cup lost'
    BY <1>2
  <2>6. KeepsTheEnd'
    BY <1>2, <2>1, <2>5 DEF KeepsTheEnd
  <2> QED BY <2>3, <2>4, <2>6
<1> QED BY <1>4, <1>5 DEF LogInv

\* What a rotation leaves of a file is in order, was there before, and misses
\* only lines that MaxLines later ones follow.
LEMMA CutFacts ==
  ASSUME NEW s \in Seq(Nat), NEW m \in Nat, Rising(s), Below(s, m)
  PROVE  /\ Cut(s) \in Seq(Nat) /\ Rising(Cut(s)) /\ ToSet(Cut(s)) \subseteq ToSet(s)
         /\ \A k \in ToSet(s) \ ToSet(Cut(s)) : k <= m - 1 - MaxLines
         /\ \A L : Joined(s, L) => Joined(Cut(s), L)
         /\ \A L : Joined(s, L) /\ UpTo(s, L, m) => UpTo(Cut(s), L, m)
<1>1. MaxLines \in Nat
  BY LogAssumption
<1>2. Joined(s, Int)
  <2>1. \A a \in 1 .. Len(s) - 1 : s[a] \in Nat /\ s[a + 1] \in Nat
    OBVIOUS
  <2> QED BY <2>1 DEF Joined
<1>3. Cut(s) \in Seq(Nat)
  BY <1>1, LastFacts DEF Cut
<1>4. /\ Rising(Cut(s)) /\ ToSet(Cut(s)) \subseteq ToSet(s)
      /\ \A k \in ToSet(s) \ ToSet(Cut(s)) : k <= m - 1 - MaxLines
  BY <1>1, <1>2, LastKeeps DEF Cut
<1>5. ASSUME NEW L, Joined(s, L)
      PROVE  Joined(Cut(s), L) /\ (UpTo(s, L, m) => UpTo(Cut(s), L, m))
  BY <1>1, <1>5, LastKeeps DEF Cut
<1> QED BY <1>3, <1>4, <1>5

LEMMA WriteBackStep == LogInv /\ WriteBack => LogInv'
<1> SUFFICES ASSUME LogInv, WriteBack PROVE LogInv'
  OBVIOUS
<1> DEFINE o == snapshot.of
           l == snapshot.lines
           tooLong == Len(l) > MaxLines
<1>1. /\ files \in Seq(Seq(Nat)) /\ Len(files) >= 1 /\ next \in Nat \ {0}
      /\ Ordered(files, next) /\ Joined(files[Len(files)], lost)
      /\ UpTo(files[Len(files)], lost \cup queued, next)
      /\ \A i \in DOMAIN files : files[i] \in Seq(Nat) /\ Rising(files[i]) /\ Below(files[i], next)
  BY DEF LogInv, FilesInv, Ordered
<1>2. /\ o \in DOMAIN files /\ MaxLines > 0 /\ l \in Seq(Nat) /\ Rising(l) /\ Joined(l, lost)
      /\ ToSet(files[o]) = ToSet(l) \cup gap
      /\ o = Len(files) => UpTo(l, lost \cup gap \cup queued, next)
  BY DEF LogInv, SnapshotInv, WriteBack
<1>3. /\ files' = [i \in DOMAIN files |->
                     CASE i < o              -> Cut(files[i])
                       [] i = o /\ tooLong   -> Cut(l)
                       [] OTHER              -> files[i]]
      /\ lost' = IF tooLong THEN lost \cup gap ELSE lost
      /\ snapshot' = NoSnapshot /\ UNCHANGED <<gap, queued, ring, shown, next>>
  BY Zenon DEF WriteBack
<1> HIDE DEF o, l, tooLong
<1>4. Below(l, next)
  <2>1. \A y \in ToSet(files[o]) : y \in 1 .. next - 1
    BY <1>1, <1>2 DEF Below, ToSet
  <2>2. \A a \in DOMAIN l : l[a] \in ToSet(l)
    BY DEF ToSet
  <2> QED BY <1>2, <2>1, <2>2 DEF Below
<1>5. /\ DOMAIN files' = DOMAIN files
      /\ \A i \in DOMAIN files : i < o => files'[i] = Cut(files[i])
      /\ tooLong => files'[o] = Cut(l)
      /\ \A i \in DOMAIN files : ~(i < o) /\ ~(i = o /\ tooLong) => files'[i] = files[i]
  <2>1. DOMAIN files = 1 .. Len(files) /\ Len(files) \in Nat
    BY <1>1
  <2>2. ~(o < o)
    BY <1>2, <2>1
  <2> QED BY <1>2, <1>3, <2>2
<1>6. \A s \in {files[i] : i \in DOMAIN files} \cup {l} :
        /\ Cut(s) \in Seq(Nat) /\ Rising(Cut(s)) /\ ToSet(Cut(s)) \subseteq ToSet(s)
        /\ \A k \in ToSet(s) \ ToSet(Cut(s)) : k <= next - 1 - MaxLines
        /\ \A L : Joined(s, L) => Joined(Cut(s), L)
        /\ \A L : Joined(s, L) /\ UpTo(s, L, next) => UpTo(Cut(s), L, next)
  <2> SUFFICES ASSUME NEW s \in {files[i] : i \in DOMAIN files} \cup {l}
               PROVE  /\ Cut(s) \in Seq(Nat) /\ Rising(Cut(s)) /\ ToSet(Cut(s)) \subseteq ToSet(s)
                      /\ \A k \in ToSet(s) \ ToSet(Cut(s)) : k <= next - 1 - MaxLines
                      /\ \A L : Joined(s, L) => Joined(Cut(s), L)
                      /\ \A L : Joined(s, L) /\ UpTo(s, L, next) => UpTo(Cut(s), L, next)
    BY Zenon
  <2>1. s \in Seq(Nat) /\ Rising(s) /\ Below(s, next) /\ next \in Nat
    BY <1>1, <1>2, <1>4
  <2> QED BY <2>1, CutFacts
<1>7. ASSUME NEW i \in DOMAIN files
      PROVE  /\ files'[i] \in Seq(Nat) /\ Rising(files'[i]) /\ ToSet(files'[i]) \subseteq ToSet(files[i])
             /\ \A k \in ToSet(files[i]) \ ToSet(files'[i]) : k <= next - 1 - MaxLines \/ k \in lost'
  <2>1. CASE i < o
    <3>1. files'[i] = Cut(files[i])
      BY <1>5, <2>1
    <3> QED BY <1>6, <3>1
  <2>2. CASE i = o /\ tooLong
    <3>1. files'[i] = Cut(l) /\ ToSet(files[i]) = ToSet(l) \cup gap /\ lost' = lost \cup gap
      BY <1>2, <1>3, <1>5, <2>2
    <3> QED BY <1>6, <3>1
  <2>3. CASE ~(i < o) /\ ~(i = o /\ tooLong)
    <3>1. files'[i] = files[i]
      BY <1>5, <2>3
    <3> QED BY <1>1, <3>1
  <2> QED BY <2>1, <2>2, <2>3
<1>8. files' \in Seq(Seq(Nat)) /\ Len(files') = Len(files)
  <2>1. DOMAIN files = 1 .. Len(files) /\ Len(files) \in Nat
    BY <1>1
  <2>2. files' \in [1 .. Len(files) -> Seq(Nat)]
    BY <1>3, <1>7, <2>1
  <2> QED BY <2>1, <2>2
<1>9. lost \subseteq lost'
  BY <1>3
<1>10. Ordered(files', next)
  BY <1>1, <1>5, <1>7, <1>8, StillOrdered
<1>11. Joined(files'[Len(files)], lost') /\ UpTo(files'[Len(files)], lost' \cup queued, next)
  <2> DEFINE k == Len(files)
  <2>1. k \in DOMAIN files /\ ~(k < o)
    BY <1>1, <1>2
  <2>2. CASE k = o /\ tooLong
    <3>1. files'[k] = Cut(l) /\ lost' = lost \cup gap
      BY <1>3, <1>5, <2>2
    <3>2. Joined(l, lost') /\ UpTo(l, lost' \cup queued, next)
      BY <1>2, <2>2, <3>1, <1>9, MoreLost
    <3>3. Joined(l, lost' \cup queued)
      BY <3>2, MoreLost
    <3> QED BY <1>6, <3>1, <3>2, <3>3
  <2>3. CASE ~(k = o /\ tooLong)
    <3>1. files'[k] = files[k]
      BY <1>5, <2>1, <2>3
    <3>2. lost \cup queued \subseteq lost' \cup queued
      BY <1>9
    <3> QED BY <1>1, <1>9, <3>1, <3>2, MoreLost
  <2> QED BY <2>2, <2>3
<1>12. FilesInv'
  BY <1>1, <1>3, <1>8, <1>10, <1>11 DEF FilesInv
<1>13. SnapshotInv' /\ QueueInv'
  <2>1. QueueInv
    BY DEF LogInv
  <2>2. \A i \in DOMAIN files' : ToSet(files'[i]) \subseteq ToSet(files[i])
    BY <1>5, <1>7
  <2>3. QueueInv'
    BY <1>3, <1>5, <1>9, <2>1, <2>2 DEF QueueInv
  <2>4. SnapshotInv'
    BY <1>3 DEF SnapshotInv, NoSnapshot
  <2> QED BY <2>3, <2>4
<1>14. TabInv'
  BY <1>3, <1>9, MoreLost DEF LogInv, TabInv
<1>15. KeepsTheEnd'
  <2>0. KeepsTheEnd /\ MaxLines \in Nat
    BY LogAssumption DEF LogInv
  <2> SUFFICES ASSUME NEW y \in 1 .. next - 1, MaxLines = 0 \/ y > next - 1 - MaxLines
               PROVE  y \in Kept(files') \cup queued \cup lost'
    BY <1>3 DEF KeepsTheEnd, Kept
  <2>1. y > next - 1 - MaxLines
    BY <1>2
  <2>2. y \in Kept(files) \cup queued \cup lost
    BY <2>0, <2>1 DEF KeepsTheEnd, Kept
  <2>3. CASE y \in lost
    BY <1>9, <2>3
  <2>4. ASSUME NEW i \in DOMAIN files, y \in ToSet(files[i]) PROVE y \in ToSet(files'[i]) \/ y \in lost'
    <3>1. ~(y <= next - 1 - MaxLines)
      BY <1>1, <2>0, <2>1
    <3> QED BY <1>7, <2>4, <3>1
  <2> QED BY <1>5, <2>2, <2>3, <2>4, KeptFacts
<1> QED BY <1>12, <1>13, <1>14, <1>15 DEF LogInv

LEMMA CrashStep == LogInv /\ CrashInWriteBack => LogInv'
<1> SUFFICES ASSUME LogInv, CrashInWriteBack PROVE LogInv'
  OBVIOUS
<1> DEFINE o == snapshot.of
<1>1. /\ files \in Seq(Seq(Nat)) /\ Len(files) >= 1 /\ next \in Nat \ {0}
      /\ Ordered(files, next) /\ Joined(files[Len(files)], lost)
      /\ UpTo(files[Len(files)], lost \cup queued, next)
      /\ \A i \in DOMAIN files : Rising(files[i]) /\ files[i] \in Seq(Nat)
  BY DEF LogInv, FilesInv, Ordered
<1>2. o \in DOMAIN files
  <2>1. o # 0
    <3>1. MaxLines \in Nat
      BY LogAssumption
    <3>2. snapshot = NoSnapshot => Len(snapshot.lines) = 0
      BY DEF NoSnapshot
    <3> QED BY <3>1, <3>2 DEF LogInv, SnapshotInv, CrashInWriteBack
  <2> QED BY <2>1 DEF LogInv, SnapshotInv
<1>3. /\ files' = [files EXCEPT ![o] = <<>>] /\ lost' = lost \cup ToSet(files[o]) \cup queued
      /\ queued' = {}
      /\ ring' = Loaded(files') /\ shown' = Loaded(files') /\ snapshot' = NoSnapshot
      /\ UNCHANGED <<gap, next>>
  BY DEF CrashInWriteBack
<1> HIDE DEF o
<1>4. /\ files' \in Seq(Seq(Nat)) /\ Len(files') = Len(files) /\ DOMAIN files' = DOMAIN files
      /\ files'[o] = <<>> /\ \A i \in DOMAIN files \ {o} : files'[i] = files[i]
  BY <1>1, <1>2, <1>3, ReplaceFile
<1>5. \A L, m : Rising(<<>>) /\ Ends(<<>>, L, m) /\ ToSet(<<>>) = {}
  BY DEF Rising, Ends, Joined, UpTo, ToSet
<1>6. Ordered(files', next)
  <2>1. \A i \in DOMAIN files : Rising(files'[i]) /\ ToSet(files'[i]) \subseteq ToSet(files[i])
    BY <1>1, <1>4, <1>5
  <2> QED BY <1>1, <1>4, <2>1, StillOrdered
<1>7. Ends(files'[Len(files)], lost', next)
  <2>1. CASE o = Len(files)
    BY <1>4, <1>5, <2>1
  <2>2. CASE o # Len(files)
    <3>1. files'[Len(files)] = files[Len(files)]
      BY <1>1, <1>4, <2>2
    <3>2. lost \subseteq lost' /\ lost \cup queued \subseteq lost'
      BY <1>3
    <3> QED BY <1>1, <3>1, <3>2, MoreLost DEF Ends
  <2> QED BY <2>1, <2>2
<1>8. FilesInv'
  <2>1. lost' \cup queued' = lost'
    BY <1>3
  <2> QED BY <1>1, <1>3, <1>4, <1>6, <1>7, <2>1 DEF FilesInv, Ends
<1>9. SnapshotInv' /\ QueueInv'
  BY <1>3 DEF SnapshotInv, NoSnapshot, QueueInv
<1>10. TabInv'
  <2>1. /\ Loaded(files') \in Seq(Nat) /\ Rising(Loaded(files')) /\ Below(Loaded(files'), next)
        /\ Ends(Loaded(files'), lost', next) /\ Loaded(files') = Last_(RingSize, Loaded(files'))
    BY <1>1, <1>4, <1>6, <1>7, LoadedTab
  <2> QED BY <1>3, <2>1 DEF TabInv
<1>11. KeepsTheEnd'
  <2>0. KeepsTheEnd
    BY DEF LogInv
  <2>1. ASSUME NEW y, y \in Kept(files) PROVE y \in Kept(files') \cup lost'
    <3>1. PICK i \in DOMAIN files : y \in ToSet(files[i])
      BY <2>1, KeptFacts
    <3>2. CASE i = o
      BY <1>3, <3>1, <3>2
    <3>3. CASE i # o
      BY <1>4, <3>1, <3>3, KeptFacts
    <3> QED BY <3>2, <3>3
  <2>2. Kept(files) \cup queued \cup lost \subseteq Kept(files') \cup queued' \cup lost'
    BY <1>3, <2>1
  <2> QED BY <1>3, <2>0, <2>2 DEF KeepsTheEnd, Kept
<1> QED BY <1>8, <1>9, <1>10, <1>11 DEF LogInv

LEMMA LogSteps == LogInv /\ [LogNext]_logVars => LogInv'
<1> SUFFICES ASSUME LogInv, [LogNext]_logVars PROVE LogInv'
  OBVIOUS
<1>1. CASE LogNext
  BY <1>1, LogStep, WorkStep, NewDayStep, ReadBackStep, WriteBackStep, RestartStep, CrashStep DEF LogNext
<1>2. CASE UNCHANGED logVars
  BY <1>2 DEF LogInv, FilesInv, SnapshotInv, QueueInv, TabInv, KeepsTheEnd, logVars
<1> QED BY <1>1, <1>2

-----------------------------------------------------------------------------
(***************************************************************************)
(* The transfer history and its file                                       *)
(***************************************************************************)

Jsons == {Json(r) : r \in Records}

\* What is written is read back.
LEMMA JsonRecord ==
  /\ \A r \in Records : Record(Json(r)) = r /\ Json(r).file = r.id
  /\ \A json \in Jsons : Record(json) \in Records /\ Record(json).id = json.file
<1>1. ASSUME NEW r \in Records PROVE Record(Json(r)) = r /\ Json(r).file = r.id
  <2>1. /\ r = [id |-> r.id, dir |-> r.dir, status |-> r.status, retx |-> r.retx]
        /\ r.dir \in {"Read", "Write"} /\ r.status \in {"Completed", "Failed", "Cancelled"}
    BY TransferAssumption
  <2>2. StatusOf(Mark(r.status)) = r.status
    BY <2>1 DEF StatusOf, Mark
  <2>3. (IF (IF r.dir = "Read" THEN "DL" ELSE "UL") = "UL" THEN "Write" ELSE "Read") = r.dir
    BY <2>1
  <2> QED BY <2>1, <2>2, <2>3 DEF Record, Json
<1>2. ASSUME NEW json \in Jsons PROVE Record(json) \in Records /\ Record(json).id = json.file
  <2>1. PICK r \in Records : json = Json(r)
    BY DEF Jsons
  <2> QED BY <1>1, <2>1
<1> QED BY <1>1, <1>2

-----------------------------------------------------------------------------
\* Every object of the file is one transfer's, and none has two.
LinesInv ==
  /\ lines \in Seq(Seq(Jsons))
  /\ \A p \in DOMAIN lines : Len(lines[p]) >= 1
  /\ \A p, q \in DOMAIN lines : \A a \in DOMAIN lines[p], b \in DOMAIN lines[q] :
       lines[p][a].file = lines[q][b].file => p = q /\ a = b

\* The glued ones are those on a line with others.
GluedInv ==
  /\ \A p \in DOMAIN lines : \A a \in DOMAIN lines[p] :
       lines[p][a].file \in glued <=> Len(lines[p]) > 1
  /\ \A g \in glued : \E p \in DOMAIN lines : \E a \in DOMAIN lines[p] : lines[p][a].file = g
  /\ open => Len(lines) >= 1

\* A record is either due or in the history, and there once.
HistoryInv ==
  /\ due \subseteq Records /\ due \subseteq Written
  /\ history \in Seq(Records)
  /\ \A i \in DOMAIN history : history[i] \in Written
  /\ \A i, j \in DOMAIN history : history[i].id = history[j].id => i = j
  /\ \A d \in due : \A i \in DOMAIN history : history[i].id # d.id

TransferInv == LinesInv /\ GluedInv /\ HistoryInv

LEMMA WrittenFacts ==
  ASSUME NEW w
  PROVE  w \in Written <=> \E p \in DOMAIN lines : \E a \in DOMAIN lines[p] : w = Record(lines[p][a])
BY DEF Written

\* What a start takes from the last k lines
LEMMA RestoredFacts ==
  /\ Restored[0] = <<>>
  /\ \A k \in Nat : Restored[k + 1] = IF Len(Back(k + 1)) = 1
                                        THEN <<Record(Back(k + 1)[1])>> \o Restored[k]
                                        ELSE Restored[k]
<1> DEFINE X == {Record(Back(k)[1]) : k \in Nat}
           step == [s \in Nat \X Seq(X) |->
                      IF Len(Back(s[1] + 1)) = 1 THEN <<Record(Back(s[1] + 1)[1])>> \o s[2] ELSE s[2]]
           Is(g) == g = [k \in Nat |-> IF k = 0 THEN <<>>
                                       ELSE IF Len(Back(k)) = 1
                                              THEN <<Record(Back(k)[1])>> \o g[k - 1]
                                       ELSE g[k - 1]]
<1>1. step \in [Nat \X Seq(X) -> Seq(X)] /\ <<>> \in Seq(X)
  <2>1. ASSUME NEW k \in Nat, NEW h \in Seq(X) PROVE <<Record(Back(k + 1)[1])>> \o h \in Seq(X)
    <3>1. Record(Back(k + 1)[1]) \in X
      <4>1. k + 1 \in Nat
        OBVIOUS
      <4> QED BY <4>1
    <3> HIDE DEF X
    <3> QED BY <3>1
  <2> HIDE DEF X
  <2>2. \A s \in Nat \X Seq(X) : s[1] \in Nat /\ s[2] \in Seq(X)
    OBVIOUS
  <2> QED BY <2>1, <2>2
<1>2. PICK g \in Recursions(Seq(X), <<>>, step) : TRUE
  <2> HIDE DEF step, X
  <2> QED BY <1>1, RecursionExists
<1>3. /\ g \in [Nat -> Seq(X)] /\ g[0] = <<>>
      /\ \A k \in Nat : g[k + 1] = step[<<k, g[k]>>]
  <2> HIDE DEF step, X
  <2> QED BY <1>2 DEF Recursions
<1>4. \A k \in Nat : g[k + 1] = IF Len(Back(k + 1)) = 1 THEN <<Record(Back(k + 1)[1])>> \o g[k]
                                  ELSE g[k]
  <2> SUFFICES ASSUME NEW k \in Nat
               PROVE  g[k + 1] = IF Len(Back(k + 1)) = 1 THEN <<Record(Back(k + 1)[1])>> \o g[k]
                                   ELSE g[k]
    OBVIOUS
  <2>1. <<k, g[k]>> \in Nat \X Seq(X) /\ <<k, g[k]>>[1] = k /\ <<k, g[k]>>[2] = g[k]
    BY <1>3
  <2>2. g[k + 1] = step[<<k, g[k]>>]
    BY <1>3
  <2> HIDE DEF X
  <2> QED BY <2>1, <2>2
<1>5. Is(g)
  <2>1. ASSUME NEW k \in Nat
        PROVE  g[k] = IF k = 0 THEN <<>>
                      ELSE IF Len(Back(k)) = 1 THEN <<Record(Back(k)[1])>> \o g[k - 1]
                      ELSE g[k - 1]
    <3>1. CASE k = 0
      BY <1>3, <3>1
    <3>2. CASE k # 0
      <4>1. k - 1 \in Nat /\ (k - 1) + 1 = k
        BY <3>2
      <4> QED BY <1>4, <3>2, <4>1
    <3> QED BY <3>1, <3>2
  <2> HIDE DEF X
  <2> QED BY <1>3, <2>1
<1>6. Restored = CHOOSE f : Is(f)
  BY Zenon DEF Restored
<1> HIDE DEF Is
<1>7. Is(Restored)
  BY <1>5, <1>6, Zenon
<1> USE DEF Is
<1>8. Restored = [k \in Nat |-> IF k = 0 THEN <<>>
                                ELSE IF Len(Back(k)) = 1
                                       THEN <<Record(Back(k)[1])>> \o Restored[k - 1]
                                ELSE Restored[k - 1]]
  BY <1>7
<1>9. Restored[0] = <<>>
  BY <1>8, Zenon
<1>10. ASSUME NEW k \in Nat
       PROVE  Restored[k + 1] = IF Len(Back(k + 1)) = 1
                                  THEN <<Record(Back(k + 1)[1])>> \o Restored[k]
                                  ELSE Restored[k]
  <2>1. k + 1 \in Nat /\ k + 1 # 0 /\ (k + 1) - 1 = k
    OBVIOUS
  <2> QED BY <1>8, <2>1
<1> QED BY <1>9, <1>10

\* What is taken from the last k lines are their transfers, but for the glued
\* ones, in the order of the lines.
FromLast(h, k) ==
  /\ h \in Seq(Records)
  /\ \A i \in DOMAIN h : \E p \in DOMAIN lines :
       p > Len(lines) - k /\ Len(lines[p]) = 1 /\ h[i] = Record(lines[p][1])
  /\ \A p \in DOMAIN lines :
       p > Len(lines) - k /\ Len(lines[p]) = 1 => \E i \in DOMAIN h : h[i] = Record(lines[p][1])
  /\ \A i, j \in DOMAIN h : \A p, q \in DOMAIN lines :
       /\ Len(lines[p]) = 1 /\ h[i] = Record(lines[p][1])
       /\ Len(lines[q]) = 1 /\ h[j] = Record(lines[q][1])
       /\ i < j
       => p < q

\* The first object of a line of one
LEMMA SingleLine ==
  ASSUME LinesInv, NEW p \in DOMAIN lines, Len(lines[p]) = 1
  PROVE  /\ 1 \in DOMAIN lines[p] /\ Record(lines[p][1]) \in Records
         /\ Record(lines[p][1]).id = lines[p][1].file
         /\ \A a \in DOMAIN lines[p] : a = 1
<1>1. lines[p] \in Seq(Jsons)
  BY DEF LinesInv
<1>2. 1 \in DOMAIN lines[p] /\ lines[p][1] \in Jsons /\ \A a \in DOMAIN lines[p] : a = 1
  BY <1>1
<1> QED BY <1>2, JsonRecord

LEMMA TakesLast ==
  ASSUME LinesInv, NEW k \in Nat, k <= Len(lines)
  PROVE  FromLast(Restored[k], k)
<1> DEFINE A == {n \in Nat : n <= Len(lines) => FromLast(Restored[n], n)}
           len == Len(lines)
<1>0. len \in Nat /\ DOMAIN lines = 1 .. len /\ lines \in Seq(Seq(Jsons))
  BY DEF LinesInv
<1> HIDE DEF len
<1>1. 0 \in A
  <2>1. \A p \in DOMAIN lines : ~(p > len - 0)
    BY <1>0
  <2>2. Restored[0] = <<>>
    BY RestoredFacts
  <2>3. FromLast(<<>>, 0)
    BY <2>1 DEF FromLast, len
  <2> QED BY <2>2, <2>3
<1>2. ASSUME NEW n \in Nat, n \in A PROVE n + 1 \in A
  <2> SUFFICES ASSUME n + 1 <= len PROVE FromLast(Restored[n + 1], n + 1)
    BY DEF len
  <2> DEFINE h == Restored[n]
             o == len - n
  <2>1. FromLast(h, n) /\ o \in DOMAIN lines /\ o \in 1 .. len /\ Back(n + 1) = lines[o]
    <3>1. n <= len /\ o \in 1 .. len /\ len - (n + 1) + 1 = o
      BY <1>0
    <3>2. Back(n + 1) = lines[o]
      BY <3>1 DEF Back, len
    <3>3. FromLast(h, n)
      BY <1>2, <3>1 DEF len
    <3> QED BY <1>0, <3>1, <3>2, <3>3
  <2>2. \A p \in DOMAIN lines : p > len - (n + 1) <=> p > len - n \/ p = o
    <3>1. \A p \in 1 .. len : p > len - (n + 1) <=> p > len - n \/ p = len - n
      BY <1>0
    <3> QED BY <1>0, <3>1
  <2>3. ~(o > len - n)
    BY <1>0
  <2> HIDE DEF h, o
  <2>4. h \in Seq(Records) /\ Len(h) \in Nat /\ DOMAIN h = 1 .. Len(h)
    BY <2>1 DEF FromLast
  <2>5. CASE Len(lines[o]) # 1
    <3>1. Restored[n + 1] = h
      BY <2>1, <2>5, RestoredFacts DEF h
    <3>2. \A p \in DOMAIN lines : Len(lines[p]) = 1 => (p > len - (n + 1) <=> p > len - n)
      BY <2>2, <2>5
    <3>3. FromLast(h, n + 1)
      BY <2>1, <3>2 DEF FromLast, len
    <3> QED BY <3>1, <3>3
  <2>6. CASE Len(lines[o]) = 1
    <3> DEFINE x == Record(lines[o][1])
               g == <<x>> \o h
    <3>1. Restored[n + 1] = g
      BY <2>1, <2>6, RestoredFacts DEF h
    <3>2. x \in Records
      BY <2>1, <2>6, SingleLine
    <3>3. \A p \in DOMAIN lines : Len(lines[p]) = 1 /\ Record(lines[p][1]) = x => p = o
      <4> SUFFICES ASSUME NEW p \in DOMAIN lines, Len(lines[p]) = 1, Record(lines[p][1]) = x
                   PROVE  p = o
        OBVIOUS
      <4>1. /\ 1 \in DOMAIN lines[p] /\ Record(lines[p][1]).id = lines[p][1].file
            /\ 1 \in DOMAIN lines[o] /\ x.id = lines[o][1].file
        BY <2>1, <2>6, SingleLine
      <4>2. lines[p][1].file = lines[o][1].file
        BY <4>1
      <4> QED BY <2>1, <4>1, <4>2 DEF LinesInv
    <3> HIDE DEF x
    <3>4. /\ g \in Seq(Records) /\ DOMAIN g = 1 .. Len(h) + 1 /\ g[1] = x
          /\ \A i \in DOMAIN h : i + 1 \in DOMAIN g /\ g[i + 1] = h[i]
      BY <2>4, <3>2
    <3> HIDE DEF g
    <3>5. \A i \in DOMAIN g : i = 1 \/ (i - 1 \in DOMAIN h /\ g[i] = h[i - 1])
      <4> SUFFICES ASSUME NEW i \in DOMAIN g, i # 1 PROVE i - 1 \in DOMAIN h /\ g[i] = h[i - 1]
        OBVIOUS
      <4>1. i \in 1 .. Len(h) + 1 /\ Len(h) \in Nat
        BY <2>4, <3>4
      <4>2. i - 1 \in 1 .. Len(h) /\ (i - 1) + 1 = i
        BY <4>1
      <4> QED BY <2>4, <3>4, <4>2
    <3>6. 1 \in DOMAIN g
      BY <2>4, <3>4
    <3>7. ASSUME NEW i \in DOMAIN g
          PROVE  \E p \in DOMAIN lines :
                   p > len - (n + 1) /\ Len(lines[p]) = 1 /\ g[i] = Record(lines[p][1])
      <4>1. CASE i = 1
        BY <2>1, <2>2, <2>6, <3>4, <4>1 DEF x
      <4>2. CASE i # 1
        BY <2>1, <2>2, <3>5, <4>2 DEF FromLast, len
      <4> QED BY <4>1, <4>2
    <3>8. ASSUME NEW p \in DOMAIN lines, p > len - (n + 1), Len(lines[p]) = 1
          PROVE  \E i \in DOMAIN g : g[i] = Record(lines[p][1])
      <4>1. CASE p = o
        BY <3>4, <3>6, <4>1 DEF x
      <4>2. CASE p > len - n
        <5>1. PICK i \in DOMAIN h : h[i] = Record(lines[p][1])
          BY <2>1, <3>8, <4>2 DEF FromLast, len
        <5> QED BY <3>4, <5>1
      <4> QED BY <2>2, <3>8, <4>1, <4>2
    <3>9. ASSUME NEW i \in DOMAIN g, NEW j \in DOMAIN g,
                 NEW p \in DOMAIN lines, NEW q \in DOMAIN lines,
                 Len(lines[p]) = 1, g[i] = Record(lines[p][1]),
                 Len(lines[q]) = 1, g[j] = Record(lines[q][1]), i < j
          PROVE  p < q
      <4>1. j - 1 \in DOMAIN h /\ g[j] = h[j - 1]
        <5>1. j # 1
          BY <2>4, <3>4, <3>9
        <5> QED BY <3>5, <5>1
      <4>2. CASE i = 1
        <5>1. p = o
          BY <3>3, <3>4, <3>9, <4>2
        <5>2. PICK r \in DOMAIN lines : r > len - n /\ Len(lines[r]) = 1 /\ h[j - 1] = Record(lines[r][1])
          BY <2>1, <4>1 DEF FromLast, len
        <5>3. r = q
          <6>1. /\ 1 \in DOMAIN lines[r] /\ Record(lines[r][1]).id = lines[r][1].file
                /\ 1 \in DOMAIN lines[q] /\ Record(lines[q][1]).id = lines[q][1].file
            BY <3>9, <5>2, SingleLine
          <6>2. lines[r][1].file = lines[q][1].file
            BY <3>9, <4>1, <5>2, <6>1
          <6> QED BY <6>1, <6>2 DEF LinesInv
        <5>4. o = len - n
          BY DEF o
        <5> QED BY <1>0, <5>1, <5>2, <5>3, <5>4
      <4>3. CASE i # 1
        <5>1. i - 1 \in DOMAIN h /\ g[i] = h[i - 1]
          BY <3>5, <4>3
        <5>2. i - 1 < j - 1
          BY <2>4, <3>4, <3>9
        <5> QED BY <2>1, <3>9, <4>1, <5>1, <5>2 DEF FromLast
      <4> QED BY <4>2, <4>3
    <3>10. FromLast(g, n + 1)
      BY <3>4, <3>7, <3>8, <3>9 DEF FromLast, len
    <3> QED BY <3>1, <3>10
  <2> QED BY <2>5, <2>6
<1> HIDE DEF A
<1>3. Nat \subseteq A
  BY <1>1, <1>2, NatSet
<1> QED BY <1>3 DEF A

\* What a start would load
LEMMA LoadFacts ==
  ASSUME LinesInv
  PROVE  \E k \in Nat : /\ FromLast(LoadHistory, k)
                        /\ \A p \in DOMAIN lines : p > Len(lines) - k <=> p > Len(lines) - MaxHistory
<1> DEFINE len == Len(lines)
           k == IF len < MaxHistory THEN len ELSE MaxHistory
<1>1. len \in Nat /\ DOMAIN lines = 1 .. len /\ MaxHistory \in Nat
  BY TransferAssumption DEF LinesInv
<1>2. k \in Nat /\ k <= len
  BY <1>1
<1>3. LoadHistory = Restored[k]
  BY DEF LoadHistory
<1>4. \A p \in 1 .. len : p > len - k <=> p > len - MaxHistory
  BY <1>1
<1> HIDE DEF k
<1>5. FromLast(LoadHistory, k)
  BY <1>2, <1>3, TakesLast
<1> QED BY <1>1, <1>2, <1>4, <1>5

LEMMA HistoryTells == TransferInv => HistoryIsTrue /\ OnlyGluedAreLost
<1> SUFFICES ASSUME TransferInv PROVE HistoryIsTrue /\ OnlyGluedAreLost
  OBVIOUS
<1>0. LinesInv /\ GluedInv /\ HistoryInv
  BY DEF TransferInv
<1>1. HistoryIsTrue
  BY <1>0 DEF HistoryInv, HistoryIsTrue
<1>2. PICK k \in Nat : /\ FromLast(LoadHistory, k)
                       /\ \A p \in DOMAIN lines : p > Len(lines) - k <=> p > Len(lines) - MaxHistory
  BY <1>0, LoadFacts
<1> DEFINE h == LoadHistory
<1>3. FromLast(h, k)
  BY <1>2
<1> HIDE DEF h
\* An entry whose identifier is on a line is that line's only transfer.
<1>4. ASSUME NEW i \in DOMAIN h, NEW p \in DOMAIN lines, NEW a \in DOMAIN lines[p],
             h[i].id = lines[p][a].file
      PROVE  p > Len(lines) - k /\ Len(lines[p]) = 1 /\ h[i] = Record(lines[p][1])
  <2>1. PICK q \in DOMAIN lines : q > Len(lines) - k /\ Len(lines[q]) = 1 /\ h[i] = Record(lines[q][1])
    BY <1>3 DEF FromLast
  <2>2. 1 \in DOMAIN lines[q] /\ Record(lines[q][1]).id = lines[q][1].file
    BY <1>0, <2>1, SingleLine
  <2>3. lines[q][1].file = lines[p][a].file
    BY <1>4, <2>1, <2>2
  <2>4. q = p
    BY <1>0, <2>2, <2>3 DEF LinesInv
  <2> QED BY <2>1, <2>4
<1>5. ASSUME NEW p \in DOMAIN lines, NEW a \in DOMAIN lines[p]
      PROVE  (\E i \in DOMAIN h : h[i].id = lines[p][a].file)
               <=> p > Len(lines) - MaxHistory /\ lines[p][a].file \notin glued
  <2>1. ASSUME NEW i \in DOMAIN h, h[i].id = lines[p][a].file
        PROVE  p > Len(lines) - MaxHistory /\ lines[p][a].file \notin glued
    <3>1. p > Len(lines) - k /\ Len(lines[p]) = 1
      BY <1>4, <2>1
    <3>2. p > Len(lines) - MaxHistory
      BY <1>2, <3>1
    <3>3. ~(Len(lines[p]) > 1)
      BY <3>1
    <3>4. lines[p][a].file \notin glued
      BY <1>0, <3>3 DEF GluedInv
    <3> QED BY <3>2, <3>4
  <2>2. ASSUME p > Len(lines) - MaxHistory, lines[p][a].file \notin glued
        PROVE  \E i \in DOMAIN h : h[i].id = lines[p][a].file
    <3>1. p > Len(lines) - k /\ Len(lines[p]) = 1
      <4>1. ~(Len(lines[p]) > 1) /\ Len(lines[p]) >= 1 /\ lines[p] \in Seq(Jsons)
        BY <1>0, <2>2 DEF GluedInv, LinesInv
      <4>2. p > Len(lines) - k
        BY <1>2, <2>2
      <4>3. Len(lines[p]) = 1
        <5> DEFINE z == Len(lines[p])
        <5>1. z \in Nat /\ z >= 1 /\ ~(z > 1)
          BY <4>1
        <5> HIDE DEF z
        <5>2. z = 1
          BY <5>1
        <5> QED BY <5>2 DEF z
      <4> QED BY <4>2, <4>3
    <3>2. PICK i \in DOMAIN h : h[i] = Record(lines[p][1])
      BY <1>3, <3>1 DEF FromLast
    <3>3. a = 1 /\ Record(lines[p][1]).id = lines[p][1].file
      BY <1>0, <3>1, SingleLine
    <3> QED BY <3>2, <3>3
  <2> QED BY <2>1, <2>2
<1>6. ASSUME NEW i \in DOMAIN h, NEW j \in DOMAIN h, NEW p \in DOMAIN lines, NEW q \in DOMAIN lines,
             NEW a \in DOMAIN lines[p], NEW b \in DOMAIN lines[q], i < j,
             h[i].id = lines[p][a].file, h[j].id = lines[q][b].file
      PROVE  p < q
  <2>1. Len(lines[p]) = 1 /\ h[i] = Record(lines[p][1])
    BY <1>4, <1>6
  <2>2. Len(lines[q]) = 1 /\ h[j] = Record(lines[q][1])
    BY <1>4, <1>6
  <2> QED BY <1>3, <1>6, <2>1, <2>2 DEF FromLast
<1>7. OnlyGluedAreLost
  BY <1>5, <1>6 DEF OnlyGluedAreLost, h
<1> QED BY <1>1, <1>7

\* A transfer has one record.
LEMMA OneRecord ==
  ASSUME LinesInv, NEW v \in Written, NEW w \in Written, v.id = w.id
  PROVE  v = w
<1>1. PICK p \in DOMAIN lines : \E a \in DOMAIN lines[p] : v = Record(lines[p][a])
  BY WrittenFacts
<1>2. PICK a \in DOMAIN lines[p] : v = Record(lines[p][a])
  BY <1>1
<1>3. PICK q \in DOMAIN lines : \E b \in DOMAIN lines[q] : w = Record(lines[q][b])
  BY WrittenFacts
<1>4. PICK b \in DOMAIN lines[q] : w = Record(lines[q][b])
  BY <1>3
<1>5. lines[p][a] \in Jsons /\ lines[q][b] \in Jsons
  BY DEF LinesInv
<1>6. lines[p][a].file = lines[q][b].file
  BY <1>2, <1>4, <1>5, JsonRecord
<1>7. p = q /\ a = b
  BY <1>6 DEF LinesInv
<1> QED BY <1>2, <1>4, <1>7

LEMMA TransferStarts == TransferInit => TransferInv
<1> SUFFICES ASSUME TransferInit PROVE TransferInv
  OBVIOUS
<1>1. DOMAIN <<>> = {} /\ \A S : <<>> \in Seq(S)
  OBVIOUS
<1> QED BY <1>1 DEF TransferInit, TransferInv, LinesInv, GluedInv, HistoryInv

LEMMA PushStep ==
  ASSUME TransferInv, NEW r \in due, PushRecord(r)
  PROVE  TransferInv'
<1> DEFINE all == Append(history, r)
           len == Len(all)
           from == IF len > MaxHistory THEN len - MaxHistory + 1 ELSE 1
<1>1. /\ LinesInv /\ GluedInv /\ HistoryInv /\ MaxHistory \in Nat
      /\ history \in Seq(Records) /\ r \in Records
  BY TransferAssumption DEF TransferInv, HistoryInv
<1>2. /\ history' = SubSeq(all, from, len) /\ due' = due \ {r}
      /\ UNCHANGED <<lines, open, glued, running>>
  BY DEF PushRecord
<1>3. /\ all \in Seq(Records) /\ len \in Nat /\ len = Len(history) + 1 /\ DOMAIN all = 1 .. len
      /\ DOMAIN history = 1 .. len - 1
      /\ all[len] = r /\ \A i \in DOMAIN history : all[i] = history[i]
  BY <1>1
<1> HIDE DEF all, len
<1>4. from \in Nat /\ 1 <= from
  BY <1>1, <1>3
<1> HIDE DEF from
<1>5. history' \in Seq(Records) /\ \A i \in DOMAIN history' :
        from + i - 1 \in DOMAIN all /\ history'[i] = all[from + i - 1]
  BY <1>2, <1>3, <1>4
<1>6. \A i \in DOMAIN all : all[i] \in Written
  <2>1. \A i \in DOMAIN all : i = len \/ i \in DOMAIN history
    BY <1>3
  <2> QED BY <1>1, <1>3, <2>1 DEF HistoryInv
<1>7. \A i, j \in DOMAIN all : all[i].id = all[j].id => i = j
  <2>1. \A i \in DOMAIN all : i = len \/ i \in DOMAIN history
    BY <1>3
  <2> QED BY <1>1, <1>3, <2>1 DEF HistoryInv
<1>8. Written' = Written
  BY <1>2 DEF Written
<1>9. LinesInv' /\ GluedInv'
  BY <1>1, <1>2 DEF LinesInv, GluedInv
<1>10. HistoryInv'
  <2>1. \A i \in DOMAIN history' : history'[i] \in Written
    BY <1>5, <1>6
  <2>2. ASSUME NEW i \in DOMAIN history', NEW j \in DOMAIN history', history'[i].id = history'[j].id
        PROVE  i = j
    <3>1. from + i - 1 = from + j - 1
      BY <1>5, <1>7, <2>2
    <3>2. i \in Nat /\ j \in Nat
      BY <1>5
    <3> QED BY <1>4, <3>1, <3>2
  <2>3. ASSUME NEW d \in due', NEW i \in DOMAIN history' PROVE history'[i].id # d.id
    <3>1. d \in due /\ d # r
      BY <1>2
    <3>2. ASSUME NEW j \in DOMAIN all PROVE all[j].id # d.id
      <4>1. CASE j = len
        <5>1. r \in Written /\ d \in Written
          BY <1>1, <3>1 DEF HistoryInv
        <5> QED BY <1>1, <3>1, <1>3, <4>1, <5>1, OneRecord
      <4>2. CASE j # len
        BY <1>1, <1>3, <3>1, <4>2 DEF HistoryInv
      <4> QED BY <4>1, <4>2
    <3> QED BY <1>5, <3>2
  <2>4. due' \subseteq Records /\ due' \subseteq Written
    BY <1>1, <1>2 DEF HistoryInv
  <2> QED BY <1>5, <1>8, <2>1, <2>2, <2>3, <2>4 DEF HistoryInv
<1> QED BY <1>9, <1>10 DEF TransferInv

LEMMA LoadStep ==
  ASSUME TransferInv, RestartProgram
  PROVE  TransferInv'
<1>1. LinesInv /\ GluedInv
  BY DEF TransferInv
<1>2. /\ history' = LoadHistory /\ due' = {} /\ UNCHANGED <<lines, open, glued>>
  BY DEF RestartProgram
<1>3. LinesInv' /\ GluedInv'
  BY <1>1, <1>2 DEF LinesInv, GluedInv
<1>4. PICK k \in Nat : FromLast(LoadHistory, k)
  BY <1>1, LoadFacts
<1> DEFINE h == LoadHistory
<1>5. FromLast(h, k) /\ history' = h
  BY <1>2, <1>4
<1> HIDE DEF h
<1>6. ASSUME NEW i \in DOMAIN h PROVE h[i] \in Written
  <2>1. PICK p \in DOMAIN lines : Len(lines[p]) = 1 /\ h[i] = Record(lines[p][1])
    BY <1>5 DEF FromLast
  <2>2. 1 \in DOMAIN lines[p]
    BY <1>1, <2>1, SingleLine
  <2> QED BY <2>1, <2>2, WrittenFacts
<1>7. ASSUME NEW i \in DOMAIN h, NEW j \in DOMAIN h, h[i].id = h[j].id PROVE i = j
  <2>1. h[i] = h[j]
    BY <1>1, <1>6, <1>7, OneRecord
  <2>2. PICK p \in DOMAIN lines : Len(lines[p]) = 1 /\ h[i] = Record(lines[p][1])
    BY <1>5 DEF FromLast
  <2>3. p \in Nat /\ i \in Nat /\ j \in Nat
    <3>1. DOMAIN h \subseteq Nat
      <4>1. h \in Seq(Records)
        BY <1>5 DEF FromLast
      <4> QED BY <4>1
    <3>2. DOMAIN lines \subseteq Nat
      <4>1. lines \in Seq(Seq(Jsons))
        BY <1>1 DEF LinesInv
      <4> QED BY <4>1
    <3> QED BY <3>1, <3>2
  <2>4. i < j => p < p
    BY <1>5, <2>1, <2>2 DEF FromLast
  <2>5. j < i => p < p
    BY <1>5, <2>1, <2>2 DEF FromLast
  <2> QED BY <2>3, <2>4, <2>5
<1>8. Written' = Written
  BY <1>2 DEF Written
<1>9. HistoryInv'
  BY <1>2, <1>5, <1>6, <1>7, <1>8 DEF HistoryInv, FromLast
<1> QED BY <1>3, <1>9 DEF TransferInv

\* The lines after one was written: its object is the last of the last line.
LEMMA LinesAfter ==
  ASSUME LinesInv, open => Len(lines) >= 1, NEW r \in Records, NEW torn, WriteLine(r, torn)
  PROVE  \E k \in Nat :
           LET old == IF open THEN lines[k] ELSE <<>>
           IN  /\ lines' \in Seq(Seq(Jsons)) /\ DOMAIN lines' = 1 .. k
               /\ \A p \in DOMAIN lines' : p # k => p \in DOMAIN lines /\ lines'[p] = lines[p]
               /\ \A p \in DOMAIN lines : p \in DOMAIN lines'
               /\ k \in DOMAIN lines' /\ lines'[k] = Append(old, Json(r)) /\ old \in Seq(Jsons)
               /\ IF open THEN k = Len(lines) /\ k \in DOMAIN lines ELSE k \notin DOMAIN lines
<1>0. lines \in Seq(Seq(Jsons)) /\ Json(r) \in Jsons
  BY DEF LinesInv, Jsons
<1>1. CASE open
  <2> DEFINE k == Len(lines)
  <2>1. k \in DOMAIN lines /\ k \in Nat \ {0} /\ lines[k] \in Seq(Jsons) /\ DOMAIN lines = 1 .. k
    BY <1>0, <1>1
  <2>2. lines' = Append(SubSeq(lines, 1, k - 1), Append(lines[k], Json(r)))
    BY <1>1 DEF WriteLine, Front, Last
  <2> HIDE DEF k
  <2>3. Append(lines[k], Json(r)) \in Seq(Jsons)
    BY <1>0, <2>1
  <2>4. /\ SubSeq(lines, 1, k - 1) \in Seq(Seq(Jsons)) /\ Len(SubSeq(lines, 1, k - 1)) = k - 1
        /\ \A p \in 1 .. k - 1 : SubSeq(lines, 1, k - 1)[p] = lines[p]
    BY <1>0, <2>1
  <2>5. /\ lines' \in Seq(Seq(Jsons)) /\ DOMAIN lines' = 1 .. k /\ k \in 1 .. k
        /\ lines'[k] = Append(lines[k], Json(r))
        /\ \A p \in 1 .. k : p # k => p \in 1 .. k - 1 /\ lines'[p] = lines[p]
    <3> DEFINE s == SubSeq(lines, 1, k - 1)
               y == Append(lines[k], Json(r))
    <3>1. s \in Seq(Seq(Jsons)) /\ Len(s) = k - 1 /\ y \in Seq(Jsons) /\ lines' = Append(s, y)
      BY <2>2, <2>3, <2>4
    <3> HIDE DEF s, y
    <3>2. /\ lines' \in Seq(Seq(Jsons)) /\ Len(lines') = k /\ lines'[k] = y
          /\ \A p \in 1 .. k - 1 : lines'[p] = s[p]
      BY <2>1, <3>1
    <3>3. \A p \in 1 .. k : p # k => p \in 1 .. k - 1
      BY <2>1
    <3> QED BY <2>1, <2>4, <3>2, <3>3 DEF s, y
  <2> WITNESS k \in Nat
  <2> QED BY <1>1, <2>1, <2>5 DEF k
<1>2. CASE ~open
  <2> DEFINE k == Len(lines) + 1
             y == <<Json(r)>>
  <2>1. k \in Nat /\ DOMAIN lines = 1 .. k - 1 /\ Len(lines) = k - 1
    BY <1>0
  <2>2. lines' = Append(lines, y) /\ y \in Seq(Jsons) /\ y = Append(<<>>, Json(r))
    BY <1>0, <1>2 DEF WriteLine
  <2> HIDE DEF k, y
  <2>3. /\ lines' \in Seq(Seq(Jsons)) /\ Len(lines') = k /\ lines'[k] = y
        /\ \A p \in 1 .. k - 1 : lines'[p] = lines[p]
    BY <1>0, <2>1, <2>2
  <2>4. /\ \A p \in 1 .. k : p # k => p \in 1 .. k - 1
        /\ \A p \in 1 .. k - 1 : p \in 1 .. k
        /\ k \in 1 .. k /\ k \notin 1 .. k - 1
    <3>1. k >= 1
      BY <1>0 DEF k
    <3> QED BY <2>1, <3>1
  <2>5. DOMAIN lines' = 1 .. k
    BY <2>1, <2>3
  <2> WITNESS k \in Nat
  <2> QED BY <1>2, <2>1, <2>2, <2>3, <2>4, <2>5
<1> QED BY <1>1, <1>2

LEMMA WriteStep ==
  ASSUME TransferInv, NEW r \in Records, NEW torn, WriteLine(r, torn)
  PROVE  TransferInv'
<1>1. LinesInv /\ GluedInv /\ HistoryInv
  BY DEF TransferInv
<1> DEFINE Old(n) == IF open THEN lines[n] ELSE <<>>
           j == Json(r)
<1>2. PICK k \in Nat :
        /\ lines' \in Seq(Seq(Jsons)) /\ DOMAIN lines' = 1 .. k
        /\ \A p \in DOMAIN lines' : p # k => p \in DOMAIN lines /\ lines'[p] = lines[p]
        /\ \A p \in DOMAIN lines : p \in DOMAIN lines'
        /\ k \in DOMAIN lines' /\ lines'[k] = Append(Old(k), j) /\ Old(k) \in Seq(Jsons)
        /\ IF open THEN k = Len(lines) /\ k \in DOMAIN lines ELSE k \notin DOMAIN lines
  BY <1>1, LinesAfter DEF GluedInv
<1> DEFINE old == Old(k)
           len == Len(old)
<1>3. /\ open => k \in DOMAIN lines /\ old = lines[k]
      /\ ~open => k \notin DOMAIN lines /\ old = <<>>
  BY <1>2
<1>4. j \in Jsons /\ j.file = r.id /\ Record(j) = r
  BY JsonRecord DEF Jsons
<1>5. old \in Seq(Jsons) /\ lines'[k] = Append(old, j)
  BY <1>2
<1> HIDE DEF old, Old, j
<1>6. /\ len \in Nat /\ DOMAIN old = 1 .. len /\ DOMAIN lines'[k] = 1 .. len + 1
      /\ Len(lines'[k]) = len + 1 /\ lines'[k][len + 1] = j
      /\ \A a \in DOMAIN old : lines'[k][a] = old[a]
  BY <1>4, <1>5
<1> HIDE DEF len
\* Every object was there before but the new one.
<1>7. ASSUME NEW p \in DOMAIN lines', NEW a \in DOMAIN lines'[p]
      PROVE  \/ p \in DOMAIN lines /\ a \in DOMAIN lines[p] /\ lines'[p][a] = lines[p][a]
             \/ p = k /\ a = len + 1 /\ lines'[p][a] = j
  <2>1. CASE p # k
    BY <1>2, <2>1
  <2>2. CASE p = k /\ a = len + 1
    BY <1>6, <2>2
  <2>3. CASE p = k /\ a # len + 1
    <3>1. a \in DOMAIN old
      BY <1>6, <2>3
    <3>2. open
      BY <1>3, <3>1
    <3> QED BY <1>3, <1>6, <2>3, <3>1, <3>2
  <2> QED BY <2>1, <2>2, <2>3
<1>8. ASSUME NEW p \in DOMAIN lines, NEW a \in DOMAIN lines[p]
      PROVE  p \in DOMAIN lines' /\ a \in DOMAIN lines'[p] /\ lines'[p][a] = lines[p][a]
  <2>1. CASE p # k
    BY <1>2, <2>1
  <2>2. CASE p = k
    <3>1. old = lines[k]
      BY <1>3, <2>2
    <3>2. a \in DOMAIN old /\ a \in 1 .. len + 1
      BY <1>6, <2>2, <3>1
    <3> QED BY <1>2, <1>6, <2>2, <3>1, <3>2
  <2> QED BY <2>1, <2>2
<1>9. ASSUME NEW p \in DOMAIN lines, NEW a \in DOMAIN lines[p] PROVE lines[p][a].file # r.id
  <2>1. lines[p][a] \in Jsons
    BY <1>1 DEF LinesInv
  <2>2. Record(lines[p][a]) \in Written /\ Record(lines[p][a]).id = lines[p][a].file
    BY <2>1, JsonRecord, WrittenFacts
  <2> QED BY <2>2 DEF WriteLine
<1>10. LinesInv'
  <2>1. ASSUME NEW p \in DOMAIN lines' PROVE Len(lines'[p]) >= 1
    <3>1. CASE p = k
      BY <1>6, <3>1
    <3>2. CASE p # k
      BY <1>1, <1>2, <3>2 DEF LinesInv
    <3> QED BY <3>1, <3>2
  <2>2. ASSUME NEW p \in DOMAIN lines', NEW q \in DOMAIN lines',
               NEW a \in DOMAIN lines'[p], NEW b \in DOMAIN lines'[q],
               lines'[p][a].file = lines'[q][b].file
        PROVE  p = q /\ a = b
    <3>1. CASE p = k /\ a = len + 1 /\ lines'[p][a] = j
      BY <1>4, <1>7, <1>9, <2>2, <3>1
    <3>2. CASE p \in DOMAIN lines /\ a \in DOMAIN lines[p] /\ lines'[p][a] = lines[p][a]
      <4>1. q \in DOMAIN lines /\ b \in DOMAIN lines[q] /\ lines'[q][b] = lines[q][b]
        BY <1>4, <1>7, <1>9, <2>2, <3>2
      <4> QED BY <1>1, <2>2, <3>2, <4>1 DEF LinesInv
    <3> QED BY <1>7, <3>1, <3>2
  <2> QED BY <1>2, <2>1, <2>2 DEF LinesInv
<1>11. GluedInv'
  <2>1. \A g \in glued' : \E p \in DOMAIN lines' : \E a \in DOMAIN lines'[p] : lines'[p][a].file = g
    <3> SUFFICES ASSUME NEW g \in glued'
                 PROVE  \E p \in DOMAIN lines' : \E a \in DOMAIN lines'[p] : lines'[p][a].file = g
      OBVIOUS
    <3>1. CASE g \in glued
      <4>1. \E p \in DOMAIN lines : \E a \in DOMAIN lines[p] : lines[p][a].file = g
        BY <1>1, <3>1 DEF GluedInv
      <4> QED BY <1>8, <4>1
    <3>2. CASE g = r.id
      <4>1. k \in DOMAIN lines' /\ len + 1 \in DOMAIN lines'[k] /\ lines'[k][len + 1].file = r.id
        BY <1>2, <1>4, <1>6
      <4> QED BY <3>2, <4>1
    <3>3. CASE open /\ g = Last(Last(lines)).file
      <4>1. Last(Last(lines)) = lines[k][Len(lines[k])]
        BY <1>2, <3>3 DEF Last
      <4>2. k \in DOMAIN lines /\ Len(lines[k]) \in DOMAIN lines[k]
        BY <1>1, <1>3, <3>3 DEF LinesInv
      <4> QED BY <1>8, <3>3, <4>1, <4>2
    <3> QED BY <3>1, <3>2, <3>3 DEF WriteLine
  <2>2. ASSUME NEW p \in DOMAIN lines', NEW a \in DOMAIN lines'[p]
        PROVE  lines'[p][a].file \in glued' <=> Len(lines'[p]) > 1
    <3>1. CASE open
      <4> DEFINE z == lines[k][Len(lines[k])]
      <4>1. /\ k \in DOMAIN lines /\ Len(lines[k]) \in DOMAIN lines[k] /\ len = Len(lines[k])
            /\ len >= 1 /\ old = lines[k] /\ Last(Last(lines)) = z
        <5>1. k \in DOMAIN lines /\ old = lines[k] /\ k = Len(lines)
          BY <1>2, <1>3, <3>1
        <5>2. lines[k] \in Seq(Jsons) /\ Len(lines[k]) >= 1
          BY <1>1, <5>1 DEF LinesInv
        <5>3. Len(lines[k]) \in DOMAIN lines[k] /\ len = Len(lines[k]) /\ len >= 1
          BY <5>1, <5>2 DEF len
        <5>4. Last(Last(lines)) = z
          BY <5>1 DEF Last
        <5> QED BY <5>1, <5>3, <5>4
      <4>2. glued' = glued \cup {r.id, z.file}
        BY <3>1, <4>1 DEF WriteLine
      <4> HIDE DEF z
      <4>3. CASE p # k
        <5>1. p \in DOMAIN lines /\ a \in DOMAIN lines[p] /\ lines'[p] = lines[p]
          BY <1>2, <4>3
        <5>2. lines[p][a].file # r.id /\ lines[p][a].file # z.file
          BY <1>1, <1>9, <4>1, <4>3, <5>1 DEF LinesInv, z
        <5> QED BY <1>1, <4>2, <5>1, <5>2 DEF GluedInv
      <4>4. CASE p = k
        <5>1. Len(lines'[p]) > 1
          BY <1>6, <4>1, <4>4
        <5>2. CASE a = len + 1
          BY <1>4, <1>6, <4>2, <4>4, <5>1, <5>2
        <5>3. CASE a # len + 1
          <6>1. a \in DOMAIN lines[k] /\ lines'[p][a] = lines[k][a] /\ a \in 1 .. len
            BY <1>6, <4>1, <4>4, <5>3
          <6>2. CASE len > 1
            BY <1>1, <4>1, <4>2, <5>1, <6>1, <6>2 DEF GluedInv
          <6>3. CASE ~(len > 1)
            <7>1. a = len
              <8>1. len \in Nat /\ len >= 1 /\ a \in 1 .. len /\ ~(len > 1)
                BY <1>6, <4>1, <6>1, <6>3
              <8> HIDE DEF len
              <8> QED BY <8>1
            <7> QED BY <4>1, <4>2, <5>1, <6>1, <7>1 DEF z
          <6> QED BY <6>2, <6>3
        <5> QED BY <5>2, <5>3
      <4> QED BY <4>3, <4>4
    <3>2. CASE ~open
      <4>1. glued' = glued
        BY <3>2 DEF WriteLine
      <4>2. CASE p # k
        BY <1>1, <1>2, <4>1, <4>2 DEF GluedInv
      <4>3. CASE p = k
        <5>1. len = 0
          BY <1>3, <3>2 DEF len
        <5>2. Len(lines'[p]) = 1 /\ lines'[p][a] = j
          BY <1>6, <4>3, <5>1
        <5>3. r.id \notin glued
          BY <1>1, <1>9 DEF GluedInv
        <5> QED BY <1>4, <4>1, <5>2, <5>3
      <4> QED BY <4>2, <4>3
    <3> QED BY <3>1, <3>2
  <2>3. Len(lines') >= 1
    BY <1>2
  <2> QED BY <2>1, <2>2, <2>3 DEF GluedInv
<1>12. HistoryInv'
  <2>1. ASSUME NEW w \in Written PROVE w \in Written'
    <3>1. PICK p \in DOMAIN lines : \E a \in DOMAIN lines[p] : w = Record(lines[p][a])
      BY WrittenFacts
    <3>2. PICK a \in DOMAIN lines[p] : w = Record(lines[p][a])
      BY <3>1
    <3>3. p \in DOMAIN lines' /\ a \in DOMAIN lines'[p] /\ w = Record(lines'[p][a])
      BY <1>8, <3>2
    <3> QED BY <3>3 DEF Written
  <2>2. r \in Written'
    <3>1. k \in DOMAIN lines' /\ len + 1 \in DOMAIN lines'[k] /\ r = Record(lines'[k][len + 1])
      BY <1>2, <1>4, <1>6
    <3> QED BY <3>1 DEF Written
  <2>3. \A i \in DOMAIN history : history[i].id # r.id
    BY <1>1 DEF HistoryInv, WriteLine
  <2>4. due' = due \cup {r} /\ history' = history
    BY DEF WriteLine
  <2> QED BY <1>1, <2>1, <2>2, <2>3, <2>4 DEF HistoryInv
<1> QED BY <1>10, <1>11, <1>12 DEF TransferInv

LEMMA TransferSteps == TransferInv /\ [TransferNext]_transferVars => TransferInv'
<1> SUFFICES ASSUME TransferInv, [TransferNext]_transferVars PROVE TransferInv'
  OBVIOUS
<1>1. ASSUME NEW r \in Records, NEW torn \in BOOLEAN, WriteLine(r, torn) PROVE TransferInv'
  BY <1>1, WriteStep
<1>2. ASSUME NEW r \in due, PushRecord(r) PROVE TransferInv'
  BY <1>2, PushStep
<1>3. CASE RestartProgram
  BY <1>3, LoadStep
<1>4. CASE UNCHANGED transferVars
  BY <1>4 DEF transferVars, TransferInv, LinesInv, GluedInv, HistoryInv, Written
<1> QED BY <1>1, <1>2, <1>3, <1>4 DEF TransferNext

-----------------------------------------------------------------------------
(***************************************************************************)
(* What is filtered and what is joined                                     *)
(***************************************************************************)

\* g[k] is what is kept of the first k elements.
Anything(s) == {s[k + 1] : k \in Nat}

Keeps(g, s, S) ==
  /\ g \in [Nat -> Seq(Anything(s))] /\ g[0] = <<>>
  /\ \A k \in Nat : g[k + 1] = IF s[k + 1] \in S THEN Append(g[k], s[k + 1]) ELSE g[k]

\* The filter goes through the sequence from its first element on.
LEMMA SelectLoop ==
  ASSUME NEW s, NEW S
  PROVE  \E g : Keeps(g, s, S) /\ Select(s, S) = g[Len(s)]
<1> DEFINE Y == Anything(s)
           step == [p \in Nat \X Seq(Y) |->
                      IF s[p[1] + 1] \in S THEN Append(p[2], s[p[1] + 1]) ELSE p[2]]
           Is(g) == g = [k \in Nat |-> IF k = 0 THEN <<>>
                                       ELSE IF s[k] \in S THEN Append(g[k - 1], s[k]) ELSE g[k - 1]]
           F == CHOOSE g : Is(g)
<1>1. step \in [Nat \X Seq(Y) -> Seq(Y)] /\ <<>> \in Seq(Y)
  <2>1. ASSUME NEW p \in Nat \X Seq(Y)
        PROVE  (IF s[p[1] + 1] \in S THEN Append(p[2], s[p[1] + 1]) ELSE p[2]) \in Seq(Y)
    <3>1. p[1] \in Nat /\ p[2] \in Seq(Y)
      BY <2>1
    <3>2. s[p[1] + 1] \in Y
      BY <3>1 DEF Anything
    <3> HIDE DEF Y
    <3> QED BY <3>1, <3>2
  <2> HIDE DEF Y
  <2> QED BY <2>1
<1>2. PICK g \in Recursions(Seq(Y), <<>>, step) : TRUE
  <2> HIDE DEF step, Y
  <2> QED BY <1>1, RecursionExists
<1>3. /\ g \in [Nat -> Seq(Y)] /\ g[0] = <<>>
      /\ \A k \in Nat : g[k + 1] = step[<<k, g[k]>>]
  <2> HIDE DEF step, Y
  <2> QED BY <1>2 DEF Recursions
<1>4. \A k \in Nat : g[k + 1] = IF s[k + 1] \in S THEN Append(g[k], s[k + 1]) ELSE g[k]
  <2> SUFFICES ASSUME NEW k \in Nat
               PROVE  g[k + 1] = IF s[k + 1] \in S THEN Append(g[k], s[k + 1]) ELSE g[k]
    OBVIOUS
  <2>1. <<k, g[k]>> \in Nat \X Seq(Y) /\ <<k, g[k]>>[1] = k /\ <<k, g[k]>>[2] = g[k]
    BY <1>3
  <2>2. g[k + 1] = step[<<k, g[k]>>]
    BY <1>3
  <2> HIDE DEF Y
  <2> QED BY <2>1, <2>2
<1>5. Is(g)
  <2>1. ASSUME NEW k \in Nat
        PROVE  g[k] = IF k = 0 THEN <<>>
                      ELSE IF s[k] \in S THEN Append(g[k - 1], s[k]) ELSE g[k - 1]
    <3>1. CASE k = 0
      BY <1>3, <3>1
    <3>2. CASE k # 0
      <4>1. k - 1 \in Nat /\ (k - 1) + 1 = k
        BY <3>2
      <4> QED BY <1>4, <3>2, <4>1
    <3> QED BY <3>1, <3>2
  <2> HIDE DEF Y
  <2> QED BY <1>3, <2>1
<1>6. Is(F)
  <2> HIDE DEF Is
  <2> QED BY <1>5, Zenon DEF F
<1>7. Select(s, S) = F[Len(s)]
  BY Zenon DEF Select, F, Is
<1>8. F = g
  <2>1. F = [k \in Nat |-> IF k = 0 THEN <<>>
                           ELSE IF s[k] \in S THEN Append(F[k - 1], s[k]) ELSE F[k - 1]]
    BY <1>6, Zenon DEF Is
  <2> HIDE DEF F
  <2> DEFINE A == {k \in Nat : F[k] = g[k]}
  <2>2. 0 \in A
    BY <1>3, <2>1, Zenon
  <2>3. ASSUME NEW k \in Nat, k \in A PROVE k + 1 \in A
    <3>1. k + 1 \in Nat /\ k + 1 # 0 /\ (k + 1) - 1 = k
      OBVIOUS
    <3>2. F[k + 1] = IF s[k + 1] \in S THEN Append(F[(k + 1) - 1], s[k + 1]) ELSE F[(k + 1) - 1]
      BY <2>1, <3>1, Zenon
    <3> QED BY <1>4, <2>3, <3>1, <3>2, Zenon
  <2>4. Nat \subseteq A
    <3> HIDE DEF A
    <3> QED BY <2>2, <2>3, NatSet
  <2>5. \A k \in Nat : F[k] = g[k]
    BY <2>4
  <2>6. F = [k \in Nat |-> F[k]] /\ g = [k \in Nat |-> g[k]]
    BY <1>3, <2>1, Zenon
  <2> QED BY <2>5, <2>6
<1>9. Select(s, S) = g[Len(s)]
  BY <1>7, <1>8
<1> HIDE DEF F
<1> QED BY <1>3, <1>4, <1>9 DEF Keeps

\* f says where the elements of r, the filtered s, stood.
Places(f, s, S, r, n) ==
  /\ f \in [1 .. Len(r) -> 1 .. n]
  /\ \A i \in 1 .. Len(r) : r[i] = s[f[i]] /\ r[i] \in S
  /\ \A i, j \in 1 .. Len(r) : i < j => f[i] < f[j]
  /\ \A k \in 1 .. n : s[k] \in S => \E i \in 1 .. Len(r) : f[i] = k

\* Two sequences with the same elements
LEMMA SameSequence ==
  ASSUME NEW X, NEW r \in Seq(X), NEW s \in Seq(X), Len(r) = Len(s),
         \A i \in 1 .. Len(s) : r[i] = s[i]
  PROVE  r = s
OBVIOUS

\* A sequence with one element more
LEMMA Pushed ==
  ASSUME NEW X, NEW r \in Seq(X), NEW x \in X
  PROVE  /\ Append(r, x) \in Seq(X) /\ Len(r) \in Nat
         /\ Len(Append(r, x)) = Len(r) + 1 /\ Append(r, x)[Len(r) + 1] = x
         /\ \A i \in 1 .. Len(r) : Append(r, x)[i] = r[i] /\ r[i] \in X
OBVIOUS

LEMMA PlaceOne ==
  ASSUME NEW s, NEW S, NEW X, NEW r \in Seq(X \cap S), NEW k \in Nat, s[k + 1] \in X \cap S,
         NEW f, Places(f, s, S, r, k)
  PROVE  \E h : Places(h, s, S, Append(r, s[k + 1]), k + 1)
<1> DEFINE z == Len(r)
           q == Append(r, s[k + 1])
<1>1. z \in Nat /\ Len(q) = z + 1 /\ q[z + 1] = s[k + 1] /\ \A i \in 1 .. z : q[i] = r[i]
  BY Pushed
<1>2. /\ f \in [1 .. z -> 1 .. k]
      /\ \A i \in 1 .. z : r[i] = s[f[i]] /\ r[i] \in S
      /\ \A i, j \in 1 .. z : i < j => f[i] < f[j]
      /\ \A m \in 1 .. k : s[m] \in S => \E i \in 1 .. z : f[i] = m
  BY DEF Places
<1> HIDE DEF z, q
<1> DEFINE h == [i \in 1 .. z + 1 |-> IF i = z + 1 THEN k + 1 ELSE f[i]]
<1>3. h \in [1 .. z + 1 -> 1 .. k + 1]
  BY <1>1, <1>2
<1>4. /\ h[z + 1] = k + 1 /\ z + 1 \in 1 .. z + 1
      /\ \A i \in 1 .. z : h[i] = f[i] /\ i \in 1 .. z + 1 /\ f[i] \in 1 .. k
  BY <1>1, <1>2
<1>5. \A i \in 1 .. z + 1 : i \in 1 .. z \/ i = z + 1
  BY <1>1
<1> HIDE DEF h
<1>6. \A i \in 1 .. z + 1 : q[i] = s[h[i]] /\ q[i] \in S
  BY <1>1, <1>2, <1>4, <1>5
<1>7. ASSUME NEW i \in 1 .. z + 1, NEW j \in 1 .. z + 1, i < j PROVE h[i] < h[j]
  <2>1. i \in 1 .. z /\ h[i] = f[i] /\ f[i] \in 1 .. k
    BY <1>1, <1>4, <1>7
  <2>2. CASE j = z + 1
    BY <1>4, <2>1, <2>2
  <2>3. CASE j \in 1 .. z
    <3>1. f[i] < f[j] /\ h[j] = f[j]
      BY <1>2, <1>4, <1>7, <2>1, <2>3
    <3> QED BY <2>1, <3>1
  <2> QED BY <1>5, <2>2, <2>3
<1>8. ASSUME NEW m \in 1 .. k + 1, s[m] \in S PROVE \E i \in 1 .. z + 1 : h[i] = m
  <2>1. CASE m = k + 1
    BY <1>4, <2>1
  <2>2. CASE m \in 1 .. k
    BY <1>2, <1>4, <1>8, <2>2
  <2>3. m \in 1 .. k \/ m = k + 1
    OBVIOUS
  <2> QED BY <2>1, <2>2, <2>3
<1>9. Places(h, s, S, q, k + 1)
  BY <1>1, <1>3, <1>6, <1>7, <1>8 DEF Places
<1> QED BY <1>9 DEF q

LEMMA PlaceNone ==
  ASSUME NEW s, NEW S, NEW r, NEW k \in Nat, s[k + 1] \notin S, NEW f, Places(f, s, S, r, k)
  PROVE  Places(f, s, S, r, k + 1)
<1> DEFINE z == Len(r)
<1>1. /\ f \in [1 .. z -> 1 .. k]
      /\ \A i \in 1 .. z : r[i] = s[f[i]] /\ r[i] \in S
      /\ \A i, j \in 1 .. z : i < j => f[i] < f[j]
      /\ \A m \in 1 .. k : s[m] \in S => \E i \in 1 .. z : f[i] = m
  BY DEF Places
<1> HIDE DEF z
<1>2. f \in [1 .. z -> 1 .. k + 1]
  BY <1>1
<1>3. \A m \in 1 .. k + 1 : s[m] \in S => m \in 1 .. k
  OBVIOUS
<1> QED BY <1>1, <1>2, <1>3 DEF Places, z

\* A filter keeps the members of the set, each once and in order.
LEMMA SelectPlaces ==
  ASSUME NEW X, NEW s \in Seq(X), NEW S
  PROVE  /\ Select(s, S) \in Seq(X \cap S) /\ Len(Select(s, S)) <= Len(s)
         /\ \E f : Places(f, s, S, Select(s, S), Len(s))
<1>0. Len(s) \in Nat
  OBVIOUS
<1>a. PICK g : Keeps(g, s, S) /\ Select(s, S) = g[Len(s)]
  BY SelectLoop, Zenon
<1>1. /\ g \in [Nat -> Seq(Anything(s))] /\ g[0] = <<>> /\ Select(s, S) = g[Len(s)]
      /\ \A k \in Nat : g[k + 1] = IF s[k + 1] \in S THEN Append(g[k], s[k + 1]) ELSE g[k]
  BY <1>a DEF Keeps
<1> DEFINE Ok(k) == /\ g[k] \in Seq(X \cap S) /\ Len(g[k]) <= k
                    /\ \E f : Places(f, s, S, g[k], k)
           A == {k \in Nat : k <= Len(s) => Ok(k)}
<1>2. 0 \in A
  <2> DEFINE f == [i \in 1 .. 0 |-> 0]
  <2>1. Places(f, s, S, <<>>, 0)
    BY DEF Places
  <2> HIDE DEF f
  <2>2. <<>> \in Seq(X \cap S) /\ Len(<<>>) <= 0
    OBVIOUS
  <2>3. Ok(0)
    <3>1. g[0] = <<>>
      BY <1>1
    <3> QED BY <2>1, <2>2, <3>1, Zenon
  <2> HIDE DEF Ok
  <2> QED BY <2>3
<1>3. ASSUME NEW k \in Nat, k \in A PROVE k + 1 \in A
  <2> SUFFICES ASSUME k + 1 <= Len(s) PROVE Ok(k + 1)
    OBVIOUS
  <2>1. Ok(k)
    BY <1>0, <1>3
  <2>2. s[k + 1] \in X
    BY <1>0
  <2>3. PICK f : Places(f, s, S, g[k], k)
    BY <2>1
  <2> DEFINE r == g[k]
             z == Len(r)
  <2>4. r \in Seq(X \cap S) /\ z \in Nat /\ z <= k
    BY <2>1
  <2>5. CASE s[k + 1] \in S
    <3>1. g[k + 1] = Append(r, s[k + 1])
      BY <1>1, <2>5
    <3> HIDE DEF r
    <3>2. /\ Append(r, s[k + 1]) \in Seq(X \cap S)
          /\ Len(Append(r, s[k + 1])) <= k + 1
      <4>1. s[k + 1] \in X \cap S
        BY <2>2, <2>5
      <4> QED BY <2>4, <4>1, Pushed
    <3>3. \E h : Places(h, s, S, Append(r, s[k + 1]), k + 1)
      <4>1. Places(f, s, S, r, k) /\ s[k + 1] \in X \cap S
        BY <2>2, <2>3, <2>5 DEF r
      <4> QED BY <2>4, <4>1, PlaceOne
    <3> QED BY <3>1, <3>2, <3>3
  <2>6. CASE s[k + 1] \notin S
    <3>1. g[k + 1] = r
      BY <1>1, <2>6
    <3>2. Places(f, s, S, r, k + 1)
      BY <2>3, <2>6, PlaceNone
    <3> HIDE DEF r
    <3>3. Len(r) <= k + 1
      BY <2>4
    <3> QED BY <2>4, <3>1, <3>2, <3>3
  <2> QED BY <2>5, <2>6
<1>4. Nat \subseteq A
  <2> HIDE DEF A
  <2> QED BY <1>2, <1>3, NatSet
<1>5. Ok(Len(s))
  BY <1>0, <1>4
<1> QED BY <1>1, <1>5

\* A filter that keeps everything changes nothing.
LEMMA SelectAll ==
  ASSUME NEW X, NEW s \in Seq(X), NEW S, \A k \in 1 .. Len(s) : s[k] \in S
  PROVE  Select(s, S) = s
<1>0. Len(s) \in Nat
  OBVIOUS
<1>a. PICK g : Keeps(g, s, S) /\ Select(s, S) = g[Len(s)]
  BY SelectLoop, Zenon
<1>1. /\ g \in [Nat -> Seq(Anything(s))] /\ g[0] = <<>> /\ Select(s, S) = g[Len(s)]
      /\ \A k \in Nat : g[k + 1] = IF s[k + 1] \in S THEN Append(g[k], s[k + 1]) ELSE g[k]
  BY <1>a DEF Keeps
<1> DEFINE A == {k \in Nat : k <= Len(s) => Len(g[k]) = k /\ \A i \in 1 .. k : g[k][i] = s[i]}
<1>2. 0 \in A
  BY <1>1
<1>3. ASSUME NEW k \in Nat, k \in A PROVE k + 1 \in A
  <2> SUFFICES ASSUME k + 1 <= Len(s)
               PROVE  Len(g[k + 1]) = k + 1 /\ \A i \in 1 .. k + 1 : g[k + 1][i] = s[i]
    OBVIOUS
  <2>0. k + 1 \in 1 .. Len(s)
    BY <1>0
  <2>1. s[k + 1] \in S /\ g[k + 1] = Append(g[k], s[k + 1])
    BY <1>1, <2>0
  <2>2. Len(g[k]) = k /\ \A i \in 1 .. k : g[k][i] = s[i]
    BY <1>0, <1>3
  <2> DEFINE r == g[k]
             Y == Anything(s)
  <2>3. r \in Seq(Y) /\ s[k + 1] \in Y /\ Len(r) = k
    BY <1>1, <2>2 DEF Anything
  <2> HIDE DEF r, Y
  <2>4. Len(r) = k /\ Len(Append(r, s[k + 1])) = k + 1 /\ Append(r, s[k + 1])[k + 1] = s[k + 1]
        /\ \A i \in 1 .. k : Append(r, s[k + 1])[i] = r[i]
    BY <2>3, Pushed
  <2>5. \A i \in 1 .. k + 1 : i \in 1 .. k \/ i = k + 1
    OBVIOUS
  <2> QED BY <2>1, <2>2, <2>4, <2>5 DEF r
<1>4. Nat \subseteq A
  <2> HIDE DEF A
  <2> QED BY <1>2, <1>3, NatSet
<1>5. Len(Select(s, S)) = Len(s) /\ \A i \in 1 .. Len(s) : Select(s, S)[i] = s[i]
  <2> DEFINE n == Len(s)
  <2>1. n \in Nat /\ n \in A /\ n <= n
    BY <1>0, <1>4
  <2>2. n \in {k \in Nat : k <= n => Len(g[k]) = k /\ \A i \in 1 .. k : g[k][i] = s[i]}
    BY <2>1
  <2> HIDE DEF n, A
  <2>3. Len(g[n]) = n /\ \A i \in 1 .. n : g[n][i] = s[i]
    BY <2>1, <2>2
  <2> QED BY <1>1, <2>3, Zenon DEF n
<1>6. Select(s, S) \in Seq(X)
  <2>1. Select(s, S) \in Seq(X \cap S)
    BY SelectPlaces, Zenon
  <2> DEFINE r == Select(s, S)
  <2> HIDE DEF r
  <2>2. r \in Seq(X \cap S) => r \in Seq(X)
    OBVIOUS
  <2> QED BY <2>1, <2>2 DEF r
<1> DEFINE r == Select(s, S)
<1>7. r \in Seq(X) /\ Len(r) = Len(s) /\ \A i \in 1 .. Len(s) : r[i] = s[i]
  BY <1>5, <1>6
<1> HIDE DEF r
<1>8. r = s
  BY <1>7, SameSequence
<1> QED BY <1>8 DEF r

-----------------------------------------------------------------------------
(***************************************************************************)
(* The forms of the window                                                 *)
(***************************************************************************)
Row == [source : Sources, enabled : BOOLEAN]

GuiConfigs ==
  [settings : [FormFields -> Inputs \ {"bad"}], rules : Seq(Sources), mode : Modes]

FormTypes ==
  /\ guiConfig \in GuiConfigs /\ listMode \in Modes
  /\ form \in [FormFields -> Inputs] /\ formDirty \in BOOLEAN
  /\ list \in Seq(Row) /\ listDirty \in BOOLEAN
  /\ typed \subseteq FormFields /\ moved \subseteq FormFields /\ movedRules \in BOOLEAN
  /\ Len(list) <= MaxSources /\ Len(guiConfig.rules) <= MaxSources

\* A field that was not typed and did not change elsewhere shows what is set.
FormFollows ==
  /\ \A s \in FormFields \ (typed \cup moved) : form[s] = guiConfig.settings[s]
  /\ ~formDirty => typed = {}

\* The clone that is on its way to the disk: what the form says, and for the
\* rest what the server runs with, but for what was reloaded since.
FormClone ==
  /\ toApply \in GuiConfigs /\ Len(toApply.rules) <= MaxSources
  /\ toApply.settings = form
  /\ ~crossed \/ ~movedRules => toApply.rules = guiConfig.rules /\ toApply.mode = guiConfig.mode

ListClone ==
  /\ toApply \in GuiConfigs /\ Len(toApply.rules) <= MaxSources
  /\ toApply.rules = ToConfig(list) /\ toApply.mode = listMode
  /\ ~crossed => toApply.settings = guiConfig.settings
  /\ \A s \in FormFields \ moved : toApply.settings[s] = guiConfig.settings[s]

ApplyInv ==
  /\ applying \in {"none", "form", "list"}
  /\ applying = "none" => ~crossed
  /\ applying = "form" => FormClone
  /\ applying = "list" => ListClone

FormsInv == FormTypes /\ FormFollows /\ CleanListIsTrue /\ ApplyInv

\* A click that applies nothing
LEMMA NothingApplied == applying = "none" /\ ApplyInv /\ UNCHANGED applyVars => ApplyInv'
BY DEF ApplyInv, applyVars

\* The rules that are stored: those that are on, in order.
LEMMA StoredRules ==
  ASSUME NEW rules \in Seq(Row)
  PROVE  /\ ToConfig(rules) \in Seq(Sources) /\ Len(ToConfig(rules)) <= Len(rules)
         /\ \A i \in 1 .. Len(ToConfig(rules)) :
              \E k \in i .. Len(rules) :
                /\ rules[k].enabled /\ rules[k].source = ToConfig(rules)[i]
                /\ Cardinality({j \in 1 .. k : rules[j].enabled}) = i
<1> DEFINE S == {r \in ToSet(rules) : r.enabled}
           on == Select(rules, S)
           n == Len(rules)
           z == Len(on)
<1>1. /\ on \in Seq(Row \cap S) /\ z <= n /\ \E f : Places(f, rules, S, on, n)
  BY SelectPlaces
<1>2. PICK f : Places(f, rules, S, on, n)
  BY <1>1
<1>3. \A k \in 1 .. n : rules[k] \in Row /\ (rules[k] \in S <=> rules[k].enabled)
  <2>1. \A k \in 1 .. n : rules[k] \in Row /\ k \in DOMAIN rules
    OBVIOUS
  <2>2. \A k \in 1 .. n : rules[k] \in ToSet(rules)
    BY <2>1, Zenon DEF ToSet
  <2> HIDE DEF n
  <2> QED BY <2>1, <2>2
<1>4. n \in Nat /\ z \in Nat
  <2> HIDE DEF S
  <2> QED BY <1>1
<1>5. ToConfig(rules) = [i \in 1 .. z |-> on[i].source]
  <2> HIDE DEF on
  <2>1. DOMAIN on = 1 .. z
    BY <1>1
  <2> QED BY <2>1, Zenon DEF ToConfig, on
<1> HIDE DEF S, on, n, z
<1>6. /\ f \in [1 .. z -> 1 .. n]
      /\ \A i \in 1 .. z : on[i] = rules[f[i]] /\ on[i] \in S
      /\ \A i, j \in 1 .. z : i < j => f[i] < f[j]
      /\ \A k \in 1 .. n : rules[k] \in S => \E i \in 1 .. z : f[i] = k
  BY <1>2 DEF Places, z
<1>7. ASSUME NEW i \in 1 .. z
      PROVE  /\ on[i].source \in Sources /\ f[i] \in 1 .. n
             /\ rules[f[i]].enabled /\ rules[f[i]].source = on[i].source
  BY <1>3, <1>6 DEF Row
<1>8. ASSUME NEW i \in 1 .. z
      PROVE  Cardinality({j \in 1 .. f[i] : rules[j].enabled}) = i
  <2> DEFINE T == {j \in 1 .. f[i] : rules[j].enabled}
             h == [m \in 1 .. i |-> f[m]]
  <2>1. \A m \in 1 .. i : m \in 1 .. z /\ m <= i
    BY <1>4
  <2>2. \A m \in 1 .. i : f[m] \in T
    <3> SUFFICES ASSUME NEW m \in 1 .. i PROVE f[m] \in 1 .. f[i] /\ rules[f[m]].enabled
      OBVIOUS
    <3>1. f[m] \in 1 .. n /\ f[i] \in 1 .. n /\ rules[f[m]].enabled
      BY <1>7, <2>1
    <3>2. f[m] <= f[i]
      <4>1. CASE m = i
        BY <3>1, <4>1
      <4>2. CASE m < i
        <5>1. f[m] < f[i]
          BY <1>6, <2>1, <4>2
        <5> QED BY <3>1, <5>1
      <4> QED BY <4>1, <4>2
    <3> QED BY <3>1, <3>2
  <2>3. ASSUME NEW j \in T PROVE \E m \in 1 .. i : f[m] = j
    <3>1. f[i] \in 1 .. n /\ j \in 1 .. f[i] /\ rules[j].enabled
      BY <1>7
    <3>2. j \in 1 .. n
      BY <1>4, <3>1
    <3>3. PICK m \in 1 .. z : f[m] = j
      BY <1>3, <1>6, <3>1, <3>2
    <3>4. ~(i < m)
      BY <1>6, <3>1, <3>3
    <3>5. m \in 1 .. i
      BY <1>4, <3>3, <3>4
    <3> QED BY <3>3, <3>5
  <2>4. \A m, k \in 1 .. i : f[m] = f[k] => m = k
    <3> SUFFICES ASSUME NEW m \in 1 .. i, NEW k \in 1 .. i, f[m] = f[k], m # k PROVE FALSE
      OBVIOUS
    <3>1. f[m] \in 1 .. n /\ f[k] \in 1 .. n
      BY <1>7, <2>1
    <3>2. m < k \/ k < m
      OBVIOUS
    <3> QED BY <1>6, <2>1, <3>1, <3>2
  <2>5. h \in Bijection(1 .. i, T)
    <3> HIDE DEF T
    <3>1. h \in [1 .. i -> T]
      BY <2>2
    <3>2. \A m \in 1 .. i : h[m] = f[m]
      OBVIOUS
    <3> HIDE DEF h
    <3>3. \A m, k \in 1 .. i : h[m] = h[k] => m = k
      BY <2>4, <3>2
    <3>4. \A j \in T : \E m \in 1 .. i : h[m] = j
      BY <2>3, <3>2
    <3> QED BY <3>1, <3>3, <3>4, Zenon DEF Bijection, Injection, Surjection, IsInjective
  <2> HIDE DEF T, h
  <2>6. ExistsBijection(1 .. i, T)
    BY <2>5, Zenon DEF ExistsBijection
  <2>7. i \in Nat
    OBVIOUS
  <2>8. Cardinality(T) = i
    BY <2>6, <2>7, FS_CountingElements
  <2> QED BY <2>8 DEF T
<1>9. /\ ToConfig(rules) \in Seq(Sources) /\ Len(ToConfig(rules)) = z
      /\ \A i \in 1 .. z : ToConfig(rules)[i] = on[i].source
  BY <1>4, <1>5, <1>7
<1>10. ASSUME NEW i \in 1 .. z
       PROVE  \E k \in i .. n : /\ rules[k].enabled /\ rules[k].source = ToConfig(rules)[i]
                                /\ Cardinality({j \in 1 .. k : rules[j].enabled}) = i
  <2> DEFINE k == f[i]
             T == {j \in 1 .. k : rules[j].enabled}
  <2>1. k \in 1 .. n /\ Cardinality(T) = i
    BY <1>7, <1>8
  <2>2. i <= k
    <3>1. /\ IsFiniteSet(1 .. k) /\ Cardinality(1 .. k) = k
      <4> HIDE DEF k
      <4>1. 1 \in Int /\ k \in Int /\ 1 <= k
        BY <2>1
      <4>2. Cardinality(1 .. k) = k - 1 + 1
        BY <4>1, FS_Interval
      <4> QED BY <4>1, <4>2, FS_Interval
    <3>2. T \subseteq 1 .. k
      OBVIOUS
    <3> HIDE DEF T, k
    <3>3. Cardinality(T) <= Cardinality(1 .. k)
      BY <3>1, <3>2, FS_Subset
    <3> QED BY <2>1, <3>1, <3>3
  <2>3. rules[k].enabled /\ rules[k].source = ToConfig(rules)[i]
    BY <1>7, <1>9
  <2>4. k \in i .. n
    <3> HIDE DEF k
    <3> QED BY <2>1, <2>2
  <2> QED BY <2>1, <2>3, <2>4
<1> QED BY <1>1, <1>9, <1>10 DEF n, z

\* A list that was just filled is stored as it was.
LEMMA FilledIsStored ==
  ASSUME NEW rules \in Seq(Sources)
  PROVE  /\ Enabled(rules) \in Seq(Row) /\ Len(Enabled(rules)) = Len(rules)
         /\ ToConfig(Enabled(rules)) = rules
<1> DEFINE e == Enabled(rules)
           n == Len(rules)
           S == {r \in ToSet(e) : r.enabled}
<1>1. n \in Nat /\ DOMAIN rules = 1 .. n /\ \A i \in 1 .. n : rules[i] \in Sources
  OBVIOUS
<1>2. /\ e = [i \in 1 .. n |-> [source |-> rules[i], enabled |-> TRUE]]
      /\ \A i \in 1 .. n : e[i] = [source |-> rules[i], enabled |-> TRUE] /\ e[i] \in Row
  BY <1>1 DEF Enabled, Row
<1> HIDE DEF e, n
<1>3. e \in Seq(Row) /\ Len(e) = n
  BY <1>1, <1>2
<1>4. \A k \in 1 .. Len(e) : e[k] \in S
  <2>1. DOMAIN e = 1 .. n
    BY <1>2
  <2> QED BY <1>2, <1>3, <2>1 DEF ToSet
<1>5. Select(e, S) = e
  <2> HIDE DEF S
  <2> QED BY <1>3, <1>4, SelectAll
<1>6. ToConfig(e) = [i \in DOMAIN e |-> e[i].source]
  BY <1>5, Zenon DEF ToConfig
<1>7. ToConfig(e) = [i \in 1 .. n |-> rules[i]]
  BY <1>2, <1>6
<1>8. ToConfig(e) = rules
  <2>1. rules = [i \in 1 .. n |-> rules[i]]
    BY <1>1
  <2> QED BY <1>7, <2>1
<1> QED BY <1>3, <1>8 DEF e, n

-----------------------------------------------------------------------------
LEMMA FormsStart == FormsInit => FormsInv
<1> SUFFICES ASSUME FormsInit PROVE FormsInv
  OBVIOUS
<1>1. /\ guiConfig = [settings |-> Fresh(FirstInput), rules |-> FirstSources, mode |-> FirstMode]
      /\ form = guiConfig.settings /\ formDirty = FALSE
      /\ list = Enabled(guiConfig.rules) /\ listMode = FirstMode /\ listDirty = FALSE
      /\ applying = "none" /\ crossed = FALSE
      /\ typed = {} /\ moved = {} /\ movedRules = FALSE
  BY DEF FormsInit
<1>2. /\ guiConfig.settings = Fresh(FirstInput) /\ guiConfig.rules = FirstSources
      /\ guiConfig.mode = FirstMode /\ FirstMode \in Modes
      /\ Fresh(FirstInput) \in [FormFields -> Inputs \ {"bad"}]
      /\ FirstSources \in Seq(Sources) /\ Len(FirstSources) <= MaxSources
  BY <1>1, FormsAssumption DEF Fresh
<1>3. guiConfig \in GuiConfigs
  BY <1>1, <1>2 DEF GuiConfigs
<1>4. /\ list \in Seq(Row) /\ Len(list) = Len(FirstSources) /\ ToConfig(list) = guiConfig.rules
  BY <1>1, <1>2, FilledIsStored
<1>5. FormTypes
  BY <1>1, <1>2, <1>3, <1>4 DEF FormTypes
<1>6. ApplyInv
  BY <1>1 DEF ApplyInv
<1> QED BY <1>1, <1>2, <1>4, <1>5, <1>6 DEF FormsInv, FormFollows, CleanListIsTrue

\* Typing, applying and filling the settings
LEMMA SettingsStep ==
  FormsInv /\ applying = "none"
    /\ (\/ \E s \in FormFields, text \in Inputs : TypeInto(s, text)
        \/ ApplyForm \/ ResetForm
        \/ \E text \in Inputs \ {"bad"} : DefaultsOrImport(text)) => FormsInv'
<1> SUFFICES ASSUME FormsInv, applying = "none",
                    \/ \E s \in FormFields, text \in Inputs : TypeInto(s, text)
                    \/ ApplyForm \/ ResetForm
                    \/ \E text \in Inputs \ {"bad"} : DefaultsOrImport(text)
             PROVE  FormsInv'
  OBVIOUS
<1> USE DEF rulesVars, settingsVars
<1>1. FormTypes /\ FormFollows /\ CleanListIsTrue /\ ApplyInv
  BY DEF FormsInv
<1>2. ASSUME NEW s \in FormFields, NEW text \in Inputs, TypeInto(s, text) PROVE FormsInv'
  <2>1. /\ form' = [form EXCEPT ![s] = text] /\ formDirty' = TRUE /\ typed' = typed \cup {s}
        /\ UNCHANGED <<guiConfig, moved, list, listMode, listDirty, movedRules, applyVars>>
    BY <1>2 DEF TypeInto
  <2>2. FormTypes'
    BY <1>1, <2>1 DEF FormTypes
  <2>3. FormFollows'
    BY <1>1, <2>1 DEF FormFollows, FormTypes
  <2>4. ApplyInv'
    BY <1>1, <2>1, NothingApplied
  <2> QED BY <1>1, <2>1, <2>2, <2>3, <2>4 DEF FormsInv, CleanListIsTrue
<1>3. ASSUME ApplyForm PROVE FormsInv'
  <2> DEFINE c == [guiConfig EXCEPT !.settings = form]
  <2>1. /\ applying' = "form" /\ toApply' = c /\ crossed' = FALSE
        /\ UNCHANGED <<guiConfig, form, formDirty, typed, moved, list, listMode, listDirty,
                       movedRules>>
        /\ \A s \in FormFields : form[s] # "bad"
    BY <1>3 DEF ApplyForm, BeginApply
  <2>2. form \in [FormFields -> Inputs \ {"bad"}]
    BY <1>1, <2>1 DEF FormTypes
  <2>3. /\ c \in GuiConfigs /\ c.settings = form /\ c.rules = guiConfig.rules
        /\ c.mode = guiConfig.mode
    BY <1>1, <2>2 DEF FormTypes, GuiConfigs
  <2> HIDE DEF c
  <2>4. FormClone'
    BY <1>1, <2>1, <2>3 DEF FormClone, FormTypes
  <2>5. ApplyInv'
    BY <2>1, <2>4 DEF ApplyInv
  <2> QED BY <1>1, <2>1, <2>5 DEF FormsInv, FormTypes, FormFollows, CleanListIsTrue
<1>4. ASSUME NEW settings \in [FormFields -> Inputs], NEW dirty \in BOOLEAN,
             FillForm(settings, dirty), ~dirty => settings = guiConfig.settings
      PROVE  FormsInv'
  <2>1. /\ form' = settings /\ formDirty' = dirty
        /\ typed' = (IF dirty THEN FormFields ELSE {}) /\ moved' = {}
        /\ UNCHANGED <<guiConfig, list, listMode, listDirty, movedRules, applyVars>>
    BY <1>4 DEF FillForm
  <2>2. FormTypes' /\ FormFollows'
    BY <1>1, <1>4, <2>1 DEF FormTypes, FormFollows
  <2>3. ApplyInv'
    BY <1>1, <2>1, NothingApplied
  <2> QED BY <1>1, <2>1, <2>2, <2>3 DEF FormsInv, CleanListIsTrue
<1>5. guiConfig.settings \in [FormFields -> Inputs]
  BY <1>1 DEF FormTypes, GuiConfigs
<1>6. ASSUME NEW text \in Inputs \ {"bad"} PROVE Fresh(text) \in [FormFields -> Inputs]
  BY DEF Fresh
<1> QED BY <1>2, <1>3, <1>4, <1>5, <1>6 DEF ResetForm, DefaultsOrImport

\* Editing, applying and filling the rules
LEMMA RulesStep ==
  ASSUME FormsInv, applying = "none",
         \/ \E i \in 1 .. MaxSources : EditRow(i)
         \/ \E source \in Sources : AddRow(source)
         \/ \E mode \in Modes : ChooseMode(mode)
         \/ ApplyList \/ ResetList
  PROVE  FormsInv'
<1> USE DEF settingsVars
<1> DEFINE n == Len(list)
<1>1. FormTypes /\ FormFollows /\ CleanListIsTrue /\ ApplyInv
  BY DEF FormsInv
<1>2. list \in Seq(Row) /\ n \in Nat /\ n <= MaxSources /\ MaxSources \in Nat
  BY <1>1, FormsAssumption DEF FormTypes
<1>3. ASSUME NEW rules \in Seq(Row), Len(rules) <= MaxSources, ChangeList(rules) PROVE FormsInv'
  <2>1. /\ list' = rules /\ listDirty' = TRUE
        /\ UNCHANGED <<guiConfig, form, formDirty, typed, moved, movedRules, listMode, applyVars>>
    BY <1>3 DEF ChangeList
  <2>2. FormTypes' /\ FormFollows'
    BY <1>1, <1>3, <2>1 DEF FormTypes, FormFollows
  <2>3. ApplyInv'
    BY <1>1, <2>1, NothingApplied
  <2> QED BY <2>1, <2>2, <2>3 DEF FormsInv, CleanListIsTrue
<1>4. ASSUME NEW i \in DOMAIN list, NEW row \in Row
      PROVE  [list EXCEPT ![i] = row] \in Seq(Row) /\ Len([list EXCEPT ![i] = row]) = n
  BY <1>2
<1>5. ASSUME NEW i \in 1 .. MaxSources, EditRow(i) PROVE FormsInv'
  <2>1. i \in 1 .. n /\ i \in DOMAIN list /\ list[i] \in Row
    BY <1>2, <1>5 DEF EditRow
  <2>2. ASSUME NEW source \in Sources, ChangeList([list EXCEPT ![i].source = source]) PROVE FormsInv'
    <3>1. [list EXCEPT ![i].source = source] = [list EXCEPT ![i] = [list[i] EXCEPT !.source = source]]
      OBVIOUS
    <3>2. [list[i] EXCEPT !.source = source] \in Row
      BY <2>1 DEF Row
    <3> QED BY <1>2, <1>3, <1>4, <2>1, <2>2, <3>1, <3>2
  <2>3. ASSUME ChangeList([list EXCEPT ![i].enabled = ~@]) PROVE FormsInv'
    <3>1. [list EXCEPT ![i].enabled = ~@]
            = [list EXCEPT ![i] = [list[i] EXCEPT !.enabled = ~list[i].enabled]]
      OBVIOUS
    <3>2. [list[i] EXCEPT !.enabled = ~list[i].enabled] \in Row
      BY <2>1 DEF Row
    <3> QED BY <1>2, <1>3, <1>4, <2>1, <2>3, <3>1, <3>2
  <2>4. ASSUME NEW k \in 1 .. n, ChangeList([list EXCEPT ![i] = list[k], ![k] = list[i]])
        PROVE  FormsInv'
    <3>1. /\ [list EXCEPT ![i] = list[k], ![k] = list[i]] \in Seq(Row)
          /\ Len([list EXCEPT ![i] = list[k], ![k] = list[i]]) = n
      BY <1>2, <2>1
    <3> QED BY <1>2, <1>3, <2>4, <3>1
  <2>5. ASSUME ChangeList(RemoveAt(list, i)) PROVE FormsInv'
    <3>1. RemoveAt(list, i) = SubSeq(list, 1, i - 1) \o SubSeq(list, i + 1, Len(list))
      BY Zenon DEF RemoveAt
    <3>2. /\ RemoveAt(list, i) \in Seq(Row) /\ Len(RemoveAt(list, i)) = n - 1
      <4> DEFINE a == SubSeq(list, 1, i - 1)
                 b == SubSeq(list, i + 1, Len(list))
      <4>1. /\ a \in Seq(Row) /\ Len(a) = i - 1
            /\ b \in Seq(Row) /\ Len(b) = n - i
        BY <1>2, <2>1
      <4> HIDE DEF a, b
      <4>2. a \o b \in Seq(Row) /\ Len(a \o b) = Len(a) + Len(b)
        BY <4>1, Appended
      <4>3. RemoveAt(list, i) = a \o b
        BY <3>1 DEF a, b
      <4>4. Len(a \o b) = n - 1
        <5>1. Len(a \o b) = (i - 1) + (n - i) /\ i \in Int /\ n \in Int
          BY <1>2, <4>1, <4>2
        <5> HIDE DEF n
        <5> QED BY <5>1
      <4> QED BY <4>2, <4>3, <4>4, Zenon
    <3>3. Len(RemoveAt(list, i)) <= MaxSources
      <4> HIDE DEF n
      <4> QED BY <1>2, <3>2
    <3> QED BY <1>3, <2>5, <3>2, <3>3, Zenon
  <2>6. /\ i > 1 => i - 1 \in 1 .. n
        /\ i < n => i + 1 \in 1 .. n
    BY <1>2, <2>1
  <2> QED BY <1>5, <2>2, <2>3, <2>4, <2>5, <2>6 DEF EditRow
<1>6. ASSUME NEW source \in Sources, AddRow(source) PROVE FormsInv'
  <2> DEFINE row == [source |-> source, enabled |-> TRUE]
  <2>1. n < MaxSources /\ ChangeList(Append(list, row))
    BY <1>6 DEF AddRow
  <2>2. row \in Row
    BY DEF Row
  <2> HIDE DEF row
  <2>3. Append(list, row) \in Seq(Row) /\ Len(Append(list, row)) = n + 1
    BY <1>2, <2>2
  <2>4. Len(Append(list, row)) <= MaxSources
    <3> HIDE DEF n
    <3> QED BY <1>2, <2>1, <2>3
  <2> QED BY <1>3, <2>1, <2>3, <2>4, Zenon
<1>7. ASSUME ApplyList PROVE FormsInv'
  <2> DEFINE new == ToConfig(list)
             c == [guiConfig EXCEPT !.rules = new, !.mode = listMode]
  <2>1. /\ applying' = "list" /\ toApply' = c /\ crossed' = FALSE
        /\ UNCHANGED <<guiConfig, form, formDirty, typed, moved, list, listMode, listDirty,
                       movedRules>>
    BY <1>7 DEF ApplyList, BeginApply, rulesVars
  <2>2. new \in Seq(Sources) /\ Len(new) <= n
    BY <1>2, StoredRules
  <2>3. Len(new) <= MaxSources
    <3> HIDE DEF new, n
    <3>1. Len(new) \in Nat
      BY <2>2
    <3> QED BY <1>2, <2>2, <3>1
  <2>4. new = ToConfig(list)
    OBVIOUS
  <2> HIDE DEF new
  <2>5. /\ c \in GuiConfigs /\ c.settings = guiConfig.settings /\ c.rules = new
        /\ c.mode = listMode
    BY <1>1, <2>2 DEF FormTypes, GuiConfigs
  <2> HIDE DEF c
  <2>6. ListClone'
    <3>1. toApply' \in GuiConfigs /\ Len(toApply'.rules) <= MaxSources
      BY <2>1, <2>3, <2>5
    <3>2. toApply'.rules = ToConfig(list') /\ toApply'.mode = listMode'
      BY <2>1, <2>4, <2>5
    <3>3. toApply'.settings = guiConfig'.settings
      BY <2>1, <2>5
    <3> QED BY <3>1, <3>2, <3>3 DEF ListClone
  <2>7. ApplyInv'
    BY <2>1, <2>6 DEF ApplyInv
  <2> QED BY <1>1, <2>1, <2>7 DEF FormsInv, FormTypes, FormFollows, CleanListIsTrue
<1>8. ASSUME ResetList PROVE FormsInv'
  <2>1. /\ list' = Enabled(guiConfig.rules) /\ listMode' = guiConfig.mode
        /\ listDirty' = FALSE /\ movedRules' = FALSE
        /\ UNCHANGED <<guiConfig, form, formDirty, typed, moved, applyVars>>
    BY <1>8 DEF ResetList
  <2>2. guiConfig.rules \in Seq(Sources) /\ Len(guiConfig.rules) <= MaxSources
        /\ guiConfig.mode \in Modes
    BY <1>1 DEF FormTypes, GuiConfigs
  <2>3. /\ list' \in Seq(Row) /\ Len(list') = Len(guiConfig.rules)
        /\ ToConfig(list') = guiConfig.rules
    BY <2>1, <2>2, FilledIsStored
  <2>4. FormTypes' /\ FormFollows'
    BY <1>1, <2>1, <2>2, <2>3 DEF FormTypes, FormFollows
  <2>5. ApplyInv'
    BY <1>1, <2>1, NothingApplied
  <2> QED BY <2>1, <2>3, <2>4, <2>5 DEF FormsInv, CleanListIsTrue
<1>9. ASSUME NEW mode \in Modes, ChooseMode(mode) PROVE FormsInv'
  <2>1. /\ listMode' = mode /\ listDirty' = TRUE
        /\ UNCHANGED <<guiConfig, form, formDirty, typed, moved, movedRules, list, applyVars>>
    BY <1>9 DEF ChooseMode
  <2>2. FormTypes' /\ FormFollows'
    BY <1>1, <2>1 DEF FormTypes, FormFollows
  <2>3. ApplyInv'
    BY <1>1, <2>1, NothingApplied
  <2> QED BY <2>1, <2>2, <2>3 DEF FormsInv, CleanListIsTrue
<1> QED BY <1>5, <1>6, <1>7, <1>8, <1>9

\* The clone of a form is stored
LEMMA StoreStep == FormsInv /\ (StoreForm \/ StoreList) => FormsInv'
<1> SUFFICES ASSUME FormsInv, StoreForm \/ StoreList PROVE FormsInv'
  OBVIOUS
<1> USE DEF rulesVars, settingsVars
<1>1. FormTypes /\ FormFollows /\ CleanListIsTrue /\ ApplyInv
  BY DEF FormsInv
<1>2. guiConfig' = toApply /\ applying' = "none" /\ crossed' = FALSE
  BY DEF StoreForm, StoreList, Applied
<1>3. ApplyInv'
  BY <1>2 DEF ApplyInv
<1>4. CASE StoreForm
  <2>1. /\ formDirty' = FALSE /\ typed' = {} /\ moved' = {}
        /\ UNCHANGED <<form, list, listMode, listDirty, movedRules>>
    BY <1>4 DEF StoreForm
  <2>2. FormClone
    BY <1>1, <1>4 DEF ApplyInv, StoreForm
  <2>3. FormTypes' /\ FormFollows'
    BY <1>1, <1>2, <2>1, <2>2 DEF FormTypes, FormFollows, FormClone
  <2>4. CleanListIsTrue'
    BY <1>1, <1>2, <2>1, <2>2 DEF CleanListIsTrue, FormClone
  <2> QED BY <1>3, <2>3, <2>4 DEF FormsInv
<1>5. CASE StoreList
  <2>1. /\ listDirty' = FALSE /\ movedRules' = FALSE
        /\ UNCHANGED <<list, listMode, form, formDirty, typed, moved>>
    BY <1>5 DEF StoreList
  <2>2. ListClone
    BY <1>1, <1>5 DEF ApplyInv, StoreList
  <2>3. FormTypes'
    BY <1>1, <1>2, <2>1, <2>2 DEF FormTypes, ListClone
  <2>4. FormFollows'
    BY <1>1, <1>2, <2>1, <2>2 DEF FormFollows, ListClone
  <2>5. CleanListIsTrue'
    BY <1>2, <2>1, <2>2 DEF CleanListIsTrue, ListClone
  <2> QED BY <1>3, <2>3, <2>4, <2>5 DEF FormsInv
<1> QED BY <1>4, <1>5

\* A reload moves what it changes.
LEMMA ReloadStep ==
  ASSUME NEW s \in FormFields, NEW text \in Inputs \ {"bad"}, FormsInv,
         NEW rules \in {guiConfig.rules, FirstSources}, NEW mode \in {guiConfig.mode, FirstMode},
         GuiReload(s, text, rules, mode)
  PROVE  FormsInv'
<1>1. FormTypes /\ FormFollows /\ CleanListIsTrue /\ ApplyInv
  BY DEF FormsInv
<1> DEFINE set == [guiConfig.settings EXCEPT ![s] = text]
<1>2. /\ guiConfig' = [settings |-> set, rules |-> rules, mode |-> mode]
      /\ moved' = moved \cup {t \in FormFields : guiConfig'.settings[t] # guiConfig.settings[t]}
      /\ UNCHANGED <<form, formDirty, typed, list, listMode, listDirty, applying, toApply>>
  BY DEF GuiReload
<1>3. /\ movedRules' \in BOOLEAN
      /\ ~movedRules' => ~movedRules /\ rules = guiConfig.rules /\ mode = guiConfig.mode
      /\ crossed' \in BOOLEAN
      /\ crossed' <=> applying # "none"
  BY Zenon DEF GuiReload
<1>4. /\ rules \in Seq(Sources) /\ Len(rules) <= MaxSources /\ mode \in Modes
      /\ set \in [FormFields -> Inputs \ {"bad"}]
  BY <1>1, FormsAssumption DEF FormTypes, GuiConfigs
<1>5. guiConfig'.settings = set /\ guiConfig'.rules = rules /\ guiConfig'.mode = mode
  BY <1>2
<1> HIDE DEF set
<1>6. FormTypes'
  <2>1. guiConfig' \in GuiConfigs
    BY <1>2, <1>4 DEF GuiConfigs
  <2>2. moved' \subseteq FormFields
    BY <1>1, <1>2 DEF FormTypes
  <2> QED BY <1>1, <1>2, <1>3, <1>4, <1>5, <2>1, <2>2 DEF FormTypes
<1>7. FormFollows'
  <2>1. ASSUME NEW t \in FormFields, t \notin typed' \cup moved'
        PROVE  form'[t] = guiConfig'.settings[t]
    BY <1>1, <1>2, <2>1 DEF FormFollows
  <2> QED BY <1>1, <1>2, <2>1 DEF FormFollows
<1>8. CleanListIsTrue'
  BY <1>1, <1>2, <1>3, <1>5 DEF CleanListIsTrue
<1>9. ApplyInv'
  <2>1. CASE applying = "none"
    BY <1>2, <1>3, <2>1 DEF ApplyInv
  <2>2. CASE applying = "form"
    <3>1. FormClone'
      BY <1>1, <1>2, <1>3, <1>5, <2>2 DEF ApplyInv, FormClone
    <3> QED BY <1>2, <2>2, <3>1 DEF ApplyInv
  <2>3. CASE applying = "list"
    <3>1. ListClone
      BY <1>1, <2>3 DEF ApplyInv
    <3>2. ASSUME NEW t \in FormFields \ moved' PROVE toApply'.settings[t] = guiConfig'.settings[t]
      BY <1>2, <3>1, <3>2 DEF ListClone
    <3>3. ListClone'
      BY <1>2, <1>3, <2>3, <3>1, <3>2 DEF ListClone
    <3> QED BY <1>2, <2>3, <3>3 DEF ApplyInv
  <2> QED BY <1>1, <2>1, <2>2, <2>3 DEF ApplyInv
<1> QED BY <1>6, <1>7, <1>8, <1>9 DEF FormsInv

LEMMA FormsStep == FormsInv /\ [FormsNext]_formsVars => FormsInv'
<1> SUFFICES ASSUME FormsInv, [FormsNext]_formsVars PROVE FormsInv'
  OBVIOUS
<1>1. CASE UNCHANGED formsVars
  BY <1>1 DEF formsVars, settingsVars, rulesVars, applyVars, FormsInv, FormTypes, FormFollows,
              CleanListIsTrue, ApplyInv, FormClone, ListClone
<1>2. CASE StoreForm \/ StoreList
  BY <1>2, StoreStep
<1>3. ASSUME NEW text \in Inputs \ {"bad"},
             \/ GuiReload(Reloaded, text, guiConfig.rules, guiConfig.mode)
             \/ GuiReload(Reloaded, text, FirstSources, FirstMode)
      PROVE  FormsInv'
  BY <1>3, ReloadStep, FormsAssumption
<1>4. CASE Click
  <2> DEFINE S == \/ \E s \in FormFields, text \in Inputs : TypeInto(s, text)
                  \/ ApplyForm \/ ResetForm
                  \/ \E text \in Inputs \ {"bad"} : DefaultsOrImport(text)
             R == \/ \E i \in 1 .. MaxSources : EditRow(i)
                  \/ \E source \in Sources : AddRow(source)
                  \/ \E mode \in Modes : ChooseMode(mode)
                  \/ ApplyList \/ ResetList
  <2>1. applying = "none" /\ (S \/ R)
    BY <1>4, Zenon DEF Click
  <2>2. S => FormsInv'
    BY <2>1, SettingsStep, Zenon
  <2>3. ASSUME R PROVE FormsInv'
    <3>1. \/ \E i \in 1 .. MaxSources : EditRow(i)
          \/ \E source \in Sources : AddRow(source)
          \/ \E mode \in Modes : ChooseMode(mode)
          \/ ApplyList \/ ResetList
      BY <2>3
    <3> QED BY <2>1, <3>1, RulesStep
  <2> QED BY <2>1, <2>2, <2>3, Zenon
<1> QED BY <1>1, <1>2, <1>3, <1>4, Zenon DEF FormsNext

\* A form without unsaved changes shows what the server runs with, for any
\* fields, texts, rules and reloads (ConfigState and AclState, from_config).
THEOREM FormsShow == FormsSpec => []FormsAreTrue
<1>1. FormsInv => FormsAreTrue
  <2> SUFFICES ASSUME FormsInv PROVE FormsTypeOK /\ CleanFormIsTrue /\ CleanListIsTrue
    BY DEF FormsAreTrue
  <2>1. FormTypes /\ FormFollows /\ CleanListIsTrue
    BY DEF FormsInv
  <2>2. FormsTypeOK
    <3>1. \A s \in FormFields : form[s] \in Inputs /\ guiConfig.settings[s] \in Inputs \ {"bad"}
      BY <2>1 DEF FormTypes, GuiConfigs
    <3>2. /\ Len(list) <= MaxSources /\ Len(guiConfig.rules) <= MaxSources /\ list \in Seq(Row)
          /\ guiConfig.mode \in Modes /\ listMode \in Modes
      BY <2>1 DEF FormTypes, GuiConfigs
    <3>3. \A i \in DOMAIN list : list[i] \in Row
      BY <3>2
    <3> QED BY <3>1, <3>2, <3>3 DEF FormsTypeOK, Row
  <2>3. CleanFormIsTrue
    BY <2>1 DEF FormFollows, CleanFormIsTrue
  <2> QED BY <2>1, <2>2, <2>3
<1> QED BY <1>1, FormsStart, FormsStep, PTL DEF FormsSpec

\* Applying a form changes what was changed in it and nothing else, and the
\* rules arrive in their order, for any fields, texts, rules and reloads; only
\* what is reloaded elsewhere after the form was filled, or between the clone
\* and its store, is taken back (apply of both tabs, AclState::to_config).
THEOREM FormsDoAsTheySay == FormsSpec => FormsApply
<1> DEFINE Typed == reloads' = reloads
                     => \A s \in FormFields : guiConfig'.settings[s] # guiConfig.settings[s]
                          => /\ s \in typed \cup moved
                             /\ ~crossed => applying = "form"
                                            /\ \A t \in FormFields : form[t] # "bad"
           Apart == reloads' = reloads
                     => /\ ~crossed /\ guiConfig'.settings # guiConfig.settings
                             => guiConfig'.rules = guiConfig.rules
                                /\ guiConfig'.mode = guiConfig.mode
                        /\ settingsVars' # settingsVars => rulesVars' = rulesVars
                        /\ guiConfig' # guiConfig
                             => settingsVars' = settingsVars \/ rulesVars' = rulesVars
           InOrder_ == reloads' = reloads /\ applying = "list" /\ applying' = "none"
                     => /\ Len(guiConfig'.rules) <= Len(list) /\ guiConfig'.mode = listMode
                        /\ \A i \in DOMAIN guiConfig'.rules :
                             \E k \in i .. Len(list) :
                               /\ list[k].enabled /\ list[k].source = guiConfig'.rules[i]
                               /\ Cardinality({j \in 1 .. k : list[j].enabled}) = i
<1>1. FormsInv /\ FormsNext => Typed /\ Apart /\ InOrder_
  <2> SUFFICES ASSUME FormsInv, FormsNext, reloads' = reloads PROVE Typed /\ Apart /\ InOrder_
    OBVIOUS
  <2>1. FormTypes /\ FormFollows /\ ApplyInv
    BY DEF FormsInv
  <2>2. ASSUME NEW text \in Inputs \ {"bad"}, NEW rules, NEW mode,
               GuiReload(Reloaded, text, rules, mode)
        PROVE  FALSE
    BY <2>2 DEF GuiReload
  <2>3. CASE StoreForm
    <3>1. /\ guiConfig' = toApply /\ rulesVars' = rulesVars /\ applying = "form"
      BY <2>3 DEF StoreForm
    <3>2. FormClone
      BY <2>1, <3>1 DEF ApplyInv
    <3>3. \A s \in FormFields : s \notin typed \cup moved => form[s] = guiConfig.settings[s]
      BY <2>1 DEF FormFollows
    <3>4. \A s \in FormFields : form[s] # "bad"
      BY <3>2 DEF FormClone, GuiConfigs
    <3> QED BY <3>1, <3>2, <3>3, <3>4 DEF FormClone
  <2>4. CASE StoreList
    <3>1. /\ guiConfig' = toApply /\ settingsVars' = settingsVars /\ applying = "list"
      BY <2>4 DEF StoreList
    <3>2. ListClone /\ list \in Seq(Row)
      BY <2>1, <3>1 DEF ApplyInv, FormTypes
    <3>3. Typed /\ Apart
      BY <3>1, <3>2 DEF ListClone
    <3>4. InOrder_
      <4> DEFINE new == ToConfig(list)
      <4>1. /\ new \in Seq(Sources) /\ Len(new) <= Len(list)
            /\ \A i \in 1 .. Len(new) :
                 \E k \in i .. Len(list) :
                   /\ list[k].enabled /\ list[k].source = new[i]
                   /\ Cardinality({j \in 1 .. k : list[j].enabled}) = i
        BY <3>2, StoredRules
      <4>2. guiConfig'.rules = new /\ guiConfig'.mode = listMode
        BY <3>1, <3>2 DEF ListClone
      <4> HIDE DEF new
      <4>3. DOMAIN new = 1 .. Len(new)
        BY <4>1
      <4> QED BY <4>1, <4>2, <4>3, Zenon
    <3> QED BY <3>3, <3>4
  <2>5. CASE Click
    <3>1. applying = "none"
      BY <2>5 DEF Click
    <3>2. \/ \E s \in FormFields, text \in Inputs : TypeInto(s, text)
          \/ ResetForm
          \/ \E text \in Inputs \ {"bad"} : DefaultsOrImport(text)
          => guiConfig' = guiConfig /\ rulesVars' = rulesVars
      BY DEF TypeInto, ResetForm, DefaultsOrImport, FillForm
    <3>3. ApplyForm \/ ApplyList
          => guiConfig' = guiConfig /\ rulesVars' = rulesVars /\ settingsVars' = settingsVars
      BY Zenon DEF ApplyForm, ApplyList, BeginApply
    <3>4. \/ \E i \in 1 .. MaxSources : EditRow(i)
          \/ \E source \in Sources : AddRow(source)
          \/ \E mode \in Modes : ChooseMode(mode)
          \/ ResetList
          => guiConfig' = guiConfig /\ settingsVars' = settingsVars
      <4>1. ASSUME NEW rules, ChangeList(rules)
            PROVE  guiConfig' = guiConfig /\ settingsVars' = settingsVars
        BY <4>1 DEF ChangeList
      <4> QED BY <4>1, Zenon DEF EditRow, AddRow, ChooseMode, ResetList
    <3>5. guiConfig' = guiConfig /\ (rulesVars' = rulesVars \/ settingsVars' = settingsVars)
      BY <2>5, <3>2, <3>3, <3>4, Zenon DEF Click
    <3> QED BY <3>1, <3>5
  <2>6. ~ \E text \in Inputs \ {"bad"} :
            \/ GuiReload(Reloaded, text, guiConfig.rules, guiConfig.mode)
            \/ GuiReload(Reloaded, text, FirstSources, FirstMode)
    BY <2>2, Zenon
  <2> HIDE DEF Typed, Apart, InOrder_
  <2> QED BY <2>3, <2>4, <2>5, <2>6, Zenon DEF FormsNext
<1>2. FormsInv /\ [FormsNext]_formsVars
        => [Typed]_formsVars /\ [Apart]_formsVars /\ [InOrder_]_formsVars
  BY <1>1
<1>3. FormsSpec => []FormsInv
  BY FormsStart, FormsStep, PTL DEF FormsSpec
<1>4. FormsSpec => [][Typed]_formsVars /\ [][Apart]_formsVars /\ [][InOrder_]_formsVars
  BY <1>2, <1>3, PTL DEF FormsSpec
<1> QED BY <1>4 DEF FormsApply, ApplyIsWhatWasTyped, FormsApart, AppliedInOrder

-----------------------------------------------------------------------------
(***************************************************************************)
(* What is joined                                                          *)
(***************************************************************************)

\* g[k] is the first k sequences of ss one after the other.
Joins(g, ss) ==
  /\ g[0] = <<>>
  /\ \A k \in Nat : k < Len(ss) => g[k + 1] = g[k] \o ss[k + 1]

\* The sequences are joined one by one, from the first on.
LEMMA FlattenLoop ==
  ASSUME NEW X, NEW ss \in Seq(Seq(X))
  PROVE  \E g : Joins(g, ss) /\ Flatten(ss) = g[Len(ss)]
<1> DEFINE z == Len(ss)
           step == [p \in Nat \X Seq(X) |-> IF p[1] < z THEN p[2] \o ss[p[1] + 1] ELSE <<>>]
           Is(g) == g = [k \in 0 .. z |-> IF k = 0 THEN <<>> ELSE g[k - 1] \o ss[k]]
           F == CHOOSE g : Is(g)
<1>0. z \in Nat
  OBVIOUS
<1>1. step \in [Nat \X Seq(X) -> Seq(X)] /\ <<>> \in Seq(X)
  <2>1. ASSUME NEW p \in Nat \X Seq(X)
        PROVE  (IF p[1] < z THEN p[2] \o ss[p[1] + 1] ELSE <<>>) \in Seq(X)
    <3>1. p[1] \in Nat /\ p[2] \in Seq(X)
      OBVIOUS
    <3>2. p[1] < z => ss[p[1] + 1] \in Seq(X)
      BY <3>1
    <3>3. p[1] < z => p[2] \o ss[p[1] + 1] \in Seq(X)
      BY <3>1, <3>2, Appended
    <3> QED BY <3>3
  <2> HIDE DEF z
  <2> QED BY <2>1
<1>2. PICK h \in Recursions(Seq(X), <<>>, step) : TRUE
  <2> HIDE DEF step
  <2> QED BY <1>1, RecursionExists
<1>3. /\ h[0] = <<>> /\ \A k \in Nat : h[k] \in Seq(X) /\ h[k + 1] = step[<<k, h[k]>>]
  <2> HIDE DEF step
  <2> QED BY <1>2 DEF Recursions
<1> HIDE DEF z
<1>4. ASSUME NEW k \in Nat, k < z PROVE h[k + 1] = h[k] \o ss[k + 1]
  <2>1. <<k, h[k]>> \in Nat \X Seq(X) /\ <<k, h[k]>>[1] = k /\ <<k, h[k]>>[2] = h[k]
    BY <1>3
  <2>2. h[k + 1] = step[<<k, h[k]>>]
    BY <1>3
  <2> QED BY <1>4, <2>1, <2>2
<1> HIDE DEF step
<1> DEFINE g == [k \in 0 .. z |-> h[k]]
<1>5. Is(g)
  <2>1. ASSUME NEW k \in 0 .. z
        PROVE  h[k] = IF k = 0 THEN <<>> ELSE g[k - 1] \o ss[k]
    <3>1. CASE k = 0
      BY <1>3, <3>1
    <3>2. CASE k # 0
      <4>1. k - 1 \in Nat /\ (k - 1) + 1 = k /\ k - 1 < z /\ k - 1 \in 0 .. z
        BY <1>0, <3>2
      <4>2. h[(k - 1) + 1] = h[k - 1] \o ss[(k - 1) + 1]
        BY <1>4, <4>1
      <4>3. g[k - 1] = h[k - 1]
        BY <4>1
      <4> QED BY <3>2, <4>1, <4>2, <4>3, Zenon
    <3> QED BY <3>1, <3>2
  <2> QED BY <2>1, Zenon
<1>6. Is(F)
  <2> HIDE DEF Is
  <2> QED BY <1>5, Zenon DEF F
<1>7. Flatten(ss) = F[z]
  BY Zenon DEF Flatten, F, Is, z
<1>8. F = [k \in 0 .. z |-> IF k = 0 THEN <<>> ELSE F[k - 1] \o ss[k]]
  BY <1>6, Zenon DEF Is
<1> HIDE DEF F
<1>9. F[0] = <<>>
  <2>1. 0 \in 0 .. z
    BY <1>0
  <2> QED BY <1>8, <2>1, Zenon
<1>10. ASSUME NEW k \in Nat, k < z PROVE F[k + 1] = F[k] \o ss[k + 1]
  <2>1. k + 1 \in 0 .. z /\ k + 1 # 0 /\ (k + 1) - 1 = k
    BY <1>0, <1>10
  <2> QED BY <1>8, <2>1, Zenon
<1> QED BY <1>7, <1>9, <1>10, Zenon DEF Joins, z

\* What is joined stays where it is: g[j] is the beginning of g[k].
LEMMA JoinsKeep ==
  ASSUME NEW X, NEW ss \in Seq(Seq(X)), NEW g, Joins(g, ss)
  PROVE  /\ \A k \in 0 .. Len(ss) : g[k] \in Seq(X) /\ Len(g[k]) \in Nat
         /\ \A k \in 0 .. Len(ss) : \A j \in 0 .. k :
              /\ Len(g[j]) <= Len(g[k])
              /\ \A i \in 1 .. Len(g[j]) : g[k][i] = g[j][i]
<1> DEFINE z == Len(ss)
           Begins(j, k) == /\ g[j] \in Seq(X) /\ Len(g[j]) <= Len(g[k])
                           /\ \A i \in 1 .. Len(g[j]) : g[k][i] = g[j][i]
           Ok(k) == /\ g[k] \in Seq(X)
                    /\ \A j \in 0 .. k : Begins(j, k)
           A == {k \in Nat : k <= z => Ok(k)}
<1>0. z \in Nat
  OBVIOUS
<1>1. g[0] = <<>> /\ \A k \in Nat : k < z => g[k + 1] = g[k] \o ss[k + 1]
  BY DEF Joins
<1>2. 0 \in A
  <2>1. g[0] \in Seq(X)
    BY <1>1
  <2>2. Len(g[0]) \in Nat
    BY <2>1
  <2>3. Begins(0, 0)
    BY <2>1, <2>2
  <2>4. \A j \in 0 .. 0 : j = 0
    OBVIOUS
  <2>5. Ok(0)
    <3> HIDE DEF Begins
    <3> QED BY <2>1, <2>3, <2>4
  <2> HIDE DEF Ok
  <2> QED BY <2>5
<1>3. ASSUME NEW k \in Nat, k \in A PROVE k + 1 \in A
  <2> SUFFICES ASSUME k + 1 <= z PROVE Ok(k + 1)
    OBVIOUS
  <2>1. Ok(k) /\ k < z /\ k + 1 \in 1 .. z
    <3> HIDE DEF z, Ok
    <3> QED BY <1>0, <1>3
  <2>2. ss[k + 1] \in Seq(X)
    BY <2>1
  <2> DEFINE r == g[k]
             q == g[k + 1]
             t == ss[k + 1]
  <2>3. q = r \o t /\ r \in Seq(X) /\ t \in Seq(X)
    <3> HIDE DEF z
    <3> QED BY <1>1, <2>1, <2>2
  <2> HIDE DEF r, q, t, z
  <2>4. /\ q \in Seq(X) /\ Len(q) = Len(r) + Len(t) /\ Len(r) \in Nat /\ Len(t) \in Nat
        /\ \A i \in 1 .. Len(q) : q[i] = IF i <= Len(r) THEN r[i] ELSE t[i - Len(r)]
    BY <2>3, Appended
  <2>5. Len(r) <= Len(q) /\ \A i \in 1 .. Len(r) : q[i] = r[i]
    BY <2>4
  <2>6. ASSUME NEW j \in 0 .. k + 1 PROVE Begins(j, k + 1)
    <3>1. CASE j = k + 1
      BY <2>4, <3>1 DEF q
    <3>2. CASE j # k + 1
      <4>1. j \in 0 .. k
        BY <3>2
      <4>2. Begins(j, k)
        BY <2>1, <4>1
      <4> DEFINE b == g[j]
      <4>3. b \in Seq(X) /\ Len(b) <= Len(r) /\ \A i \in 1 .. Len(b) : r[i] = b[i]
        BY <4>2 DEF r
      <4> HIDE DEF b
      <4>4. \A i \in 1 .. Len(b) : i \in 1 .. Len(r)
        BY <2>4, <4>3
      <4>5. Len(b) <= Len(q) /\ \A i \in 1 .. Len(b) : q[i] = b[i]
        BY <2>4, <2>5, <4>3, <4>4
      <4> QED BY <4>3, <4>5 DEF b, q
    <3> QED BY <3>1, <3>2
  <2> HIDE DEF Begins
  <2> QED BY <2>4, <2>6 DEF q
<1>4. Nat \subseteq A
  <2> HIDE DEF A
  <2> QED BY <1>2, <1>3, NatSet
<1>5. \A k \in 0 .. z : Ok(k)
  <2> HIDE DEF Ok, z
  <2> QED BY <1>0, <1>4
<1>6. \A k \in 0 .. z : g[k] \in Seq(X)
  BY <1>5
<1>7. \A k \in 0 .. z : Len(g[k]) \in Nat
  <2> HIDE DEF z
  <2> QED BY <1>6
<1>8. \A k \in 0 .. z : \A j \in 0 .. k : Begins(j, k)
  <2> HIDE DEF z, Begins
  <2> QED BY <1>5
<1> QED BY <1>6, <1>7, <1>8, Zenon DEF z, Begins

\* e stands in w behind the first p elements.
Stands(w, p, e) == \A i \in 1 .. Len(e) : w[p + i] = e[i]

\* Where sequence k + 1 is found in the whole
LEMMA JoinedPiece ==
  ASSUME NEW X, NEW ss \in Seq(Seq(X)), NEW g, Joins(g, ss), NEW k \in Nat, k < Len(ss)
  PROVE  /\ Len(g[k]) \in Nat /\ ss[k + 1] \in Seq(X) /\ Len(ss[k + 1]) \in Nat
         /\ Len(g[k + 1]) = Len(g[k]) + Len(ss[k + 1])
         /\ g[Len(ss)] \in Seq(X) /\ Len(g[k + 1]) <= Len(g[Len(ss)])
         /\ Stands(g[Len(ss)], Len(g[k]), ss[k + 1])
<1> DEFINE z == Len(ss)
           r == g[k]
           q == g[k + 1]
           t == ss[k + 1]
           w == g[z]
<1>1. z \in Nat /\ k \in 0 .. z /\ k + 1 \in 1 .. z /\ k + 1 \in 0 .. z /\ z \in 0 .. z
  OBVIOUS
<1>2. t \in Seq(X)
  BY <1>1
<1>3. q = r \o t
  BY DEF Joins
<1>4. /\ r \in Seq(X) /\ w \in Seq(X)
      /\ Len(q) <= Len(w) /\ \A i \in 1 .. Len(q) : w[i] = q[i]
  <2> HIDE DEF z
  <2>1. /\ \A m \in 0 .. z : g[m] \in Seq(X)
        /\ \A m \in 0 .. z : \A j \in 0 .. m :
             Len(g[j]) <= Len(g[m]) /\ \A i \in 1 .. Len(g[j]) : g[m][i] = g[j][i]
    BY JoinsKeep DEF z
  <2> QED BY <1>1, <2>1
<1> HIDE DEF z, r, q, t, w
<1>5. /\ Len(q) = Len(r) + Len(t) /\ Len(r) \in Nat /\ Len(t) \in Nat
      /\ \A i \in 1 .. Len(q) : q[i] = IF i <= Len(r) THEN r[i] ELSE t[i - Len(r)]
  BY <1>2, <1>3, <1>4, Appended
<1> DEFINE p == Len(r)
<1>6. ASSUME NEW i \in 1 .. Len(t) PROVE w[p + i] = t[i]
  <2>1. p + i \in 1 .. Len(q) /\ ~(p + i <= Len(r)) /\ (p + i) - Len(r) = i
    BY <1>5
  <2> HIDE DEF p
  <2> QED BY <1>4, <1>5, <2>1
<1> QED BY <1>2, <1>4, <1>5, <1>6, Zenon DEF z, r, q, t, w, p, Stands
=============================================================================
