-------------------------- MODULE DetectionProofs --------------------------
(***************************************************************************)
(* Proofs about Detection, for any set of packet threads and any number of *)
(* commands.  The argument is about what a thread has still to call: that  *)
(* every call that borrows something (the lock, the motor, the             *)
(* configuration, the timeout) has the call that gives it back behind it.  *)
(***************************************************************************)
EXTENDS Detection, TLAPS

CallName ==
  {"save", "bldc", "foc", "restore", "user", "init", "cal", "lock", "unlock", "override", "drive",
   "off", "foc_drive", "foc_stop", "foc_edit", "foc_unedit", "no_timeout", "timeout", "user_timeout",
   "pulse", "pulsed", "spinup"}

(* Calls s contains one of N; each of A in s has one of B behind it.       *)
Has(s, N) == \E i \in 1..Len(s) : s[i] \in N
Follows(s, A, B) == \A i \in 1..Len(s) : s[i] \in A => \E j \in (i + 1)..Len(s) : s[j] \in B
Alike(s, A, B) == \A i \in 1..Len(s) : s[i] \in A => \A j \in (i + 1)..Len(s) : s[j] \notin B

(* What has the configuration in it or changes it, and what ends a change. *)
Changes == {"save", "bldc", "foc", "foc_edit", "foc_unedit"}
Settles == {"restore", "user"}
Reverts == {"restore", "spinup"}
Halts == {"restore", "foc_stop", "spinup"}
Frees == {"unlock", "spinup"}
Unsettled == Changes \cup Reverts
Installs == {"user", "init"}
Stills == Halts \cup {"init"}

(* The timeout: each of no_timeout has the call that puts it back before   *)
(* the next one, and it is put back once.                                  *)
PutsBack == {"timeout", "spinup"}
Lends(s) ==
  \A i \in 1..Len(s) : s[i] = "no_timeout" =>
    \E j \in (i + 1)..Len(s) :
      s[j] \in PutsBack /\ \A k \in (i + 1)..(j - 1) : s[k] # "no_timeout"
Returns(s) ==
  \A i, j \in 1..Len(s) : i < j /\ s[i] = "timeout" /\ s[j] \in PutsBack =>
    \E k \in (i + 1)..(j - 1) : s[k] = "no_timeout"
Owing(s) ==
  \E i \in 1..Len(s) : s[i] \in PutsBack /\ \A k \in 1..(i - 1) : s[k] # "no_timeout"

(* What a thread has to call, at any point of its procedure.               *)
Shape(s) ==
  /\ s \in Seq(CallName)
  /\ \A i \in 2..Len(s) : s[i] \notin {"save", "init", "cal"}
  /\ Follows(s, {"lock"}, Frees)
  /\ Follows(s, {"drive", "foc_drive"}, Halts)
  /\ Follows(s, Changes, Reverts)
  /\ Alike(s, Settles, Unsettled \cup Installs)
  /\ Lends(s) /\ Returns(s)
  /\ Has(s, {"user_timeout"}) => ~Has(s, {"no_timeout", "timeout", "spinup"})

Conf == [type : MotorType, base : Nat, foc : Nat]
TypeInv ==
  /\ todo \in [Thread -> Seq(CallName)] /\ cell \in [Thread -> Cell]
  /\ target \in [Thread -> Conf] /\ mcconf_old \in [Cell -> Conf] /\ m_conf \in Conf
  /\ tout \in [Thread -> {Off, Short, Long}] /\ foc_old \in [Thread -> Nat]
  /\ timeout \in {Off, Short, Long} /\ wanted_timeout \in {Off, Short}
  /\ driver \in Thread \cup {"none"}
  /\ stop \subseteq UNION {Worker[type] : type \in MotorType}
  /\ calls \in Nat /\ wanted \in Conf

Shapes == \A t \in Thread : Shape(todo[t])

LockInv == lock => \E t \in Thread : Has(todo[t], Frees)
DriveInv == \A t \in Thread : driver = t => Has(todo[t], Stills)

Met == ~overlapped => \A t \in Thread : ~Idle(t) => Alone(t)

ImplInv ==
  ~overlapped =>
    /\ alive \subseteq Worker[m_conf.type]
    /\ \A t \in Thread : Has(todo[t], {"init"}) =>
         target[t].type # m_conf.type /\ alive \subseteq stop
    /\ \A t \in Thread : Has(todo[t], {"cal"}) => target[t].type = m_conf.type

(* The configuration that thread t leaves behind if nobody meets it.       *)
ConfigurationFollows(t) ==
  LET s == todo[t] IN
  \/ Has(s, Reverts) /\ IF Has(s, {"save"}) THEN m_conf = wanted ELSE mcconf_old[cell[t]] = wanted
  \/ ~Has(s, Unsettled) /\ Has(s, Installs) /\ target[t] = wanted
  \/ ~Has(s, Unsettled) /\ ~Has(s, Installs) /\ m_conf = wanted

TimeoutFollows(t) ==
  LET s == todo[t] IN
  \/ Owing(s) /\ tout[t] = wanted_timeout
  \/ ~Owing(s) /\ (Has(s, {"user_timeout"}) \/ timeout = wanted_timeout)

RestoreInv ==
  ~overlapped => \A t \in Thread : Alone(t) =>
    ConfigurationFollows(t) /\ (~spun_up => TimeoutFollows(t))

DetectionInv ==
  TypeInv /\ Shapes /\ LockInv /\ DriveInv /\ Met /\ ImplInv /\ RestoreInv

-----------------------------------------------------------------------------
(* A thread makes its first call: what it has still to call.               *)
LEMMA TailFacts ==
  ASSUME NEW s \in Seq(CallName), s # <<>>
  PROVE  /\ Tail(s) \in Seq(CallName) /\ Len(s) \in Nat /\ Len(s) > 0
         /\ Len(Tail(s)) = Len(s) - 1 /\ Head(s) = s[1] /\ Head(s) \in CallName
         /\ \A i \in 1..Len(Tail(s)) : Tail(s)[i] = s[i + 1]
  OBVIOUS

(* A call is to come if it is the first or among the others.               *)
LEMMA HasTail ==
  ASSUME NEW s \in Seq(CallName), s # <<>>, NEW N
  PROVE  Has(s, N) <=> Head(s) \in N \/ Has(Tail(s), N)
<1> USE TailFacts
<1>1. ASSUME NEW i \in 1..Len(s), s[i] \in N, Head(s) \notin N PROVE Has(Tail(s), N)
  <2>1. i - 1 \in 1..Len(Tail(s)) /\ Tail(s)[i - 1] = s[i]
    BY <1>1
  <2> QED
    BY <1>1, <2>1 DEF Has
<1>2. ASSUME NEW i \in 1..Len(Tail(s)), Tail(s)[i] \in N PROVE Has(s, N)
  <2>1. i + 1 \in 1..Len(s) /\ s[i + 1] = Tail(s)[i]
    BY <1>2
  <2> QED
    BY <1>2, <2>1 DEF Has
<1> QED
  BY <1>1, <1>2 DEF Has

(* What has to follow a call still follows it once other calls are made,   *)
(* and follows the first call once that is made.                           *)
LEMMA FollowsTail ==
  ASSUME NEW s \in Seq(CallName), s # <<>>, NEW A, NEW B, Follows(s, A, B)
  PROVE  Follows(Tail(s), A, B) /\ (Head(s) \in A => Has(Tail(s), B))
<1> USE TailFacts
<1>1. ASSUME NEW i \in 1..Len(Tail(s)), Tail(s)[i] \in A
      PROVE  \E j \in (i + 1)..Len(Tail(s)) : Tail(s)[j] \in B
  <2>1. i + 1 \in 1..Len(s) /\ s[i + 1] \in A
    BY <1>1
  <2>2. PICK j \in (i + 2)..Len(s) : s[j] \in B
    BY <2>1 DEF Follows
  <2>3. j - 1 \in (i + 1)..Len(Tail(s)) /\ Tail(s)[j - 1] = s[j]
    BY <2>2
  <2> QED
    BY <2>2, <2>3
<1>2. ASSUME Head(s) \in A PROVE Has(Tail(s), B)
  <2>1. PICK j \in 2..Len(s) : s[j] \in B
    BY <1>2 DEF Follows
  <2>2. j - 1 \in 1..Len(Tail(s)) /\ Tail(s)[j - 1] = s[j]
    BY <2>1
  <2> QED
    BY <2>1, <2>2 DEF Has
<1> QED
  BY <1>1, <1>2 DEF Follows

(* The same of what may not follow a call.                                 *)
LEMMA AlikeTail ==
  ASSUME NEW s \in Seq(CallName), s # <<>>, NEW A, NEW B, Alike(s, A, B)
  PROVE  Alike(Tail(s), A, B) /\ (Head(s) \in A => ~Has(Tail(s), B))
  BY TailFacts DEF Alike, Has

(* The timeout is owed from its no_timeout to the call that puts it back.  *)
LEMMA LendsTail ==
  ASSUME NEW s \in Seq(CallName), s # <<>>, Lends(s), Returns(s)
  PROVE  /\ Lends(Tail(s)) /\ Returns(Tail(s))
         /\ Head(s) = "no_timeout" => Owing(Tail(s)) /\ ~Owing(s)
         /\ Head(s) = "timeout" => Owing(s) /\ ~Owing(Tail(s))
         /\ Head(s) = "spinup" => Owing(s)
         /\ Head(s) \notin {"no_timeout", "timeout", "spinup"} => (Owing(s) <=> Owing(Tail(s)))
<1> USE TailFacts
<1>1. Lends(Tail(s))
  <2> SUFFICES ASSUME NEW i \in 1..Len(Tail(s)), Tail(s)[i] = "no_timeout"
               PROVE  \E j \in (i + 1)..Len(Tail(s)) :
                        Tail(s)[j] \in PutsBack /\ \A k \in (i + 1)..(j - 1) : Tail(s)[k] # "no_timeout"
    BY DEF Lends
  <2>1. i + 1 \in 1..Len(s) /\ s[i + 1] = "no_timeout"
    OBVIOUS
  <2>2. PICK j \in (i + 2)..Len(s) :
          s[j] \in PutsBack /\ \A k \in (i + 2)..(j - 1) : s[k] # "no_timeout"
    BY <2>1 DEF Lends
  <2>3. j - 1 \in (i + 1)..Len(Tail(s)) /\ Tail(s)[j - 1] = s[j]
    BY <2>2
  <2>4. ASSUME NEW k \in (i + 1)..(j - 1 - 1) PROVE Tail(s)[k] # "no_timeout"
    <3>1. k + 1 \in (i + 2)..(j - 1) /\ k \in 1..Len(Tail(s))
      BY <2>2, <2>4
    <3> QED
      BY <2>2, <3>1
  <2> QED
    BY <2>2, <2>3, <2>4
<1>2. Returns(Tail(s))
  <2> SUFFICES ASSUME NEW i \in 1..Len(Tail(s)), NEW j \in 1..Len(Tail(s)), i < j,
                      Tail(s)[i] = "timeout", Tail(s)[j] \in PutsBack
               PROVE  \E k \in (i + 1)..(j - 1) : Tail(s)[k] = "no_timeout"
    BY DEF Returns
  <2>1. i + 1 \in 1..Len(s) /\ j + 1 \in 1..Len(s) /\ i + 1 < j + 1
    OBVIOUS
  <2>2. PICK k \in (i + 2)..j : s[k] = "no_timeout"
    BY <2>1 DEF Returns
  <2>3. k - 1 \in (i + 1)..(j - 1) /\ Tail(s)[k - 1] = s[k]
    BY <2>2
  <2> QED
    BY <2>2, <2>3
<1>3. ASSUME Head(s) = "no_timeout" PROVE Owing(Tail(s)) /\ ~Owing(s)
  <2>1. PICK j \in 2..Len(s) :
          s[j] \in PutsBack /\ \A k \in 2..(j - 1) : s[k] # "no_timeout"
    BY <1>3 DEF Lends
  <2>2. j - 1 \in 1..Len(Tail(s)) /\ Tail(s)[j - 1] = s[j]
    BY <2>1
  <2>3. \A k \in 1..(j - 1 - 1) : Tail(s)[k] # "no_timeout"
    BY <2>1
  <2>4. Owing(Tail(s))
    BY <2>1, <2>2, <2>3 DEF Owing
  <2>5. ~Owing(s)
    BY <1>3 DEF Owing, PutsBack
  <2> QED
    BY <2>4, <2>5
<1>4. ASSUME Head(s) \in PutsBack PROVE Owing(s)
  BY <1>4 DEF Owing
<1>5. ASSUME Head(s) = "timeout", Owing(Tail(s)) PROVE FALSE
  <2>1. PICK i \in 1..Len(Tail(s)) :
          Tail(s)[i] \in PutsBack /\ \A k \in 1..(i - 1) : Tail(s)[k] # "no_timeout"
    BY <1>5 DEF Owing
  <2>2. 1 \in 1..Len(s) /\ i + 1 \in 1..Len(s) /\ 1 < i + 1 /\ s[i + 1] \in PutsBack
    BY <2>1
  <2>3. PICK k \in 2..i : s[k] = "no_timeout"
    BY <1>5, <2>2 DEF Returns
  <2>4. k - 1 \in 1..(i - 1) /\ Tail(s)[k - 1] = s[k]
    BY <2>1, <2>3
  <2> QED
    BY <2>1, <2>3, <2>4
<1>6. ASSUME Head(s) \notin {"no_timeout", "timeout", "spinup"} PROVE Owing(s) <=> Owing(Tail(s))
  <2>1. ASSUME Owing(s) PROVE Owing(Tail(s))
    <3>1. PICK i \in 1..Len(s) : s[i] \in PutsBack /\ \A k \in 1..(i - 1) : s[k] # "no_timeout"
      BY <2>1 DEF Owing
    <3>2. i - 1 \in 1..Len(Tail(s)) /\ Tail(s)[i - 1] = s[i]
      BY <1>6, <3>1 DEF PutsBack
    <3>3. \A k \in 1..(i - 1 - 1) : Tail(s)[k] # "no_timeout"
      BY <3>1
    <3> QED
      BY <3>1, <3>2, <3>3 DEF Owing
  <2>2. ASSUME Owing(Tail(s)) PROVE Owing(s)
    <3>1. PICK i \in 1..Len(Tail(s)) :
            Tail(s)[i] \in PutsBack /\ \A k \in 1..(i - 1) : Tail(s)[k] # "no_timeout"
      BY <2>2 DEF Owing
    <3>2. i + 1 \in 1..Len(s) /\ s[i + 1] \in PutsBack
      BY <3>1
    <3>3. ASSUME NEW k \in 1..i PROVE s[k] # "no_timeout"
      <4>1. CASE k = 1
        BY <1>6, <4>1
      <4>2. CASE k > 1
        <5>1. k - 1 \in 1..(i - 1) /\ Tail(s)[k - 1] = s[k]
          BY <3>1, <4>2
        <5> QED
          BY <3>1, <5>1
      <4> QED
        BY <4>1, <4>2
    <3> QED
      BY <3>2, <3>3 DEF Owing
  <2> QED
    BY <2>1, <2>2
<1> QED
  BY <1>1, <1>2, <1>3, <1>4, <1>5, <1>6 DEF PutsBack

(* So a procedure keeps its shape when its first call is made.             *)
LEMMA ShapeTail ==
  ASSUME NEW s, Shape(s), s # <<>>
  PROVE  Shape(Tail(s))
<1>0. s \in Seq(CallName)
  BY DEF Shape
<1>1. \A i \in 2..Len(Tail(s)) : Tail(s)[i] \notin {"save", "init", "cal"}
  BY <1>0, TailFacts DEF Shape
<1>2. /\ Follows(Tail(s), {"lock"}, Frees)
      /\ Follows(Tail(s), {"drive", "foc_drive"}, Halts)
      /\ Follows(Tail(s), Changes, Reverts)
  BY <1>0, FollowsTail DEF Shape
<1>3. Alike(Tail(s), Settles, Unsettled \cup Installs)
  BY <1>0, AlikeTail DEF Shape
<1>4. Lends(Tail(s)) /\ Returns(Tail(s))
  BY <1>0, LendsTail DEF Shape
<1>5. Has(Tail(s), {"user_timeout"}) => ~Has(Tail(s), {"no_timeout", "timeout", "spinup"})
  BY <1>0, HasTail DEF Shape
<1> QED
  BY <1>0, <1>1, <1>2, <1>3, <1>4, <1>5, TailFacts DEF Shape

(* A call put in front: the save of a detection, and the wait for the      *)
(* threads of the other motor implementation.                              *)
LEMMA ConsFacts ==
  ASSUME NEW s \in Seq(CallName), NEW x \in CallName
  PROVE  LET r == <<x>> \o s IN
         /\ r \in Seq(CallName) /\ r # <<>> /\ Len(r) = Len(s) + 1 /\ r[1] = x /\ Len(s) \in Nat
         /\ \A i \in 2..Len(r) : r[i] = s[i - 1] /\ i - 1 \in 1..Len(s)
         /\ \A i \in 1..Len(s) : s[i] = r[i + 1] /\ i + 1 \in 2..Len(r)
  OBVIOUS

(* What the calls behind it contain is still to come.                      *)
LEMMA HasCons ==
  ASSUME NEW s \in Seq(CallName), NEW x \in CallName, NEW N
  PROVE  Has(<<x>> \o s, N) <=> x \in N \/ Has(s, N)
<1> DEFINE r == <<x>> \o s
<1>f. /\ r \in Seq(CallName) /\ r # <<>> /\ Len(r) = Len(s) + 1 /\ r[1] = x /\ Len(s) \in Nat
      /\ \A i \in 2..Len(r) : r[i] = s[i - 1] /\ i - 1 \in 1..Len(s)
      /\ \A i \in 1..Len(s) : s[i] = r[i + 1] /\ i + 1 \in 2..Len(r)
  BY ConsFacts
<1> HIDE DEF r
<1>1. ASSUME Has(s, N) PROVE Has(r, N)
  <2>1. PICK i \in 1..Len(s) : s[i] \in N
    BY <1>1 DEF Has
  <2>2. i + 1 \in 1..Len(r) /\ r[i + 1] \in N
    BY <1>f, <2>1
  <2> QED
    BY <2>2 DEF Has
<1>2. ASSUME x \in N PROVE Has(r, N)
  BY <1>2, <1>f DEF Has
<1>3. ASSUME Has(r, N), x \notin N PROVE Has(s, N)
  <2>1. PICK i \in 1..Len(r) : r[i] \in N
    BY <1>3 DEF Has
  <2>2. i \in 2..Len(r)
    BY <1>3, <1>f, <2>1
  <2> QED
    BY <1>f, <2>1, <2>2 DEF Has
<1>4. Has(r, N) <=> x \in N \/ Has(s, N)
  BY <1>1, <1>2, <1>3
<1> QED
  BY <1>4 DEF r

(* What has to follow the other calls still does.                          *)
LEMMA FollowsCons ==
  ASSUME NEW s \in Seq(CallName), NEW x \in CallName, NEW A, NEW B, Follows(s, A, B),
         x \in A => Has(s, B)
  PROVE  Follows(<<x>> \o s, A, B)
<1> DEFINE r == <<x>> \o s
<1>f. /\ r \in Seq(CallName) /\ r # <<>> /\ Len(r) = Len(s) + 1 /\ r[1] = x /\ Len(s) \in Nat
      /\ \A i \in 2..Len(r) : r[i] = s[i - 1] /\ i - 1 \in 1..Len(s)
      /\ \A i \in 1..Len(s) : s[i] = r[i + 1] /\ i + 1 \in 2..Len(r)
  BY ConsFacts
<1> HIDE DEF r
<1>1. ASSUME NEW i \in 1..Len(r), r[i] \in A PROVE \E j \in (i + 1)..Len(r) : r[j] \in B
  <2>1. CASE i = 1
    <3>1. PICK j \in 1..Len(s) : s[j] \in B
      BY <1>1, <1>f, <2>1 DEF Has
    <3>2. j + 1 \in (i + 1)..Len(r) /\ r[j + 1] \in B
      BY <1>f, <2>1, <3>1
    <3> QED
      BY <3>2
  <2>2. CASE i # 1
    <3>1. i - 1 \in 1..Len(s) /\ s[i - 1] \in A
      BY <1>1, <1>f, <2>2
    <3>2. PICK j \in i..Len(s) : s[j] \in B
      BY <3>1, <1>f DEF Follows
    <3>3. j + 1 \in (i + 1)..Len(r) /\ r[j + 1] \in B
      BY <1>f, <3>1, <3>2
    <3> QED
      BY <3>3
  <2> QED
    BY <2>1, <2>2
<1>2. Follows(r, A, B)
  BY <1>1 DEF Follows
<1> QED
  BY <1>2 DEF r

(* Neither save nor init nor cal is about the timeout.                     *)
LEMMA LendsCons ==
  ASSUME NEW s \in Seq(CallName), NEW x \in {"save", "init", "cal"}, Lends(s), Returns(s)
  PROVE  Lends(<<x>> \o s) /\ Returns(<<x>> \o s)
<1> DEFINE r == <<x>> \o s
<1>f. /\ r \in Seq(CallName) /\ r # <<>> /\ Len(r) = Len(s) + 1 /\ r[1] = x /\ Len(s) \in Nat
      /\ \A i \in 2..Len(r) : r[i] = s[i - 1] /\ i - 1 \in 1..Len(s)
      /\ \A i \in 1..Len(s) : s[i] = r[i + 1] /\ i + 1 \in 2..Len(r)
  BY ConsFacts DEF CallName
<1> HIDE DEF r
<1>1. Lends(r)
  <2> SUFFICES ASSUME NEW i \in 1..Len(r), r[i] = "no_timeout"
               PROVE  \E j \in (i + 1)..Len(r) :
                        r[j] \in PutsBack /\ \A k \in (i + 1)..(j - 1) : r[k] # "no_timeout"
    BY DEF Lends
  <2>1. i - 1 \in 1..Len(s) /\ s[i - 1] = "no_timeout"
    BY <1>f
  <2>2. PICK j \in i..Len(s) :
          s[j] \in PutsBack /\ \A k \in i..(j - 1) : s[k] # "no_timeout"
    BY <1>f, <2>1 DEF Lends
  <2>3. j + 1 \in (i + 1)..Len(r) /\ r[j + 1] = s[j]
    BY <1>f, <2>1, <2>2
  <2>4. ASSUME NEW k \in (i + 1)..(j + 1 - 1) PROVE r[k] # "no_timeout"
    <3>1. k - 1 \in i..(j - 1) /\ k \in 2..Len(r)
      BY <1>f, <2>1, <2>2, <2>4
    <3> QED
      BY <1>f, <2>2, <3>1
  <2> QED
    BY <2>2, <2>3, <2>4
<1>2. Returns(r)
  <2> SUFFICES ASSUME NEW i \in 1..Len(r), NEW j \in 1..Len(r), i < j,
                      r[i] = "timeout", r[j] \in PutsBack
               PROVE  \E k \in (i + 1)..(j - 1) : r[k] = "no_timeout"
    BY DEF Returns
  <2>1. /\ i - 1 \in 1..Len(s) /\ j - 1 \in 1..Len(s) /\ i - 1 < j - 1
        /\ s[i - 1] = "timeout" /\ s[j - 1] \in PutsBack
    BY <1>f
  <2>2. PICK k \in ((i - 1) + 1)..((j - 1) - 1) : s[k] = "no_timeout"
    BY <2>1 DEF Returns
  <2>3. k + 1 \in (i + 1)..(j - 1) /\ r[k + 1] = s[k]
    BY <1>f, <2>1, <2>2
  <2> QED
    BY <2>2, <2>3
<1> QED
  BY <1>1, <1>2 DEF r

(* A procedure keeps its shape with a save, an init or a cal in front.     *)
LEMMA ShapeCons ==
  ASSUME NEW s, Shape(s), ~Has(s, {"save", "init", "cal"}), NEW x \in {"save", "init", "cal"},
         x = "save" => Has(s, Reverts)
  PROVE  Shape(<<x>> \o s) /\ (Owing(<<x>> \o s) <=> Owing(s))
<1> DEFINE r == <<x>> \o s
<1>0. s \in Seq(CallName) /\ x \in CallName
  BY DEF Shape, CallName
<1>f. /\ r \in Seq(CallName) /\ r # <<>> /\ Len(r) = Len(s) + 1 /\ r[1] = x /\ Len(s) \in Nat
      /\ \A i \in 2..Len(r) : r[i] = s[i - 1] /\ i - 1 \in 1..Len(s)
      /\ \A i \in 1..Len(s) : s[i] = r[i + 1] /\ i + 1 \in 2..Len(r)
  BY <1>0, ConsFacts
<1>1. \A i \in 2..Len(r) : r[i] \notin {"save", "init", "cal"}
  BY <1>f DEF Has
<1>2. /\ Follows(r, {"lock"}, Frees)
      /\ Follows(r, {"drive", "foc_drive"}, Halts)
      /\ Follows(r, Changes, Reverts)
  BY <1>0, FollowsCons DEF Shape, Changes
<1>3. Lends(r) /\ Returns(r)
  BY <1>0, LendsCons DEF Shape
<1>4. Has(r, {"user_timeout"}) => ~Has(r, {"no_timeout", "timeout", "spinup"})
  BY <1>0, HasCons DEF Shape
<1>t. Head(r) = x /\ Tail(r) = s
  BY <1>0
<1>5. Owing(r) <=> Owing(s)
  BY <1>0, <1>f, <1>3, <1>t, LendsTail
<1> HIDE DEF r
<1>6. Alike(r, Settles, Unsettled \cup Installs)
  <2> SUFFICES ASSUME NEW i \in 1..Len(r), r[i] \in Settles, NEW j \in (i + 1)..Len(r)
               PROVE  r[j] \notin Unsettled \cup Installs
    BY DEF Alike
  <2>1. i - 1 \in 1..Len(s) /\ j - 1 \in i..Len(s) /\ s[i - 1] = r[i] /\ s[j - 1] = r[j]
    BY <1>f DEF Settles
  <2> QED
    BY <1>f, <2>1 DEF Shape, Alike
<1>7. Shape(r)
  BY <1>f, <1>1, <1>2, <1>3, <1>4, <1>6 DEF Shape
<1> QED
  BY <1>5, <1>7 DEF r

-----------------------------------------------------------------------------
(* The procedures have that shape, whether they are commands' or the       *)
(* terminal's ...                                                          *)
LEMMA ShapeFlux == Shape(measure_flux_linkage)
  BY DEF Shape, measure_flux_linkage, Follows, Alike, Lends, Returns, Has, CallName, Changes,
     Reverts, Settles, Unsettled, Installs, Halts, Frees, PutsBack

(* COMM_DETECT_MOTOR_PARAM.                                                *)
LEMMA ShapeMotorParam == Shape(detect_motor_param)
  BY DEF Shape, detect_motor_param, Follows, Alike, Lends, Returns, Has, CallName, Changes,
     Reverts, Settles, Unsettled, Installs, Halts, Frees, PutsBack

(* mcpwm_foc_encoder_detect.                                               *)
LEMMA ShapeEncoder == Shape(InFoc(encoder_detect)) /\ Shape(<<"save">> \o InFoc(encoder_detect))
  BY DEF InFoc, encoder_detect, Shape, Follows, Alike, Lends, Returns, Has, CallName, Changes,
     Reverts, Settles, Unsettled, Installs, Halts, Frees, PutsBack

(* mcpwm_foc_hall_detect.                                                  *)
LEMMA ShapeHall == Shape(InFoc(hall_detect)) /\ Shape(<<"save">> \o InFoc(hall_detect))
  BY DEF InFoc, hall_detect, Shape, Follows, Alike, Lends, Returns, Has, CallName, Changes,
     Reverts, Settles, Unsettled, Installs, Halts, Frees, PutsBack

(* mcpwm_foc_measure_inductance, from the terminal.                        *)
LEMMA ShapeInductance == Shape(InFoc(measure_inductance))
  BY DEF InFoc, measure_inductance, Shape, Follows, Alike, Lends, Returns, Has, CallName, Changes,
     Reverts, Settles, Unsettled, Installs, Halts, Frees, PutsBack

(* mcpwm_foc_measure_res_ind, in which measurements follow each other.     *)
LEMMA ShapeResInd == Shape(InFoc(measure_res_ind)) /\ Shape(<<"save">> \o InFoc(measure_res_ind))
<1> DEFINE p == InFoc(measure_res_ind)
<1> USE DEF InFoc, measure_res_ind, measure_resistance, hall_detect, measure_inductance
<1>1. p \in Seq(CallName)
  BY DEF CallName
<1>2. \A i \in 1..Len(p) : p[i] \notin {"save", "init", "cal", "user_timeout"}
  OBVIOUS
<1>3. Follows(p, {"lock"}, Frees) /\ Follows(p, {"drive", "foc_drive"}, Halts)
  BY DEF Follows, Frees, Halts
<1>4. Follows(p, Changes, Reverts)
  BY DEF Follows, Changes, Reverts
<1>5. Alike(p, Settles, Unsettled \cup Installs)
  BY DEF Alike, Changes, Reverts, Settles, Unsettled, Installs
<1>6. Lends(p)
  BY DEF Lends, PutsBack
<1>7. Returns(p)
  BY DEF Returns, PutsBack
<1>8. Has(p, Reverts)
  BY DEF Has, Reverts
<1> HIDE DEF p
<1>9. Shape(p) /\ ~Has(p, {"save", "init", "cal"})
  BY <1>1, <1>2, <1>3, <1>4, <1>5, <1>6, <1>7 DEF Shape, Has
<1>10. Shape(<<"save">> \o p)
  BY <1>8, <1>9, ShapeCons
<1> QED
  BY <1>9, <1>10 DEF p

(* measure_linkage_foc of the terminal.                                    *)
LEMMA ShapeLinkage == Shape(measure_linkage_foc)
  BY DEF Shape, measure_linkage_foc, Follows, Alike, Lends, Returns, Has, CallName, Changes,
     Reverts, Settles, Unsettled, Installs, Halts, Frees, PutsBack

(* ... or store a configuration; and so do the two ways in which a flux    *)
(* linkage measurement goes on, which free, halt and revert what it has    *)
(* borrowed, and of which only the one that failed puts the timeout back.  *)
LEMMA ShapeStores == Shape(set_mcconf) /\ Shape(set_appconf)
  BY DEF Shape, set_mcconf, set_appconf, Follows, Alike, Lends, Returns, Has, CallName, Changes,
     Reverts, Settles, Unsettled, Installs, Halts, Frees, PutsBack

(* Both ends of conf_general_measure_flux_linkage.                         *)
LEMMA ShapeSpinup ==
  \A s \in {SpunUp, NotSpunUp} :
    /\ Shape(s) /\ Has(s, Frees) /\ Has(s, Halts) /\ Has(s, Reverts)
    /\ ~Has(s, {"save", "init", "cal"})
<1>1. /\ Shape(SpunUp) /\ Has(SpunUp, Frees) /\ Has(SpunUp, Halts) /\ Has(SpunUp, Reverts)
      /\ ~Has(SpunUp, {"save", "init", "cal"})
  BY DEF Shape, SpunUp, Follows, Alike, Lends, Returns, Has, CallName, Changes,
     Reverts, Settles, Unsettled, Installs, Halts, Frees, PutsBack
<1>2. /\ Shape(NotSpunUp) /\ Has(NotSpunUp, Frees) /\ Has(NotSpunUp, Halts) /\ Has(NotSpunUp, Reverts)
      /\ ~Has(NotSpunUp, {"save", "init", "cal"})
  BY DEF Shape, NotSpunUp, Follows, Alike, Lends, Returns, Has, CallName, Changes,
     Reverts, Settles, Unsettled, Installs, Halts, Frees, PutsBack
<1> QED
  BY <1>1, <1>2

(* The failed one has the timeout to put back.                             *)
LEMMA NotSpunUpOwing == Owing(NotSpunUp)
  BY DEF Owing, NotSpunUp, PutsBack

(* What a procedure has to do before its first call.                       *)
Fresh(p, saved) ==
  /\ Shape(p) /\ ~Has(p, {"init"}) /\ ~Has(p, {"cal"}) /\ ~Owing(p)
  /\ \/ saved /\ Has(p, Reverts) /\ ~Has(p, {"save"})
     \/ Has(p, {"save"}) /\ Has(p, Reverts)

(* Every procedure starts with nothing owed, and either saves the          *)
(* configuration first or has it saved by the terminal.                    *)
LEMMA FreshProcedures ==
  /\ \A p \in FocDetections : Fresh(<<"save">> \o InFoc(p), FALSE)
  /\ \A p \in TerminalDetections : Fresh(p, TRUE)
  /\ Fresh(measure_flux_linkage, FALSE)
  /\ Fresh(detect_motor_param, FALSE)
<1>1. Fresh(measure_flux_linkage, FALSE)
  BY ShapeFlux DEF Fresh, Has, Owing, measure_flux_linkage, Reverts, PutsBack
<1>2. Fresh(detect_motor_param, FALSE)
  BY ShapeMotorParam DEF Fresh, Has, Owing, detect_motor_param, Reverts, PutsBack
<1>3. Fresh(measure_linkage_foc, TRUE)
  BY ShapeLinkage DEF Fresh, Has, Owing, measure_linkage_foc, Reverts, PutsBack
<1>4. Fresh(InFoc(encoder_detect), TRUE) /\ Fresh(<<"save">> \o InFoc(encoder_detect), FALSE)
  BY ShapeEncoder DEF Fresh, Has, Owing, InFoc, encoder_detect, Reverts, PutsBack
<1>5. Fresh(InFoc(hall_detect), TRUE) /\ Fresh(<<"save">> \o InFoc(hall_detect), FALSE)
  BY ShapeHall DEF Fresh, Has, Owing, InFoc, hall_detect, Reverts, PutsBack
<1>6. Fresh(InFoc(measure_inductance), TRUE)
  BY ShapeInductance DEF Fresh, Has, Owing, InFoc, measure_inductance, Reverts, PutsBack
<1>7. Fresh(InFoc(measure_res_ind), TRUE) /\ Fresh(<<"save">> \o InFoc(measure_res_ind), FALSE)
  BY ShapeResInd DEF Fresh, Has, Owing, InFoc, measure_res_ind, measure_resistance, hall_detect,
     measure_inductance, Reverts, PutsBack
<1> QED
  BY <1>1, <1>2, <1>3, <1>4, <1>5, <1>6, <1>7 DEF FocDetections, TerminalDetections

-----------------------------------------------------------------------------
(* A call of thread t: what is behind it.                                  *)
Behind(t) ==
  LET s == todo[t]  r == todo'[t] IN
  /\ s # <<>> /\ Head(s) \in CallName
  /\ Shape(r) /\ \A u \in Thread \ {t} : todo'[u] = todo[u]
  /\ todo' \in [Thread -> Seq(CallName)]
  /\ Has(s, Frees) /\ Head(s) # "unlock" => Has(r, Frees)
  /\ Head(s) = "lock" => Has(r, Frees)
  /\ Has(s, Stills) /\ Head(s) \notin {"restore", "user", "foc_stop", "init"} => Has(r, Stills)
  /\ Head(s) \in {"drive", "foc_drive"} => Has(r, Stills)

(* A call leaves the others behind it.                                     *)
LEMMA CallBehind ==
  ASSUME TypeInv, Shapes, NEW t \in Thread, NEW names, Call(t, names), "spinup" \notin names
  PROVE  /\ Behind(t) /\ Head(todo[t]) \in names
         /\ todo'[t] = Tail(todo[t]) /\ ~Has(todo'[t], {"save"}) /\ ~Has(todo'[t], {"init"})
         /\ ~Has(todo'[t], {"cal"})
<1> DEFINE s == todo[t]
<1>1. s \in Seq(CallName) /\ s # <<>> /\ Head(s) \in names /\ Shape(s)
  BY DEF TypeInv, Shapes, Call, Next1
<1>2. todo'[t] = Tail(s) /\ \A u \in Thread \ {t} : todo'[u] = todo[u]
  BY DEF TypeInv, Call
<1>3. Shape(Tail(s)) /\ Head(s) \in CallName
  BY <1>1, ShapeTail, TailFacts
<1>4. todo' \in [Thread -> Seq(CallName)]
  BY <1>1, TailFacts DEF TypeInv, Call
<1>5. \A N : Has(s, N) <=> Head(s) \in N \/ Has(Tail(s), N)
  BY <1>1, HasTail
<1>6. ~Has(Tail(s), {"save"}) /\ ~Has(Tail(s), {"init"}) /\ ~Has(Tail(s), {"cal"})
  BY <1>1, TailFacts DEF Shape, Has
<1>7. Head(s) = "lock" => Has(Tail(s), Frees)
  BY <1>1, FollowsTail DEF Shape
<1>8. Head(s) \in {"drive", "foc_drive"} => Has(Tail(s), Halts)
  BY <1>1, FollowsTail DEF Shape
<1>9. Has(Tail(s), Halts) => Has(Tail(s), Stills)
  BY DEF Has, Stills
<1>10. Has(s, Frees) /\ Head(s) # "unlock" => Has(Tail(s), Frees)
  BY <1>1, <1>5 DEF Frees
<1>11. Has(s, Stills) /\ Head(s) \notin {"restore", "user", "foc_stop", "init"} => Has(Tail(s), Stills)
  BY <1>1, <1>5 DEF Stills, Halts
<1> HIDE DEF s
<1> QED
  BY <1>1, <1>2, <1>3, <1>4, <1>6, <1>7, <1>8, <1>9, <1>10, <1>11 DEF Behind, s

(* The wait of mc_interface_set_configuration replaces its call ...        *)
LEMMA DeinitBehind ==
  ASSUME TypeInv, Shapes, NEW t \in Thread, Deinit(t)
  PROVE  /\ Behind(t) /\ todo'[t] = <<"init">> \o Tail(todo[t])
         /\ Has(todo'[t], {"init"}) /\ Has(todo'[t], Stills) /\ Has(todo'[t], Installs)
         /\ ~Has(todo'[t], {"save"}) /\ ~Has(todo'[t], {"cal"})
         /\ Owing(todo'[t]) <=> Owing(todo[t])
         /\ Head(todo[t]) \in {"bldc", "foc", "restore", "user"}
<1> DEFINE s == todo[t]
           r == <<"init">> \o Tail(s)
<1>1. s \in Seq(CallName) /\ s # <<>> /\ Shape(s) /\ Head(s) \in {"bldc", "foc", "restore", "user"}
  BY DEF TypeInv, Shapes, Deinit, Next1
<1>2. todo'[t] = r /\ \A u \in Thread \ {t} : todo'[u] = todo[u]
  BY DEF TypeInv, Deinit
<1>3. Shape(Tail(s)) /\ ~Has(Tail(s), {"save", "init", "cal"}) /\ Tail(s) \in Seq(CallName)
  <2>1. Shape(Tail(s)) /\ Tail(s) \in Seq(CallName)
    BY <1>1, ShapeTail DEF Shape
  <2>2. ~Has(Tail(s), {"save", "init", "cal"})
    BY <1>1, TailFacts DEF Shape, Has
  <2> QED
    BY <2>1, <2>2
<1>4. Shape(r) /\ (Owing(r) <=> Owing(Tail(s)))
  BY <1>3, ShapeCons
<1>5. Owing(s) <=> Owing(Tail(s))
  BY <1>1, LendsTail DEF Shape
<1>6. \A N : Has(r, N) <=> "init" \in N \/ Has(Tail(s), N)
  BY <1>3, HasCons DEF CallName
<1>7. Has(r, {"init"}) /\ Has(r, Stills) /\ Has(r, Installs)
  BY <1>6 DEF Stills, Installs
<1>8. ~Has(r, {"save"}) /\ ~Has(r, {"cal"})
  <2>1. ~Has(Tail(s), {"save"}) /\ ~Has(Tail(s), {"cal"})
    BY <1>3 DEF Has
  <2> QED
    BY <1>6, <2>1
<1>9. todo' \in [Thread -> Seq(CallName)]
  <2>1. r \in Seq(CallName) /\ todo' = [todo EXCEPT ![t] = r]
    BY <1>4 DEF Deinit, Shape
  <2> HIDE DEF r
  <2> QED
    BY <2>1 DEF TypeInv
<1>10. Has(s, Frees) => Has(r, Frees)
  BY <1>1, <1>6, HasTail DEF Frees
<1> HIDE DEF s, r
<1>11. Behind(t)
  BY <1>1, <1>2, <1>4, <1>7, <1>9, <1>10 DEF Behind, CallName, s
<1> QED
  BY <1>1, <1>2, <1>4, <1>5, <1>7, <1>8, <1>11 DEF s, r

(* ... and the calibration replaces the wait ...                           *)
LEMMA InitBehind ==
  ASSUME TypeInv, Shapes, NEW t \in Thread, InitImpl(t)
  PROVE  /\ Behind(t) /\ todo'[t] = <<"cal">> \o Tail(todo[t]) /\ Head(todo[t]) = "init"
         /\ ~Has(todo'[t], {"save"}) /\ ~Has(todo'[t], {"init"}) /\ Tail(todo[t]) \in Seq(CallName)
         /\ Owing(todo'[t]) <=> Owing(todo[t])
         /\ \A N : Has(todo'[t], N) <=> "cal" \in N \/ Has(Tail(todo[t]), N)
<1> DEFINE s == todo[t]
           r == <<"cal">> \o Tail(s)
<1>1. s \in Seq(CallName) /\ s # <<>> /\ Shape(s) /\ Head(s) = "init"
  BY DEF TypeInv, Shapes, InitImpl, Next1
<1>2. todo'[t] = r /\ \A u \in Thread \ {t} : todo'[u] = todo[u]
  BY DEF TypeInv, InitImpl
<1>3. Shape(Tail(s)) /\ ~Has(Tail(s), {"save", "init", "cal"}) /\ Tail(s) \in Seq(CallName)
  <2>1. Shape(Tail(s)) /\ Tail(s) \in Seq(CallName)
    BY <1>1, ShapeTail DEF Shape
  <2>2. ~Has(Tail(s), {"save", "init", "cal"})
    BY <1>1, TailFacts DEF Shape, Has
  <2> QED
    BY <2>1, <2>2
<1>4. Shape(r) /\ (Owing(r) <=> Owing(Tail(s)))
  BY <1>3, ShapeCons
<1>5. Owing(s) <=> Owing(Tail(s))
  BY <1>1, LendsTail DEF Shape
<1>6. \A N : Has(r, N) <=> "cal" \in N \/ Has(Tail(s), N)
  BY <1>3, HasCons DEF CallName
<1>7. ~Has(r, {"save"}) /\ ~Has(r, {"init"})
  <2>1. ~Has(Tail(s), {"save"}) /\ ~Has(Tail(s), {"init"})
    BY <1>3 DEF Has
  <2> QED
    BY <1>6, <2>1
<1>8. todo' \in [Thread -> Seq(CallName)]
  <2>1. r \in Seq(CallName) /\ todo' = [todo EXCEPT ![t] = r]
    BY <1>4 DEF InitImpl, Shape
  <2> HIDE DEF r
  <2> QED
    BY <2>1 DEF TypeInv
<1>9. Has(s, Frees) => Has(r, Frees)
  BY <1>1, <1>6, HasTail DEF Frees
<1> HIDE DEF s, r
<1>10. Behind(t)
  BY <1>1, <1>2, <1>4, <1>8, <1>9 DEF Behind, CallName, s
<1> QED
  BY <1>1, <1>2, <1>3, <1>4, <1>5, <1>6, <1>7, <1>10 DEF s, r

(* ... and the spin-up of a flux linkage measurement decides how it ends.  *)
LEMMA SpinUpBehind ==
  ASSUME TypeInv, Shapes, NEW t \in Thread, SpinUp(t)
  PROVE  /\ Behind(t) /\ Head(todo[t]) = "spinup"
         /\ Has(todo'[t], Reverts) /\ ~Has(todo'[t], {"save"}) /\ ~Has(todo'[t], {"init"})
         /\ ~Has(todo'[t], {"cal"})
         /\ ~spun_up' => Owing(todo[t]) /\ Owing(todo'[t])
<1>1. todo[t] \in Seq(CallName) /\ todo[t] # <<>> /\ Shape(todo[t]) /\ Head(todo[t]) = "spinup"
  BY DEF TypeInv, Shapes, SpinUp, Next1
<1>2. todo'[t] \in {SpunUp, NotSpunUp} /\ \A u \in Thread \ {t} : todo'[u] = todo[u]
  BY DEF TypeInv, SpinUp
<1>3. /\ Shape(todo'[t]) /\ Has(todo'[t], Frees) /\ Has(todo'[t], Halts) /\ Has(todo'[t], Reverts)
      /\ ~Has(todo'[t], {"save", "init", "cal"})
  BY <1>2, ShapeSpinup
<1>4. /\ Has(todo'[t], Stills) /\ ~Has(todo'[t], {"save"}) /\ ~Has(todo'[t], {"init"})
      /\ ~Has(todo'[t], {"cal"})
  BY <1>3 DEF Has, Stills
<1>5. ASSUME ~spun_up' PROVE todo'[t] = NotSpunUp
  BY <1>5 DEF SpinUp, TypeInv
<1>6. ~spun_up' => Owing(todo[t]) /\ Owing(todo'[t])
  <2>1. Owing(todo[t])
    BY <1>1, LendsTail DEF Shape
  <2> QED
    BY <1>5, <2>1, NotSpunUpOwing
<1>7. todo' \in [Thread -> Seq(CallName)]
  BY <1>1, ShapeSpinup DEF SpinUp, TypeInv, Shape
<1> QED
  BY <1>1, <1>2, <1>3, <1>4, <1>6, <1>7 DEF Behind, CallName

(* The lock and the motor: what a call leaves locked or driven, it leaves  *)
(* with the call behind it that frees or stills it.                        *)
Leaves(t) ==
  /\ Behind(t)
  /\ lock' => (lock /\ Head(todo[t]) # "unlock") \/ Head(todo[t]) = "lock"
  /\ \/ driver' = "none"
     \/ driver' = t /\ Head(todo[t]) \in {"drive", "foc_drive"}
     \/ /\ driver' = driver
        /\ Head(todo[t]) \notin {"restore", "user", "foc_stop", "init"} \/ Has(todo'[t], Stills)

(* This is so for every call.                                              *)
LEMMA StepLeaves ==
  ASSUME TypeInv, Shapes, NEW t \in Thread, Step(t)
  PROVE  Leaves(t)
<1> USE DEF motor
<1>1. CASE Save(t)
  BY <1>1, CallBehind DEF Save, Leaves
<1>2. CASE SetSameType(t)
  BY <1>2, CallBehind DEF SetSameType, Install, Leaves
<1>3. CASE Deinit(t)
  BY <1>3, DeinitBehind DEF Deinit, Leaves
<1>4. CASE InitImpl(t)
  BY <1>4, InitBehind DEF InitImpl, Leaves
<1>5. CASE EditFoc(t)
  BY <1>5, CallBehind DEF EditFoc, Leaves
<1>6. CASE ConfigureTimeout(t)
  BY <1>6, CallBehind DEF ConfigureTimeout, Leaves
<1>7. CASE LockOps(t)
  BY <1>7, CallBehind DEF LockOps, Leaves
<1>8. CASE Command(t)
  BY <1>8, CallBehind DEF Command, Setter, Leaves
<1>9. CASE DriveFoc(t)
  BY <1>9, CallBehind DEF DriveFoc, Leaves
<1>10. CASE Pulse(t)
  BY <1>10, CallBehind DEF Pulse, Leaves
<1>11. CASE SpinUp(t)
  BY <1>11, SpinUpBehind DEF SpinUp, Leaves
<1>12. CASE Calibrate(t)
  BY <1>12, CallBehind DEF Calibrate, Leaves
<1> QED
  BY <1>1, <1>2, <1>3, <1>4, <1>5, <1>6, <1>7, <1>8, <1>9, <1>10, <1>11, <1>12 DEF Step

-----------------------------------------------------------------------------
(* Types.                                                                  *)
LEMMA ArgumentConf ==
  ASSUME TypeInv, NEW t \in Thread
  PROVE  Argument(t) \in Conf
<1>1. mcconf_old[cell[t]] \in Conf /\ target[t] \in Conf /\ Own \in Nat
  BY DetectionAssumption DEF TypeInv, Own
<1>2. /\ [mcconf_old[cell[t]] EXCEPT !.type = "BLDC", !.base = Own] \in Conf
      /\ [mcconf_old[cell[t]] EXCEPT !.type = "FOC", !.base = Own] \in Conf
  BY <1>1 DEF Conf, MotorType
<1> QED
  BY <1>1, <1>2 DEF Argument

(* Every call keeps the types.                                             *)
LEMMA StepTypes ==
  ASSUME TypeInv, Shapes, NEW t \in Thread, Step(t)
  PROVE  TypeInv'
<1>t. todo' \in [Thread -> Seq(CallName)]
  BY StepLeaves DEF Leaves, Behind
<1> USE <1>t, DetectionAssumption DEF TypeInv, motor, impl, history
<1>1. CASE Save(t)
  BY <1>1 DEF Save, Call
<1>2. CASE SetSameType(t)
  BY <1>2, ArgumentConf DEF SetSameType, Install, Call
<1>3. CASE Deinit(t)
  <2>1. Worker[m_conf.type] \subseteq UNION {Worker[type] : type \in MotorType}
    BY DEF Conf
  <2> QED
    BY <1>3, <2>1, ArgumentConf DEF Deinit
<1>4. CASE InitImpl(t)
  BY <1>4 DEF InitImpl
<1>5. CASE EditFoc(t)
  <2>1. m_conf' \in Conf /\ foc_old' \in [Thread -> Nat]
    <3>1. m_conf.foc \in Nat /\ Own \in Nat /\ foc_old[t] \in Nat
      BY DEF Conf, Own
    <3>2. CASE m_conf' = [m_conf EXCEPT !.foc = Own] /\ foc_old' = [foc_old EXCEPT ![t] = m_conf.foc]
      BY <3>1, <3>2 DEF Conf
    <3>3. CASE m_conf' = [m_conf EXCEPT !.foc = foc_old[t]] /\ foc_old' = [foc_old EXCEPT ![t] = 0]
      BY <3>1, <3>3 DEF Conf
    <3> QED
      BY <1>5, <3>2, <3>3 DEF EditFoc
  <2> QED
    BY <1>5, <2>1 DEF EditFoc, Call
<1>6. CASE ConfigureTimeout(t)
  BY <1>6 DEF ConfigureTimeout, Call, Off, Short, Long
<1>7. CASE LockOps(t)
  BY <1>7 DEF LockOps, Call
<1>8. CASE Command(t)
  BY <1>8 DEF Command, Setter, Call
<1>9. CASE DriveFoc(t)
  BY <1>9 DEF DriveFoc, Call
<1>10. CASE Pulse(t)
  BY <1>10 DEF Pulse, Call
<1>11. CASE SpinUp(t)
  BY <1>11 DEF SpinUp, Off
<1>12. CASE Calibrate(t)
  BY <1>12 DEF Calibrate, Call
<1> QED
  BY <1>1, <1>2, <1>3, <1>4, <1>5, <1>6, <1>7, <1>8, <1>9, <1>10, <1>11, <1>12 DEF Step

(* A command begins a procedure on a thread that has nothing to do.        *)
LEMMA BeginTypes ==
  ASSUME TypeInv, NEW t \in Thread, NEW c \in Cell, NEW p, p \in Seq(CallName), Begin(t, c, p)
  PROVE  /\ todo' \in [Thread -> Seq(CallName)] /\ cell' \in [Thread -> Cell]
         /\ todo'[t] = p /\ cell'[t] = c /\ \A u \in Thread \ {t} : todo'[u] = todo[u]
  BY DEF TypeInv, Begin

Starts(t, c, p) ==
  /\ t \in Thread /\ c \in Cell
  /\ Shape(p) /\ ~Has(p, {"init"}) /\ ~Has(p, {"cal"}) /\ Begin(t, c, p)

(* The commands begin procedures of the right shape.                       *)
LEMMA BeginStarts ==
  /\ \A t \in Port : Detect(t) \/ TerminalDetect(t) => \E c, p : Starts(t, c, p)
  /\ DetectThread => \E c, p : Starts("detect", c, p)
  /\ \A t \in Port : \A type : SetMcconf(t, type) => Starts(t, "commands", set_mcconf)
  /\ \A t \in Port : \A msec : SetAppconf(t, msec) => Starts(t, "commands", set_appconf)
<1>1. \A c \in {"commands", "general", "terminal"} : c \in Cell
  BY DEF Cell
<1>2. Port \subseteq Thread /\ "detect" \in Thread
  BY DEF Thread
<1>3. ASSUME NEW t \in Port, Detect(t) PROVE \E c, p : Starts(t, c, p)
  BY <1>1, <1>2, <1>3, FreshProcedures DEF Detect, Fresh, Starts
<1>4. ASSUME NEW t \in Port, TerminalDetect(t) PROVE \E c, p : Starts(t, c, p)
  BY <1>1, <1>2, <1>4, FreshProcedures DEF TerminalDetect, Fresh, Starts
<1>5. ASSUME DetectThread PROVE \E c, p : Starts("detect", c, p)
  BY <1>1, <1>2, <1>5, FreshProcedures DEF DetectThread, Fresh, Starts
<1>6. /\ ~Has(set_mcconf, {"init"}) /\ ~Has(set_appconf, {"init"})
      /\ ~Has(set_mcconf, {"cal"}) /\ ~Has(set_appconf, {"cal"})
  BY DEF Has, set_mcconf, set_appconf
<1>7. ASSUME NEW t \in Port, NEW type, SetMcconf(t, type) PROVE Starts(t, "commands", set_mcconf)
  BY <1>1, <1>2, <1>6, <1>7, ShapeStores DEF SetMcconf, Starts
<1>8. ASSUME NEW t \in Port, NEW msec, SetAppconf(t, msec) PROVE Starts(t, "commands", set_appconf)
  BY <1>1, <1>2, <1>6, <1>8, ShapeStores DEF SetAppconf, Starts
<1> QED
  BY <1>3, <1>4, <1>5, <1>7, <1>8

(* A thread with nothing to do has no call to come.                        *)
LEMMA HasEmpty == \A N : ~Has(<<>>, N)
  BY DEF Has

(* A call keeps the shapes, the lock's and the motor's part.               *)
LEMMA StepSafe ==
  ASSUME TypeInv, Shapes, LockInv, DriveInv, NEW t \in Thread, Leaves(t)
  PROVE  Shapes' /\ LockInv' /\ DriveInv'
<1>1. Shapes'
  BY DEF Shapes, Leaves, Behind
<1>2. ASSUME lock' PROVE \E u \in Thread : Has(todo'[u], Frees)
  <2>1. CASE Head(todo[t]) = "lock"
    BY <2>1 DEF Leaves, Behind
  <2>2. CASE lock /\ Head(todo[t]) # "unlock"
    <3>1. PICK u \in Thread : Has(todo[u], Frees)
      BY <2>2 DEF LockInv
    <3>2. Has(todo'[u], Frees)
      <4>1. CASE u = t
        BY <2>2, <3>1, <4>1 DEF Leaves, Behind
      <4>2. CASE u # t
        BY <3>1, <4>2 DEF Leaves, Behind
      <4> QED
        BY <4>1, <4>2
    <3> QED
      BY <3>2
  <2> QED
    BY <1>2, <2>1, <2>2 DEF Leaves
<1>3. ASSUME NEW u \in Thread, driver' = u PROVE Has(todo'[u], Stills)
  <2>0. u # "none"
    BY DetectionAssumption DEF Thread
  <2>1. CASE driver' = t /\ Head(todo[t]) \in {"drive", "foc_drive"}
    BY <1>3, <2>1 DEF Leaves, Behind
  <2>2. CASE /\ driver' = driver
             /\ \/ Head(todo[t]) \notin {"restore", "user", "foc_stop", "init"}
                \/ Has(todo'[t], Stills)
    <3>1. CASE u = t
      BY <1>3, <2>2, <3>1 DEF DriveInv, Leaves, Behind
    <3>2. CASE u # t
      BY <1>3, <2>2, <3>2 DEF DriveInv, Leaves, Behind
    <3> QED
      BY <3>1, <3>2
  <2> QED
    BY <1>3, <2>0, <2>1, <2>2 DEF Leaves
<1> QED
  BY <1>1, <1>2, <1>3 DEF LockInv, DriveInv

(* So does the beginning of a procedure.                                   *)
LEMMA StartsSafe ==
  ASSUME TypeInv, Shapes, LockInv, DriveInv, NEW t, NEW c, NEW p, Starts(t, c, p)
  PROVE  /\ Shapes' /\ LockInv' /\ DriveInv'
         /\ t \in Thread /\ todo[t] = <<>> /\ todo'[t] = p /\ cell'[t] = c
         /\ \A u \in Thread \ {t} : todo'[u] = todo[u]
         /\ todo' \in [Thread -> Seq(CallName)] /\ cell' \in [Thread -> Cell]
<1>1. /\ t \in Thread /\ todo[t] = <<>> /\ todo'[t] = p /\ Shape(p) /\ cell'[t] = c
      /\ \A u \in Thread \ {t} : todo'[u] = todo[u]
      /\ todo' \in [Thread -> Seq(CallName)] /\ cell' \in [Thread -> Cell]
  BY BeginTypes DEF Starts, Shape, Begin, Idle
<1>2. UNCHANGED <<lock, driver>>
  BY DEF Starts, Begin, motor
<1>3. Shapes'
  BY <1>1 DEF Shapes
<1>4. LockInv'
  BY <1>1, <1>2, HasEmpty DEF LockInv
<1>5. DriveInv'
  BY <1>1, <1>2, HasEmpty DEF DriveInv
<1> QED
  BY <1>1, <1>3, <1>4, <1>5

(* Who runs alone.                                                         *)
LEMMA StepMet ==
  ASSUME Met, NEW t \in Thread, Leaves(t), overlapped' = overlapped
  PROVE  Met' /\ (~overlapped' => Alone(t) /\ Alone(t)')
<1> SUFFICES ASSUME ~overlapped
             PROVE  Met' /\ Alone(t) /\ Alone(t)'
  BY DEF Met
<1>1. Alone(t)
  BY DEF Met, Leaves, Behind, Idle
<1>2. Alone(t)'
  BY <1>1 DEF Alone, Idle, Leaves, Behind
<1>3. \A u \in Thread : ~Idle(u)' => u = t
  BY <1>2 DEF Alone
<1>4. Met'
  BY <1>2, <1>3 DEF Met
<1> QED
  BY <1>1, <1>2, <1>4

(* A call is not the start of a procedure, and no wish of the user.        *)
LEMMA StepOverlapped ==
  ASSUME NEW t \in Thread, Step(t)
  PROVE  UNCHANGED <<overlapped, wanted, wanted_timeout>>
  BY DEF Step, Save, SetSameType, Deinit, InitImpl, Calibrate, EditFoc, ConfigureTimeout, LockOps,
     Command, DriveFoc, Pulse, SpinUp, Call, history

(* A procedure that meets no other one starts when all threads are idle.   *)
LEMMA StartsMet ==
  ASSUME TypeInv, Met, NEW t \in Thread, NEW c, NEW p, Begin(t, c, p),
         \A u \in Thread \ {t} : todo'[u] = todo[u]
  PROVE  Met' /\ (~overlapped' => ~overlapped /\ Quiet /\ Alone(t)')
<1> SUFFICES ASSUME ~overlapped'
             PROVE  Met' /\ ~overlapped /\ Quiet /\ Alone(t)'
  BY DEF Met
<1>1. ~overlapped /\ Alone(t)
  BY Zenon DEF Begin
<1>2. Quiet
  BY <1>1 DEF Quiet, Alone, Begin
<1>3. Alone(t)'
  BY <1>1 DEF Alone, Idle
<1>4. \A u \in Thread : ~Idle(u)' => u = t
  BY <1>3 DEF Alone
<1>5. Met'
  BY <1>3, <1>4 DEF Met
<1> QED
  BY <1>1, <1>2, <1>3, <1>5

-----------------------------------------------------------------------------
(* The configuration and the timeout: what is left of them behind call h.  *)
Settling(s, h, r) ==
  /\ Has(s, Reverts) <=> h \in Reverts \/ Has(r, Reverts)
  /\ Has(s, Unsettled) <=> h \in Unsettled \/ Has(r, Unsettled)
  /\ Has(s, Installs) <=> h \in Installs \/ Has(r, Installs)
  /\ Has(s, {"save"}) <=> h = "save"
  /\ Has(s, {"user_timeout"}) <=> h = "user_timeout" \/ Has(r, {"user_timeout"})
  /\ h \in Changes => Has(r, Reverts)
  /\ h \in Settles => ~Has(r, Unsettled) /\ ~Has(r, Installs)

Lending(s, h, r) ==
  /\ h = "no_timeout" => Owing(r) /\ ~Owing(s)
  /\ h = "timeout" => Owing(s) /\ ~Owing(r)
  /\ h \notin {"no_timeout", "timeout", "spinup"} => (Owing(s) <=> Owing(r))
  /\ h = "user_timeout" => ~Owing(r)
  /\ Has(s, {"user_timeout"}) => h \notin {"no_timeout", "timeout", "spinup"}

(* This is so for the first call of every procedure of the right shape.    *)
LEMMA TailSettles ==
  ASSUME NEW s, Shape(s), s # <<>>
  PROVE  Settling(s, Head(s), Tail(s)) /\ Lending(s, Head(s), Tail(s))
<1>0. s \in Seq(CallName) /\ Tail(s) \in Seq(CallName)
  BY TailFacts DEF Shape
<1>1. \A N : Has(s, N) <=> Head(s) \in N \/ Has(Tail(s), N)
  BY <1>0, HasTail
<1>2. ~Has(Tail(s), {"save"})
  BY <1>0, TailFacts DEF Shape, Has
<1>3. Head(s) \in Changes => Has(Tail(s), Reverts)
  BY <1>0, FollowsTail DEF Shape
<1>4. Head(s) \in Settles => ~Has(Tail(s), Unsettled \cup Installs)
  BY <1>0, AlikeTail DEF Shape
<1>5. ~Has(Tail(s), Unsettled \cup Installs) => ~Has(Tail(s), Unsettled) /\ ~Has(Tail(s), Installs)
  BY DEF Has
<1>6. Settling(s, Head(s), Tail(s))
  BY <1>1, <1>2, <1>3, <1>4, <1>5 DEF Settling
<1>7. Has(s, {"user_timeout"}) => ~Has(s, {"no_timeout", "timeout", "spinup"})
  BY DEF Shape
<1>8. Has(s, {"user_timeout"}) => Head(s) \notin {"no_timeout", "timeout", "spinup"}
  BY <1>1, <1>7
<1>9. ASSUME Head(s) = "user_timeout" PROVE ~Owing(Tail(s))
  <2>1. ~Has(Tail(s), {"no_timeout", "timeout", "spinup"})
    BY <1>1, <1>7, <1>9
  <2> QED
    BY <2>1 DEF Has, Owing, PutsBack
<1>10. Lending(s, Head(s), Tail(s))
  BY <1>0, <1>8, <1>9, LendsTail DEF Lending, Shape
<1> QED
  BY <1>6, <1>10

(* If the one thread that runs leaves the right configuration and timeout  *)
(* behind, then so do all of them.                                         *)
LEMMA OneThread ==
  ASSUME NEW t \in Thread, Alone(t)', ConfigurationFollows(t)', ~spun_up' => TimeoutFollows(t)'
  PROVE  RestoreInv'
<1> SUFFICES ASSUME NEW u \in Thread, u # t, Alone(u)'
             PROVE  ConfigurationFollows(u)' /\ (~spun_up' => TimeoutFollows(u)')
  BY DEF RestoreInv
<1>1. todo'[t] = <<>> /\ todo'[u] = <<>>
  BY DEF Alone, Idle
<1>2. ~Owing(<<>>)
  BY DEF Owing
<1> QED
  BY <1>1, <1>2, HasEmpty DEF ConfigurationFollows, TimeoutFollows

(* With nothing to do, the configuration and the timeout are the user's.   *)
LEMMA QuietIsRestored ==
  ASSUME RestoreInv, Quiet, ~overlapped
  PROVE  m_conf = wanted /\ (~spun_up => timeout = wanted_timeout)
<1>1. PICK t \in Thread : TRUE
  BY DEF Thread
<1>2. todo[t] = <<>> /\ Alone(t)
  BY DEF Quiet, Idle, Alone
<1>3. ~Owing(<<>>)
  BY DEF Owing
<1> QED
  BY <1>2, <1>3, HasEmpty DEF RestoreInv, ConfigurationFollows, TimeoutFollows

(* Every call leaves the configuration restored, or to be restored from    *)
(* the copy that holds the user's.                                         *)
LEMMA StepConfiguration ==
  ASSUME TypeInv, Shapes, NEW t \in Thread, Step(t), ConfigurationFollows(t)
  PROVE  ConfigurationFollows(t)'
<1> DEFINE s == todo[t]
           h == Head(todo[t])
           r == todo'[t]
<1>w. UNCHANGED wanted
  BY StepOverlapped
<1>c. t \in Thread /\ cell[t] \in Cell /\ Shape(s)
  BY DEF TypeInv, Shapes
<1>0. ASSUME NEW names, Call(t, names), "spinup" \notin names
      PROVE  /\ s # <<>> /\ h \in names /\ r = Tail(s) /\ ~Has(r, {"save"}) /\ cell' = cell
             /\ Settling(s, h, r)
  BY <1>0, <1>c, CallBehind, TailSettles DEF Behind, Call
<1> USE DEF motor, impl, history
<1>1. CASE Save(t)
  <2>1. h = "save" /\ ~Has(r, {"save"}) /\ cell' = cell /\ Settling(s, h, r)
    BY <1>1, <1>0 DEF Save
  <2>2. Has(s, Unsettled) /\ Has(r, Reverts) /\ Has(s, {"save"})
    BY <2>1 DEF Settling, Changes, Unsettled
  <2>3. m_conf = wanted
    BY <2>2 DEF ConfigurationFollows
  <2>4. mcconf_old'[cell'[t]] = wanted
    BY <1>1, <1>c, <2>1, <2>3 DEF Save, TypeInv
  <2> QED
    BY <1>w, <2>1, <2>2, <2>4 DEF ConfigurationFollows
<1>2. CASE SetSameType(t)
  <2>1. /\ h \in {"bldc", "foc", "restore", "user"} /\ ~Has(r, {"save"}) /\ cell' = cell
        /\ Settling(s, h, r)
    BY <1>2, <1>0 DEF SetSameType
  <2>2. m_conf' = Argument(t) /\ UNCHANGED <<mcconf_old, target>>
    BY <1>2 DEF SetSameType, Install
  <2>3. CASE h \in {"bldc", "foc"}
    <3>1. Has(s, Unsettled) /\ Has(r, Reverts) /\ ~Has(s, {"save"})
      BY <2>1, <2>3 DEF Settling, Changes, Unsettled
    <3> QED
      BY <1>w, <2>1, <2>2, <3>1 DEF ConfigurationFollows
  <2>4. CASE h = "restore"
    <3>1. Has(s, Unsettled) /\ ~Has(s, {"save"}) /\ ~Has(r, Unsettled) /\ ~Has(r, Installs)
      BY <2>1, <2>4 DEF Settling, Settles, Unsettled, Reverts
    <3>2. Argument(t) = mcconf_old[cell[t]]
      BY <2>4 DEF Argument, Next1
    <3> QED
      BY <1>w, <2>2, <3>1, <3>2 DEF ConfigurationFollows
  <2>5. CASE h = "user"
    <3>1. /\ ~Has(s, Unsettled) /\ Has(s, Installs) /\ ~Has(s, Reverts)
          /\ ~Has(r, Unsettled) /\ ~Has(r, Installs)
      <4>1. ~Has(r, Reverts)
        BY <2>1, <2>5 DEF Settling, Settles, Has, Unsettled
      <4> QED
        BY <2>1, <2>5, <4>1 DEF Settling, Settles, Unsettled, Installs, Changes, Reverts
    <3>2. Argument(t) = target[t]
      BY <2>5 DEF Argument, Next1
    <3> QED
      BY <1>w, <2>2, <3>1, <3>2 DEF ConfigurationFollows
  <2> QED
    BY <2>1, <2>3, <2>4, <2>5
<1>3. CASE Deinit(t)
  <2> DEFINE q == Tail(s)
  <2>1. /\ h \in {"bldc", "foc", "restore", "user"} /\ r = <<"init">> \o q
        /\ ~Has(r, {"save"}) /\ Has(r, Installs)
    BY <1>3, DeinitBehind
  <2>2. Settling(s, h, q) /\ q \in Seq(CallName)
    BY <1>3, <1>c, TailSettles, TailFacts DEF Deinit, TypeInv
  <2>3. \A N : Has(r, N) <=> "init" \in N \/ Has(q, N)
    <3>1. "init" \in CallName
      BY DEF CallName
    <3>2. \A N : Has(<<"init">> \o q, N) <=> "init" \in N \/ Has(q, N)
      BY <2>2, <3>1, HasCons
    <3> QED
      BY <2>1, <3>2
  <2>4. (Has(r, Unsettled) <=> Has(q, Unsettled)) /\ (Has(r, Reverts) <=> Has(q, Reverts))
    BY <2>3 DEF Unsettled, Changes, Reverts
  <2>5. target'[t] = Argument(t) /\ UNCHANGED <<mcconf_old, cell>>
    BY <1>3, <1>c DEF Deinit, TypeInv
  <2>6. CASE h \in {"bldc", "foc"}
    <3>1. Has(s, Unsettled) /\ Has(r, Reverts) /\ ~Has(s, {"save"})
      BY <2>2, <2>4, <2>6 DEF Settling, Changes, Unsettled
    <3> QED
      BY <1>w, <2>1, <2>5, <3>1 DEF ConfigurationFollows
  <2>7. CASE h = "restore"
    <3>1. Has(s, Unsettled) /\ ~Has(s, {"save"}) /\ ~Has(r, Unsettled)
      BY <2>2, <2>4, <2>7 DEF Settling, Settles, Unsettled, Reverts
    <3>2. Argument(t) = mcconf_old[cell[t]]
      BY <2>7 DEF Argument, Next1
    <3> QED
      BY <1>w, <2>1, <2>5, <3>1, <3>2 DEF ConfigurationFollows
  <2>8. CASE h = "user"
    <3>1. ~Has(s, Unsettled) /\ Has(s, Installs) /\ ~Has(s, Reverts) /\ ~Has(r, Unsettled)
      <4>1. ~Has(q, Reverts)
        BY <2>2, <2>8 DEF Settling, Settles, Has, Unsettled
      <4> QED
        BY <2>2, <2>4, <2>8, <4>1 DEF Settling, Settles, Unsettled, Installs, Changes, Reverts
    <3>2. Argument(t) = target[t]
      BY <2>8 DEF Argument, Next1
    <3> QED
      BY <1>w, <2>1, <2>5, <3>1, <3>2 DEF ConfigurationFollows
  <2> QED
    BY <2>1, <2>6, <2>7, <2>8
<1>4. CASE InitImpl(t)
  <2> DEFINE q == Tail(s)
  <2>1. /\ h = "init" /\ ~Has(r, {"save"})
        /\ \A N : Has(r, N) <=> "cal" \in N \/ Has(q, N)
    BY <1>4, InitBehind
  <2>2. m_conf' = target[t] /\ UNCHANGED <<mcconf_old, target, cell>>
    BY <1>4 DEF InitImpl
  <2>3. Settling(s, h, q)
    BY <1>4, <1>c, TailSettles DEF InitImpl
  <2>4. /\ Has(r, Reverts) <=> Has(q, Reverts)
        /\ Has(r, Unsettled) <=> Has(q, Unsettled)
    BY <2>1 DEF Unsettled, Changes, Reverts
  <2>5. /\ Has(s, Reverts) <=> Has(q, Reverts)
        /\ Has(s, Unsettled) <=> Has(q, Unsettled)
        /\ Has(s, Installs) /\ ~Has(s, {"save"})
    BY <2>1, <2>3 DEF Settling, Unsettled, Changes, Reverts, Installs
  <2> QED
    BY <1>w, <2>1, <2>2, <2>4, <2>5 DEF ConfigurationFollows
<1>5. CASE EditFoc(t)
  <2>1. /\ h \in {"foc_edit", "foc_unedit"} /\ ~Has(r, {"save"}) /\ cell' = cell /\ Settling(s, h, r)
    BY <1>5, <1>0 DEF EditFoc
  <2>2. Has(s, Unsettled) /\ Has(r, Reverts) /\ ~Has(s, {"save"})
    BY <2>1 DEF Settling, Changes, Unsettled
  <2> QED
    BY <1>5, <1>w, <2>1, <2>2 DEF ConfigurationFollows, EditFoc
<1>6. ASSUME NEW names, Call(t, names), names \cap (Unsettled \cup Installs) = {},
             UNCHANGED <<m_conf, target, mcconf_old>>
      PROVE  ConfigurationFollows(t)'
  <2>1. "spinup" \notin names /\ "save" \notin names
    BY <1>6 DEF Unsettled, Changes, Reverts
  <2>2. h \in names /\ ~Has(r, {"save"}) /\ cell' = cell /\ Settling(s, h, r)
    BY <1>0, <1>6, <2>1
  <2>3. /\ Has(s, Reverts) <=> Has(r, Reverts)
        /\ Has(s, Unsettled) <=> Has(r, Unsettled)
        /\ Has(s, Installs) <=> Has(r, Installs)
        /\ ~Has(s, {"save"})
    BY <1>6, <2>1, <2>2 DEF Settling, Unsettled
  <2> QED
    BY <1>6, <1>w, <2>2, <2>3 DEF ConfigurationFollows
<1>7. CASE ConfigureTimeout(t)
  BY <1>6, <1>7 DEF ConfigureTimeout, Unsettled, Changes, Reverts, Installs
<1>8. CASE LockOps(t)
  BY <1>6, <1>8 DEF LockOps, Unsettled, Changes, Reverts, Installs
<1>9. CASE Command(t)
  BY <1>6, <1>9 DEF Command, Unsettled, Changes, Reverts, Installs
<1>10. CASE DriveFoc(t)
  BY <1>6, <1>10 DEF DriveFoc, Unsettled, Changes, Reverts, Installs
<1>11. CASE Pulse(t)
  BY <1>6, <1>11 DEF Pulse, Unsettled, Changes, Reverts, Installs
<1>12. CASE SpinUp(t)
  <2>1. /\ h = "spinup" /\ s # <<>> /\ Has(r, Reverts) /\ ~Has(r, {"save"})
        /\ UNCHANGED <<cell, mcconf_old>>
    BY <1>12, SpinUpBehind DEF SpinUp, Behind
  <2>2. Settling(s, h, Tail(s))
    BY <1>c, <2>1, TailSettles
  <2>3. Has(s, Unsettled) /\ ~Has(s, {"save"})
    BY <2>1, <2>2 DEF Settling, Unsettled, Reverts
  <2> QED
    BY <1>w, <2>1, <2>3 DEF ConfigurationFollows
<1>13. CASE Calibrate(t)
  BY <1>6, <1>13 DEF Calibrate, Unsettled, Changes, Reverts, Installs
<1> QED
  BY <1>1, <1>2, <1>3, <1>4, <1>5, <1>7, <1>8, <1>9, <1>10, <1>11, <1>12, <1>13 DEF Step

(* Every call leaves the timeout restored, or owed to the user's value.    *)
LEMMA StepTimeout ==
  ASSUME TypeInv, Shapes, NEW t \in Thread, Step(t), ~spun_up', ~spun_up => TimeoutFollows(t)
  PROVE  TimeoutFollows(t)'
<1> DEFINE s == todo[t]
           h == Head(todo[t])
           r == todo'[t]
<1>w. UNCHANGED wanted_timeout
  BY StepOverlapped
<1>c. t \in Thread /\ Shape(s) /\ tout \in [Thread -> {Off, Short, Long}]
  BY DEF TypeInv, Shapes
<1>0. ASSUME NEW names, Call(t, names), "spinup" \notin names
      PROVE  h \in names /\ Settling(s, h, r) /\ Lending(s, h, r)
  BY <1>0, <1>c, CallBehind, TailSettles DEF Behind, Call
<1> USE DEF motor, impl, history
<1>1. ASSUME NEW names, Call(t, names),
             names \cap {"no_timeout", "timeout", "user_timeout", "spinup"} = {},
             UNCHANGED <<timeout, tout, spun_up>>
      PROVE  TimeoutFollows(t)'
  <2>1. h \in names /\ Settling(s, h, r) /\ Lending(s, h, r)
    BY <1>0, <1>1
  <2>2. /\ Owing(s) <=> Owing(r)
        /\ Has(s, {"user_timeout"}) <=> Has(r, {"user_timeout"})
    BY <1>1, <2>1 DEF Settling, Lending
  <2> QED
    BY <1>1, <1>w, <2>2 DEF TimeoutFollows
<1>2. CASE Save(t)
  BY <1>1, <1>2 DEF Save
<1>3. CASE SetSameType(t)
  BY <1>1, <1>3 DEF SetSameType
<1>4. CASE Deinit(t)
  <2> DEFINE q == Tail(s)
  <2>1. /\ h \in {"bldc", "foc", "restore", "user"} /\ r = <<"init">> \o q
        /\ Owing(r) <=> Owing(s)
    BY <1>4, DeinitBehind
  <2>2. Settling(s, h, q) /\ q \in Seq(CallName)
    BY <1>4, <1>c, TailSettles, TailFacts DEF Deinit, TypeInv
  <2>3. Has(r, {"user_timeout"}) <=> Has(q, {"user_timeout"})
    <3>1. "init" \in CallName
      BY DEF CallName
    <3>2. \A N : Has(<<"init">> \o q, N) <=> "init" \in N \/ Has(q, N)
      BY <2>2, <3>1, HasCons
    <3> QED
      BY <2>1, <3>2
  <2>4. Has(r, {"user_timeout"}) <=> Has(s, {"user_timeout"})
    BY <2>1, <2>2, <2>3 DEF Settling
  <2> QED
    BY <1>4, <1>w, <2>1, <2>4 DEF TimeoutFollows, Deinit
<1>5. CASE InitImpl(t)
  <2> DEFINE q == Tail(s)
  <2>1. /\ h = "init"
        /\ Owing(r) <=> Owing(s)
        /\ Has(r, {"user_timeout"}) <=> Has(q, {"user_timeout"})
    BY <1>5, InitBehind
  <2>2. Settling(s, h, q)
    BY <1>5, <1>c, TailSettles DEF InitImpl
  <2>3. Has(r, {"user_timeout"}) <=> Has(s, {"user_timeout"})
    BY <2>1, <2>2 DEF Settling
  <2> QED
    BY <1>5, <1>w, <2>1, <2>3 DEF TimeoutFollows, InitImpl
<1>6. CASE EditFoc(t)
  BY <1>1, <1>6 DEF EditFoc
<1>7. CASE ConfigureTimeout(t)
  <2>0. UNCHANGED spun_up
    BY <1>7 DEF ConfigureTimeout
  <2>1. CASE Call(t, {"no_timeout"}) /\ tout' = [tout EXCEPT ![t] = timeout]
    <3>1. h = "no_timeout" /\ Lending(s, h, r)
      BY <1>0, <2>1
    <3>2. ~Owing(s) /\ Owing(r) /\ ~Has(s, {"user_timeout"})
      BY <3>1 DEF Lending
    <3> QED
      BY <1>c, <1>w, <2>0, <2>1, <3>2 DEF TimeoutFollows
  <2>2. CASE Call(t, {"timeout"}) /\ timeout' = tout[t]
    <3>1. h = "timeout" /\ Lending(s, h, r)
      BY <1>0, <2>2
    <3>2. Owing(s) /\ ~Owing(r)
      BY <3>1 DEF Lending
    <3> QED
      BY <1>c, <1>w, <2>0, <2>2, <3>2 DEF TimeoutFollows
  <2>3. CASE Call(t, {"user_timeout"}) /\ timeout' = wanted_timeout
    <3>1. h = "user_timeout" /\ Lending(s, h, r)
      BY <1>0, <2>3
    <3> QED
      BY <1>w, <2>3, <3>1 DEF TimeoutFollows, Lending
  <2> QED
    BY <1>7, <2>1, <2>2, <2>3 DEF ConfigureTimeout
<1>8. CASE LockOps(t)
  BY <1>1, <1>8 DEF LockOps
<1>9. CASE Command(t)
  BY <1>1, <1>9 DEF Command
<1>10. CASE DriveFoc(t)
  BY <1>1, <1>10 DEF DriveFoc
<1>11. CASE Pulse(t)
  BY <1>1, <1>11 DEF Pulse
<1>12. CASE SpinUp(t)
  <2>1. Owing(s) /\ Owing(r) /\ UNCHANGED <<spun_up, tout>>
    BY <1>12, SpinUpBehind DEF SpinUp
  <2> QED
    BY <1>w, <2>1 DEF TimeoutFollows
<1>13. CASE Calibrate(t)
  BY <1>1, <1>13 DEF Calibrate
<1> QED
  BY <1>2, <1>3, <1>4, <1>5, <1>6, <1>7, <1>8, <1>9, <1>10, <1>11, <1>12, <1>13 DEF Step

(* The threads of the motor implementations.                               *)
LEMMA StepImpl ==
  ASSUME TypeInv, Shapes, ImplInv, NEW t \in Thread, Step(t), Alone(t)', ~overlapped, ~overlapped'
  PROVE  ImplInv'
<1>t. /\ alive \subseteq Worker[m_conf.type] /\ m_conf.type \in MotorType
      /\ Has(todo[t], {"init"}) => target[t].type # m_conf.type /\ alive \subseteq stop
      /\ Has(todo[t], {"cal"}) => target[t].type = m_conf.type
  BY DEF ImplInv, TypeInv, Conf
<1>o. \A u \in Thread \ {t} : todo'[u] = <<>>
  BY DEF Alone, Idle
<1>0. ASSUME NEW names, Call(t, names), "spinup" \notin names
      PROVE  /\ Head(todo[t]) \in names /\ todo[t] # <<>>
             /\ ~Has(todo'[t], {"init"}) /\ ~Has(todo'[t], {"cal"})
  BY <1>0, CallBehind DEF Behind
<1>n. ASSUME ~Has(todo'[t], {"init"}), ~Has(todo'[t], {"cal"}), alive' \subseteq Worker[m_conf'.type]
      PROVE  ImplInv'
  BY <1>n, <1>o, HasEmpty DEF ImplInv
<1> USE DEF motor, impl, history
<1>1. CASE Save(t)
  BY <1>0, <1>1, <1>n, <1>t DEF Save
<1>2. CASE SetSameType(t)
  BY <1>0, <1>2, <1>n, <1>t DEF SetSameType, Install
<1>3. CASE Deinit(t)
  <2>1. /\ target'[t].type # m_conf'.type /\ alive' \subseteq stop'
        /\ alive' \subseteq Worker[m_conf'.type]
    BY <1>3, <1>t DEF Deinit, TypeInv
  <2>2. ~Has(todo'[t], {"cal"})
    BY <1>3, DeinitBehind
  <2> QED
    BY <1>o, <2>1, <2>2, HasEmpty DEF ImplInv
<1>4. CASE InitImpl(t)
  <2>1. Head(todo[t]) = "init" /\ todo[t] # <<>> /\ ~Has(todo'[t], {"init"})
    BY <1>4, InitBehind DEF InitImpl
  <2>2. Has(todo[t], {"init"})
    <3>1. todo[t] \in Seq(CallName) /\ Head(todo[t]) \in {"init"}
      BY <2>1 DEF TypeInv
    <3> QED
      BY <2>1, <3>1, HasTail
  <2>3. target[t].type \in MotorType /\ target[t].type # m_conf.type /\ alive \subseteq stop
    BY <1>t, <2>2 DEF TypeInv, Conf
  <2>4. alive = {}
    <3> DEFINE old == IF target[t].type = "FOC" THEN "BLDC" ELSE "FOC"
    <3>1. old = m_conf.type
      BY <1>t, <2>3 DEF MotorType
    <3>2. stop \cap Worker[old] = {}
      BY <1>4 DEF InitImpl
    <3> QED
      BY <1>t, <2>3, <3>1, <3>2
  <2>5. m_conf' = target[t] /\ UNCHANGED <<alive, target>>
    BY <1>4 DEF InitImpl
  <2> QED
    BY <1>o, <2>1, <2>4, <2>5, HasEmpty DEF ImplInv
<1>5. CASE EditFoc(t)
  <2>1. m_conf'.type = m_conf.type
    BY <1>5 DEF EditFoc, TypeInv, Conf
  <2> QED
    BY <1>0, <1>5, <1>n, <1>t, <2>1 DEF EditFoc
<1>6. CASE ConfigureTimeout(t)
  BY <1>0, <1>6, <1>n, <1>t DEF ConfigureTimeout
<1>7. CASE LockOps(t)
  BY <1>0, <1>7, <1>n, <1>t DEF LockOps
<1>8. CASE Command(t)
  BY <1>0, <1>8, <1>n, <1>t DEF Command
<1>9. CASE DriveFoc(t)
  BY <1>0, <1>9, <1>n, <1>t DEF DriveFoc
<1>10. CASE Pulse(t)
  BY <1>0, <1>10, <1>n, <1>t DEF Pulse
<1>11. CASE SpinUp(t)
  <2>1. ~Has(todo'[t], {"init"}) /\ ~Has(todo'[t], {"cal"})
    BY <1>11, SpinUpBehind
  <2> QED
    BY <1>11, <1>n, <1>t, <2>1 DEF SpinUp
<1>12. CASE Calibrate(t)
  <2>1. /\ Head(todo[t]) = "cal" /\ todo[t] # <<>>
        /\ ~Has(todo'[t], {"init"}) /\ ~Has(todo'[t], {"cal"})
    BY <1>0, <1>12 DEF Calibrate
  <2>2. Has(todo[t], {"cal"})
    <3>1. todo[t] \in Seq(CallName) /\ Head(todo[t]) \in {"cal"}
      BY <2>1 DEF TypeInv
    <3> QED
      BY <2>1, <3>1, HasTail
  <2>3. alive' = alive \cup Worker[m_conf.type] /\ UNCHANGED m_conf
    BY <1>12, <1>t, <2>2 DEF Calibrate
  <2> QED
    BY <1>n, <1>t, <2>1, <2>3
<1> QED
  BY <1>1, <1>2, <1>3, <1>4, <1>5, <1>6, <1>7, <1>8, <1>9, <1>10, <1>11, <1>12 DEF Step

-----------------------------------------------------------------------------
(* Together: a call of a procedure ...                                     *)
LEMMA DetectionStep ==
  ASSUME DetectionInv, NEW t \in Thread, Step(t)
  PROVE  DetectionInv'
<1> USE DEF DetectionInv
<1>1. Leaves(t)
  BY StepLeaves
<1>2. Shapes' /\ LockInv' /\ DriveInv' /\ TypeInv'
  BY <1>1, StepSafe, StepTypes
<1>3. Met' /\ (~overlapped' => Alone(t) /\ Alone(t)' /\ ~overlapped)
  BY <1>1, StepOverlapped, StepMet
<1>4. ImplInv'
  <2>1. CASE overlapped'
    BY <2>1 DEF ImplInv
  <2>2. CASE ~overlapped'
    BY <1>3, <2>2, StepImpl
  <2> QED
    BY <2>1, <2>2
<1>5. RestoreInv'
  <2>1. CASE overlapped'
    BY <2>1 DEF RestoreInv
  <2>2. CASE ~overlapped'
    <3>1. ConfigurationFollows(t) /\ (~spun_up => TimeoutFollows(t))
      BY <1>3, <2>2 DEF RestoreInv
    <3>2. ConfigurationFollows(t)'
      BY <3>1, StepConfiguration
    <3>3. ~spun_up' => TimeoutFollows(t)'
      BY <3>1, StepTimeout
    <3> QED
      BY <1>3, <2>2, <3>2, <3>3, OneThread
  <2> QED
    BY <2>1, <2>2
<1> QED
  BY <1>2, <1>3, <1>4, <1>5

(* ... its beginning: nobody waits for threads of an implementation, and   *)
(* the user's configuration is saved, or will be by its first call ...     *)
LEMMA StartsImpl ==
  ASSUME ImplInv, NEW t \in Thread, todo[t] = <<>>,
         ~Has(todo'[t], {"init"}), ~Has(todo'[t], {"cal"}),
         \A u \in Thread \ {t} : todo'[u] = todo[u] /\ target'[u] = target[u],
         UNCHANGED <<m_conf, alive, stop>>, ~overlapped' => ~overlapped
  PROVE  ImplInv'
  BY DEF ImplInv

(* A detection that starts alone will leave the user's configuration and   *)
(* timeout behind.                                                         *)
LEMMA FreshRestores ==
  ASSUME TypeInv, RestoreInv, NEW t \in Thread, NEW p, NEW saved,
         Fresh(p, saved), todo'[t] = p, cell'[t] \in Cell,
         UNCHANGED <<m_conf, timeout, tout, spun_up, wanted, wanted_timeout>>,
         saved => mcconf_old'[cell'[t]] = m_conf,
         ~overlapped, Quiet, Alone(t)'
  PROVE  RestoreInv'
<1>1. m_conf = wanted /\ (~spun_up => timeout = wanted_timeout)
  BY QuietIsRestored
<1>2. ConfigurationFollows(t)'
  BY <1>1 DEF ConfigurationFollows, Fresh
<1>3. ~spun_up' => TimeoutFollows(t)'
  BY <1>1 DEF TimeoutFollows, Fresh
<1> QED
  BY <1>2, <1>3, OneThread

(* A detection begins.                                                     *)
LEMMA DetectionBegins ==
  ASSUME DetectionInv, NEW t \in Thread, NEW c \in Cell, NEW p, NEW saved, Fresh(p, saved),
         Begin(t, c, p), saved => mcconf_old'[c] = m_conf,
         UNCHANGED <<target, wanted, wanted_timeout>>, mcconf_old' \in [Cell -> Conf],
         calls' \in Nat
  PROVE  DetectionInv'
<1> USE DEF DetectionInv
<1>1. Starts(t, c, p)
  BY DEF Starts, Fresh
<1>2. /\ Shapes' /\ LockInv' /\ DriveInv'
      /\ t \in Thread /\ todo[t] = <<>> /\ todo'[t] = p /\ cell'[t] = c
      /\ \A u \in Thread \ {t} : todo'[u] = todo[u]
      /\ todo' \in [Thread -> Seq(CallName)] /\ cell' \in [Thread -> Cell]
  BY <1>1, StartsSafe
<1>3. TypeInv'
  BY <1>2 DEF TypeInv, Begin, motor, impl
<1>4. Met' /\ (~overlapped' => ~overlapped /\ Quiet /\ Alone(t)')
  BY <1>2, StartsMet
<1>5. UNCHANGED <<m_conf, timeout, tout, spun_up, alive, stop>>
  BY DEF Begin, impl
<1>6. ImplInv'
  BY <1>1, <1>2, <1>4, <1>5, StartsImpl DEF Starts
<1>7. RestoreInv'
  <2>1. CASE overlapped'
    BY <2>1 DEF RestoreInv
  <2>2. CASE ~overlapped'
    BY <1>2, <1>4, <1>5, <2>2, FreshRestores
  <2> QED
    BY <2>1, <2>2
<1> QED
  BY <1>2, <1>3, <1>4, <1>6, <1>7

(* ... the store of a configuration by the user ...                        *)
LEMMA StoreBegins ==
  ASSUME DetectionInv, NEW t \in Port,
         (\E type \in MotorType : SetMcconf(t, type)) \/ (\E msec \in {Off, Short} : SetAppconf(t, msec))
  PROVE  DetectionInv'
<1> USE DEF DetectionInv
<1>0. t \in Thread
  BY DEF Thread
<1>p. PICK p \in {set_mcconf, set_appconf} : Starts(t, "commands", p)
  BY BeginStarts
<1>1. /\ Shapes' /\ LockInv' /\ DriveInv'
      /\ todo[t] = <<>> /\ todo'[t] = p /\ cell'[t] = "commands"
      /\ \A u \in Thread \ {t} : todo'[u] = todo[u]
      /\ todo' \in [Thread -> Seq(CallName)] /\ cell' \in [Thread -> Cell]
  BY <1>p, StartsSafe
<1>2. UNCHANGED <<m_conf, timeout, tout, foc_old, spun_up, alive, stop, driver>>
  BY <1>p DEF Starts, Begin, impl, motor
<1>3. calls' \in Nat /\ calls' = calls + 1 /\ mcconf_old' = mcconf_old
  BY DEF SetMcconf, SetAppconf, Counted, TypeInv
<1>4. /\ target' \in [Thread -> Conf] /\ wanted' \in Conf /\ wanted_timeout' \in {Off, Short}
      /\ \A u \in Thread \ {t} : target'[u] = target[u]
  <2>1. CASE \E msec \in {Off, Short} : SetAppconf(t, msec)
    BY <2>1 DEF SetAppconf, TypeInv
  <2>2. ASSUME NEW type \in MotorType, SetMcconf(t, type)
        PROVE  /\ target' \in [Thread -> Conf] /\ wanted' \in Conf /\ UNCHANGED wanted_timeout
               /\ \A u \in Thread \ {t} : target'[u] = target[u]
    <3>1. UserConf(type, calls') \in Conf
      BY <1>3 DEF UserConf, Conf
    <3> QED
      BY <1>0, <2>2, <3>1 DEF SetMcconf, TypeInv
  <2> QED
    BY <2>1, <2>2 DEF TypeInv
<1>5. TypeInv'
  BY <1>1, <1>2, <1>3, <1>4 DEF TypeInv
<1>6. Met' /\ (~overlapped' => ~overlapped /\ Quiet /\ Alone(t)')
  BY <1>0, <1>1, <1>p, StartsMet DEF Starts
<1>7. ImplInv'
  BY <1>0, <1>1, <1>2, <1>4, <1>6, <1>p, StartsImpl DEF Starts
<1>8. RestoreInv'
  <2>1. CASE overlapped'
    BY <2>1 DEF RestoreInv
  <2>2. CASE ~overlapped'
    <3>1. m_conf = wanted /\ (~spun_up => timeout = wanted_timeout)
      BY <1>6, <2>2, QuietIsRestored
    <3>2. ASSUME NEW type \in MotorType, SetMcconf(t, type) PROVE RestoreInv'
      <4>1. todo'[t] = set_mcconf /\ target'[t] = wanted' /\ UNCHANGED wanted_timeout
        BY <1>0, <3>2 DEF SetMcconf, Begin, TypeInv
      <4>2. /\ ~Has(set_mcconf, Unsettled) /\ ~Has(set_mcconf, Reverts) /\ Has(set_mcconf, Installs)
            /\ ~Owing(set_mcconf)
        BY DEF Has, set_mcconf, Unsettled, Changes, Reverts, Installs, Owing, PutsBack
      <4>3. ConfigurationFollows(t)'
        BY <4>1, <4>2 DEF ConfigurationFollows
      <4>4. ~spun_up' => TimeoutFollows(t)'
        BY <1>2, <3>1, <4>1, <4>2 DEF TimeoutFollows
      <4> QED
        BY <1>0, <1>6, <2>2, <4>3, <4>4, OneThread
    <3>3. ASSUME NEW msec, SetAppconf(t, msec) PROVE RestoreInv'
      <4>1. todo'[t] = set_appconf /\ UNCHANGED wanted
        BY <1>0, <3>3 DEF SetAppconf, Begin, TypeInv
      <4>2. /\ ~Has(set_appconf, Unsettled) /\ ~Has(set_appconf, Reverts)
            /\ ~Has(set_appconf, Installs)
            /\ ~Owing(set_appconf) /\ Has(set_appconf, {"user_timeout"})
        BY DEF Has, set_appconf, Unsettled, Changes, Reverts, Installs, Owing, PutsBack
      <4>3. ConfigurationFollows(t)'
        BY <1>2, <3>1, <4>1, <4>2 DEF ConfigurationFollows
      <4>4. TimeoutFollows(t)'
        BY <4>1, <4>2 DEF TimeoutFollows
      <4> QED
        BY <1>0, <1>6, <2>2, <4>3, <4>4, OneThread
    <3> QED
      BY <3>2, <3>3
  <2> QED
    BY <2>1, <2>2
<1> QED
  BY <1>1, <1>5, <1>6, <1>7, <1>8

(* ... what goes on around the procedures ...                              *)
LEMMA DetectionAround ==
  ASSUME DetectionInv, UNCHANGED <<procs, m_conf, timeout, history>>,
         lock' => lock, driver' \in {driver, "none"}, calls' \in Nat,
         \/ UNCHANGED <<alive, stop>>
         \/ \E w : alive' = alive \ {w} /\ stop' = stop \ {w}
  PROVE  DetectionInv'
<1> USE DEF DetectionInv, procs, history
<1>1. TypeInv'
  BY DEF TypeInv
<1>2. Shapes' /\ LockInv' /\ Met'
  BY DEF Shapes, LockInv, Met, Alone, Idle
<1>3. DriveInv'
  <2>1. \A t \in Thread : t # "none"
    BY DetectionAssumption DEF Thread
  <2> QED
    BY <2>1 DEF DriveInv
<1>4. ImplInv'
  BY DEF ImplInv
<1>5. RestoreInv'
  BY DEF RestoreInv, ConfigurationFollows, TimeoutFollows, Alone, Idle
<1> QED
  BY <1>1, <1>2, <1>3, <1>4, <1>5

(* ... and a terminal command, which overwrites the terminal's copy.       *)
LEMMA DetectionTerminal ==
  ASSUME DetectionInv, TerminalCommand
  PROVE  DetectionInv'
<1> USE DEF DetectionInv, TerminalCommand, motor, impl, Counted
<1>1. TypeInv'
  BY DEF TypeInv, Cell
<1>2. Shapes' /\ LockInv' /\ DriveInv'
  BY DEF Shapes, LockInv, DriveInv
<1>3. ~overlapped' => ~overlapped /\ \A u \in Thread : ~Idle(u) => cell[u] # "terminal"
  BY Zenon
<1>4. Met' /\ ImplInv'
  BY <1>3 DEF Met, ImplInv, Alone, Idle
<1>5. RestoreInv'
  <2> SUFFICES ASSUME ~overlapped', NEW t \in Thread, Alone(t)'
               PROVE  ConfigurationFollows(t)' /\ (~spun_up' => TimeoutFollows(t)')
    BY DEF RestoreInv
  <2>1. Alone(t) /\ ConfigurationFollows(t) /\ (~spun_up => TimeoutFollows(t))
    BY <1>3 DEF RestoreInv, Alone, Idle
  <2>2. TimeoutFollows(t) => TimeoutFollows(t)'
    BY DEF TimeoutFollows
  <2>3. CASE Idle(t)
    BY <2>1, <2>2, <2>3, HasEmpty DEF ConfigurationFollows, Idle
  <2>4. CASE ~Idle(t)
    <3>1. mcconf_old'[cell'[t]] = mcconf_old[cell[t]]
      <4>1. cell' = cell /\ cell[t] \in Cell /\ cell[t] # "terminal"
        BY <1>3, <2>4 DEF TypeInv
      <4> QED
        BY <4>1 DEF TypeInv
    <3> QED
      BY <2>1, <2>2, <3>1 DEF ConfigurationFollows
  <2> QED
    BY <2>1, <2>2, <2>3, <2>4
<1> QED
  BY <1>1, <1>2, <1>4, <1>5

(* The invariant holds when the firmware has started ...                   *)
LEMMA DetectionInit == Init => DetectionInv
<1> SUFFICES ASSUME Init PROVE DetectionInv
  OBVIOUS
<1> USE DEF Init
<1>1. PICK type \in MotorType : m_conf = UserConf(type, 0)
  OBVIOUS
<1>2. m_conf \in Conf /\ m_conf.type = type
  BY <1>1 DEF UserConf, Conf
<1>3. TypeInv
  BY <1>2 DEF TypeInv, Cell, Off, Short, Long
<1>4. Shape(<<>>) /\ ~Owing(<<>>)
  BY DEF Shape, Follows, Alike, Lends, Returns, Has, Owing
<1>5. \A t \in Thread : todo[t] = <<>>
  OBVIOUS
<1>6. Shapes /\ LockInv
  BY <1>4, <1>5 DEF Shapes, LockInv
<1>7. DriveInv
  BY DetectionAssumption DEF DriveInv, Thread
<1>8. Met
  BY <1>5 DEF Met, Idle
<1>9. ImplInv
  BY <1>5, HasEmpty DEF ImplInv
<1>10. RestoreInv
  BY <1>4, <1>5, HasEmpty DEF RestoreInv, ConfigurationFollows, TimeoutFollows
<1> QED
  BY <1>3, <1>6, <1>7, <1>8, <1>9, <1>10 DEF DetectionInv

(* ... is kept by every step ...                                           *)
LEMMA DetectionNext == DetectionInv /\ [Next]_dvars => DetectionInv'
<1> SUFFICES ASSUME DetectionInv, [Next]_dvars PROVE DetectionInv'
  OBVIOUS
<1>0. calls \in Nat /\ mcconf_old \in [Cell -> Conf] /\ m_conf \in Conf
  BY DEF DetectionInv, TypeInv
<1>p. Port \subseteq Thread /\ "detect" \in Thread /\ Cell = {"commands", "general", "terminal"}
  BY DEF Thread, Cell
<1>1. CASE UNCHANGED dvars
  BY <1>0, <1>1, DetectionAround DEF dvars, motor, impl
<1>2. ASSUME NEW t \in Port, Detect(t) PROVE DetectionInv'
  <2>1. calls' \in Nat /\ UNCHANGED <<target, mcconf_old, wanted, wanted_timeout>>
    BY <1>0, <1>2 DEF Detect, Counted
  <2>2. PICK c, p : c \in Cell /\ Begin(t, c, p) /\ Fresh(p, FALSE)
    BY <1>2, <1>p, FreshProcedures DEF Detect
  <2> QED
    BY <1>0, <1>p, <2>1, <2>2, DetectionBegins
<1>3. ASSUME NEW t \in Port, TerminalDetect(t) PROVE DetectionInv'
  <2>1. /\ calls' \in Nat /\ UNCHANGED <<target, wanted, wanted_timeout>>
        /\ mcconf_old' = [mcconf_old EXCEPT !["terminal"] = m_conf]
    BY <1>0, <1>3 DEF TerminalDetect, Counted
  <2>2. mcconf_old' \in [Cell -> Conf] /\ mcconf_old'["terminal"] = m_conf
    BY <1>0, <1>p, <2>1
  <2>3. CASE \E p \in TerminalDetections : Begin(t, "terminal", p)
    BY <1>p, <2>1, <2>2, <2>3, FreshProcedures, DetectionBegins
  <2>4. CASE \E p \in {measure_flux_linkage, detect_motor_param} : Begin(t, "general", p)
    BY <1>p, <2>1, <2>2, <2>4, FreshProcedures, DetectionBegins
  <2> QED
    BY <1>3, <2>3, <2>4 DEF TerminalDetect
<1>4. CASE DetectThread
  <2>1. UNCHANGED <<target, mcconf_old, calls, wanted, wanted_timeout>>
    BY <1>4 DEF DetectThread
  <2> QED
    BY <1>0, <1>4, <1>p, <2>1, FreshProcedures, DetectionBegins DEF DetectThread
<1>5. CASE DetectMotorParam
  BY <1>0, <1>5, DetectionAround DEF DetectMotorParam, Counted, motor, impl
<1>6. ASSUME NEW w, WorkerStops(w) PROVE DetectionInv'
  BY <1>0, <1>6, DetectionAround DEF WorkerStops, around, motor
<1>7. CASE Pulsed \/ Fault
  BY <1>0, <1>7, DetectionAround DEF Pulsed, Fault, around, impl
<1>8. CASE AppCommand
  BY <1>0, <1>8, DetectionAround DEF AppCommand, Setter, around, impl
<1>9. CASE TimeoutFires
  BY <1>0, <1>9, DetectionAround DEF TimeoutFires, around, impl
<1>10. CASE DrvFault
  BY <1>0, <1>10, DetectionAround DEF DrvFault, around, motor
<1> QED
  BY <1>1, <1>2, <1>3, <1>4, <1>5, <1>6, <1>7, <1>8, <1>9, <1>10, StoreBegins, DetectionTerminal,
     DetectionStep DEF Next

(* ... and so holds throughout.                                            *)
LEMMA DetectionInvHolds == Spec => []DetectionInv
  BY DetectionInit, DetectionNext, PTL DEF Spec

-----------------------------------------------------------------------------
(* The types of what the procedures share; and the threads of a motor      *)
(* implementation are gone before mc_interface_set_configuration starts    *)
(* those of the other one.                                                 *)
THEOREM DetectionTypes == Spec => []TypeOK
<1>1. DetectionInv => TypeOK
  BY DEF DetectionInv, TypeInv, ImplInv, Conf, TypeOK
<1> QED
  BY <1>1, DetectionInvHolds, PTL

(* No thread leaves the control locked, whichever procedures met and       *)
(* however the flux linkage measurement ended.                             *)
THEOREM LockIsReleased == Spec => []LockReleased
<1>1. DetectionInv => LockReleased
  BY HasEmpty DEF DetectionInv, LockInv, LockReleased, Quiet, Idle
<1> QED
  BY <1>1, DetectionInvHolds, PTL

(* The motor does not follow a procedure that has ended.                   *)
THEOREM DriveIsOwned == Spec => []OwnedDrive
<1>1. DetectionInv => OwnedDrive
  BY HasEmpty DEF DetectionInv, DriveInv, OwnedDrive, Idle
<1> QED
  BY <1>1, DetectionInvHolds, PTL

(* After any sequence of detections that did not meet, the motor           *)
(* configuration is the one that the user set last.                        *)
THEOREM ConfigurationIsRestored == Spec => []ConfigurationRestored
<1>1. DetectionInv => ConfigurationRestored
  BY QuietIsRestored DEF DetectionInv, ConfigurationRestored
<1> QED
  BY <1>1, DetectionInvHolds, PTL

(* So is the command timeout, unless a flux linkage measurement succeeded. *)
THEOREM TimeoutIsRestored == Spec => []TimeoutRestored
<1>1. DetectionInv => TimeoutRestored
  BY QuietIsRestored DEF DetectionInv, TimeoutRestored
<1> QED
  BY <1>1, DetectionInvHolds, PTL
=============================================================================
