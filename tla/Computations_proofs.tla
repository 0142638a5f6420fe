------------------------- MODULE Computations_proofs -------------------------
(***************************************************************************)
(* What holds of the computations for every input that can be reached and  *)
(* every value of the constants: lots, histories and lists of any size.    *)
(***************************************************************************)
EXTENDS Computations, Tariff_proofs, FiniteSetTheorems, FunctionTheorems, SequenceTheorems

-----------------------------------------------------------------------------
(* The tariff. *)

TariffInv == total \in Nat /\ free \in Nat /\ seconds \in Nat

LEMMA TariffStep ==
    ASSUME TariffInv, [Next]_inputs
    PROVE  TariffInv'
  <1> USE DEF TariffInv
  <1>1. CASE TariffInput
    BY <1>1, ComputationsAssumption DEF TariffInput, Arrive, Depart, Grow, Stay, Away
  <1>2. CASE UNCHANGED tariff
    BY <1>2 DEF tariff
  <1> QED BY <1>1, <1>2 DEF Next, HistoryInput, ListInput, InstanceInput, inputs

LEMMA TariffReached == Spec => []TariffInv
  <1>1. Init => TariffInv
    BY DEF Init, TariffInv
  <1> QED BY <1>1, TariffStep, PTL DEF Spec

\* For every setting of the surge with a cap of at least 1 and any two counts, of one
\* snapshot or not, the multiplier is between 1 and the cap, the cap when the lot is full,
\* 1 when it is empty (compute_surge).
THEOREM SurgeStaysWithinBounds == ASSUME SurgeMax >= 100 PROVE Spec => []SurgeWithinBounds
  <1>1. TariffInv => SurgeWithinBounds
    <2> SUFFICES ASSUME TariffInv
                 PROVE  SurgeWithinBounds
      OBVIOUS
    <2>1. total \in Nat /\ free \in Nat
      BY DEF TariffInv
    <2>2. Surge \in 100 .. SurgeMax
      BY <2>1, OccupancyAtMostOne, SurgeBetweenOneAndCap DEF Surge
    <2>3. SurgeEnabled /\ SurgeThreshold < 10000 /\ total > 0 /\ free = 0 => Surge = SurgeMax
      BY <2>1, SurgeWhenFull DEF Surge
    <2>4. free >= total => Surge = 100
      BY <2>1, SurgeWhenEmpty DEF Surge
    <2> QED BY <2>2, <2>3, <2>4 DEF SurgeWithinBounds
  <1> QED BY <1>1, TariffReached, PTL

\* One more free slot never raises the multiplier, whatever the two roundings do.
THEOREM SurgeFollows == ASSUME SurgeMax >= 100 PROVE Spec => SurgeFollowsDemand
  <1>1. TariffInv /\ TariffInv' => [free' > free /\ total' = total => Surge' <= Surge]_inputs
    <2> SUFFICES ASSUME TariffInv, TariffInv', free' > free, total' = total
                 PROVE  Surge' <= Surge
      OBVIOUS
    <2>1. total \in Nat /\ free \in Nat /\ free' \in Nat /\ free <= free'
      BY DEF TariffInv
    <2>2. OccupancyRatio(total, free') <= OccupancyRatio(total, free)
      BY <2>1, OccupancyFalls
    <2>3. ComputeSurge(OccupancyRatio(total, free')) <= ComputeSurge(OccupancyRatio(total, free))
      BY <2>1, <2>2, OccupancyAtMostOne, SurgeMonotone
    <2> QED BY <2>3 DEF Surge
  <1> QED BY <1>1, TariffReached, PTL DEF SurgeFollowsDemand

\* A stay of any length is billed the least number of hours that covers it, less the
\* last started minute, and never fewer than the minimum (exit_booking).
THEOREM FareCovers == Spec => []FareCoversStay
  <1>1. TariffInv => FareCoversStay
    BY BilledHoursInt, BilledHoursCover DEF TariffInv, FareCoversStay
  <1> QED BY <1>1, TariffReached, PTL

-----------------------------------------------------------------------------
(* The instance. *)

InstanceInv ==
    /\ env \in Environments /\ dbUp \in BOOLEAN /\ redisUp \in BOOLEAN
    /\ subject = "instance" => Boots(env)

LEMMA InstanceReached == Spec => []InstanceInv
  <1>1. Init => InstanceInv
    BY DEF Init, InstanceInv, Bare, Environments
  <1>2. InstanceInv /\ [Next]_inputs => InstanceInv'
    BY DEF InstanceInv, Next, TariffInput, HistoryInput, ListInput, InstanceInput, inputs,
           instance
  <1> QED BY <1>1, <1>2, PTL DEF Spec

\* Whatever its environment, an instance that starts in production uses the shared
\* database, cache and queue, and says that it is well exactly while all it depends on
\* is up (ProductionConfig, healthz).
THEOREM DeploymentStaysSound == Spec => []DeploymentIsSound
  <1>1. InstanceInv => DeploymentIsSound
    <2> SUFFICES ASSUME InstanceInv
                 PROVE  DeploymentIsSound
      OBVIOUS
    <2>1. /\ env.FLASK_ENV \in {Unset, "development", "testing", "production", "staging"}
          /\ env.SECRET_KEY \in {Unset, "dev-only", "own"}
          /\ env.DATABASE_URL \in {Unset, "postgres", "postgresql", "postgresql+psycopg",
                                   "sqlite"}
          /\ env.REDIS_URL \in {Unset, "redis"}
      BY DEF InstanceInv, Environments
    <2>2. ASSUME subject = "instance", Config(env).name = "production"
          PROVE  /\ Config(env).database = "postgresql+psycopg"
                 /\ Config(env).cache = "RedisCache" /\ Config(env).queue # Unset
      <3>1. ConfigName(env) = "production"
        BY <2>2 DEF Config
      <3>2. FitForProduction(env)
        BY <2>2, <3>1 DEF InstanceInv, Boots
      <3>3. DatabaseUri(env) = "postgresql+psycopg"
        BY <2>1, <3>2 DEF FitForProduction, DatabaseUri, NormalizeDbUrl
      <3> QED BY <3>1, <3>2, <3>3 DEF Config, FitForProduction
    <2>3. DependsOnRedis <=> env.REDIS_URL = "redis"
      BY <2>1, DeploymentAssumption DEF DependsOnRedis, Config
    <2>4. /\ Healthz(env, dbUp, redisUp).status = "ok" <=> dbUp /\ (DependsOnRedis => redisUp)
          /\ Healthz(env, dbUp, redisUp).code = 200 <=> dbUp
      BY <2>3 DEF Healthz, StatusCode, InstanceInv
    <2> QED BY <2>2, <2>4 DEF DeploymentIsSound
  <1> QED BY <1>1, InstanceReached, PTL

-----------------------------------------------------------------------------
(* Sums.  SumFunctionOnSet is a recursion over the subsets of a set: what it *)
(* computes is proved of finite sets by taking a smallest counterexample.    *)

\* Among subsets of a finite set there is one that contains no other of them.
LEMMA SmallestSet ==
    ASSUME NEW S, IsFiniteSet(S), NEW Bad \in SUBSET SUBSET S, Bad # {}
    PROVE  \E T \in Bad : \A U \in Bad : U \subseteq T => U = T
  <1>1. IsWellFoundedOn(StrictSubsetOrdering(S), SUBSET S)
    BY FS_StrictSubsetOrderingWellFounded, FS_FiniteSubsetsOfFinite
  <1>2. PICK T \in Bad : \A U \in Bad : ~(<<U, T>> \in StrictSubsetOrdering(S))
    BY <1>1, WFMin
  <1>3. \A U \in Bad : <<U, T>> \in StrictSubsetOrdering(S) <=> U \subseteq T /\ U # T
    BY DEF StrictSubsetOrdering
  <1>4. \A U \in Bad : U \subseteq T => U = T
    BY <1>2, <1>3
  <1> QED BY <1>4

\* Induction over a finite set, for a property given as the sets that have it.
LEMMA SetInduction ==
    ASSUME NEW S, IsFiniteSet(S), NEW P, {} \in P,
           \A T \in SUBSET S : \A x \in S \ T : T \in P => T \cup {x} \in P
    PROVE  S \in P
  <1> DEFINE Bad == {T \in SUBSET S : T \notin P}
  <1>1. SUFFICES ASSUME Bad # {} PROVE FALSE
    OBVIOUS
  <1>2. PICK T \in Bad : \A U \in Bad : U \subseteq T => U = T
    <2>1. Bad \in SUBSET SUBSET S
      OBVIOUS
    <2> HIDE DEF Bad
    <2> QED BY <1>1, <2>1, SmallestSet
  <1>3. PICK x \in T : TRUE
    BY <1>2
  <1>4. T \ {x} \in SUBSET S /\ T \ {x} # T /\ T \ {x} \subseteq T
    BY <1>2, <1>3
  <1>5. T \ {x} \in P
    BY <1>2, <1>4
  <1>6. x \in S \ (T \ {x}) /\ (T \ {x}) \cup {x} = T
    BY <1>2, <1>3
  <1>7. T \in P
    BY <1>4, <1>5, <1>6
  <1> QED BY <1>2, <1>7

Total(f, S) == SumFunctionOnSet(f, S)

Pick(s) == CHOOSE x \in s : TRUE

\* g adds up f over the subsets of S.
AddsUp(g, f, S) ==
    g = [s \in SUBSET S |-> IF s = {} THEN 0 ELSE f[Pick(s)] + g[s \ {Pick(s)}]]

LEMMA TotalIs ==
    ASSUME NEW f, NEW S
    PROVE  Total(f, S) = (CHOOSE g : AddsUp(g, f, S))[S]
  BY DEF Total, SumFunctionOnSet, FoldFunctionOnSet, MapThenFoldSet, AddsUp, Pick

LEMMA AddsUpAt ==
    ASSUME NEW f, NEW S, NEW g, AddsUp(g, f, S), NEW s \in SUBSET S
    PROVE  g[s] = IF s = {} THEN 0 ELSE f[Pick(s)] + g[s \ {Pick(s)}]
  BY DEF AddsUp

LEMMA AddsUpOnce ==
    ASSUME NEW f, NEW S, IsFiniteSet(S), NEW g, NEW h, AddsUp(g, f, S), AddsUp(h, f, S)
    PROVE  g[S] = h[S]
  <1> DEFINE Bad == {s \in SUBSET S : g[s] # h[s]}
  <1>1. SUFFICES ASSUME Bad # {} PROVE FALSE
    OBVIOUS
  <1>2. PICK T \in Bad : \A U \in Bad : U \subseteq T => U = T
    <2>1. Bad \in SUBSET SUBSET S
      OBVIOUS
    <2> HIDE DEF Bad
    <2> QED BY <1>1, <2>1, SmallestSet
  <1>3. T \in SUBSET S
    BY <1>2
  <1>4. CASE T = {}
    BY <1>2, <1>3, <1>4, AddsUpAt
  <1>5. CASE T # {}
    <2> DEFINE p == Pick(T)
    <2>1. p \in T
      BY <1>5 DEF Pick
    <2>2. T \ {p} \in SUBSET S /\ T \ {p} \subseteq T /\ T \ {p} # T
      BY <1>3, <2>1
    <2>3. g[T \ {p}] = h[T \ {p}]
      BY <1>2, <2>2
    <2>4. g[T] = f[p] + g[T \ {p}] /\ h[T] = f[p] + h[T \ {p}]
      BY <1>3, <1>5, AddsUpAt
    <2> QED BY <1>2, <2>3, <2>4
  <1> QED BY <1>4, <1>5

LEMMA AddsUpBelow ==
    ASSUME NEW f, NEW S, IsFiniteSet(S), NEW g, AddsUp(g, f, S), NEW v \in SUBSET S
    PROVE  Total(f, v) = g[v]
  <1> DEFINE h == [s \in SUBSET v |-> g[s]]
  <1>1. AddsUp(h, f, v)
    <2>1. ASSUME NEW s \in SUBSET v
          PROVE  h[s] = IF s = {} THEN 0 ELSE f[Pick(s)] + h[s \ {Pick(s)}]
      <3>1. s \in SUBSET S /\ s \ {Pick(s)} \in SUBSET v
        OBVIOUS
      <3> QED BY <3>1, AddsUpAt
    <2> QED BY <2>1 DEF AddsUp
  <1>2. AddsUp(CHOOSE k : AddsUp(k, f, v), f, v)
    BY <1>1
  <1>3. IsFiniteSet(v)
    BY FS_Subset
  <1>4. (CHOOSE k : AddsUp(k, f, v))[v] = h[v]
    BY <1>1, <1>2, <1>3, AddsUpOnce
  <1> QED BY <1>4, TotalIs

LEMMA SomeAddsUp ==
    ASSUME NEW f, NEW S, IsFiniteSet(S)
    PROVE  \E g : AddsUp(g, f, S)
  <1> DEFINE Bad == {s \in SUBSET S : ~\E g : AddsUp(g, f, s)}
  <1>1. SUFFICES ASSUME Bad # {} PROVE FALSE
    OBVIOUS
  <1>2. PICK T \in Bad : \A U \in Bad : U \subseteq T => U = T
    <2>1. Bad \in SUBSET SUBSET S
      OBVIOUS
    <2> HIDE DEF Bad
    <2> QED BY <1>1, <2>1, SmallestSet
  <1> DEFINE h == [s \in SUBSET T |-> IF s = {} THEN 0
                                      ELSE f[Pick(s)] + Total(f, s \ {Pick(s)})]
  <1>3. ASSUME NEW u \in SUBSET T, u # T
        PROVE  Total(f, u) = h[u]
    <2>1. u \in SUBSET S /\ IsFiniteSet(u)
      BY <1>2, FS_Subset
    <2>2. PICK g : AddsUp(g, f, u)
      BY <1>2, <1>3, <2>1
    <2>3. Total(f, u) = g[u]
      BY <2>1, <2>2, AddsUpBelow
    <2>4. Total(f, u \ {Pick(u)}) = g[u \ {Pick(u)}]
      BY <2>1, <2>2, AddsUpBelow
    <2>5. g[u] = IF u = {} THEN 0 ELSE f[Pick(u)] + g[u \ {Pick(u)}]
      BY <2>2, AddsUpAt
    <2>6. h[u] = IF u = {} THEN 0 ELSE f[Pick(u)] + Total(f, u \ {Pick(u)})
      OBVIOUS
    <2> QED BY <2>3, <2>4, <2>5, <2>6
  <1>4. ASSUME NEW s \in SUBSET T
        PROVE  h[s] = IF s = {} THEN 0 ELSE f[Pick(s)] + h[s \ {Pick(s)}]
    <2>1. CASE s = {}
      BY <2>1
    <2>2. CASE s # {}
      <3>1. Pick(s) \in s
        BY <2>2 DEF Pick
      <3>2. s \ {Pick(s)} \in SUBSET T /\ s \ {Pick(s)} # T
        BY <3>1
      <3>3. Total(f, s \ {Pick(s)}) = h[s \ {Pick(s)}]
        BY <1>3, <3>2
      <3>4. h[s] = f[Pick(s)] + Total(f, s \ {Pick(s)})
        BY <2>2
      <3> QED BY <2>2, <3>3, <3>4
    <2> QED BY <2>1, <2>2
  <1>5. AddsUp(h, f, T)
    BY <1>4 DEF AddsUp
  <1> QED BY <1>2, <1>5

\* The sum over nothing, and one step of the recursion.
LEMMA TotalOfNone ==
    ASSUME NEW f
    PROVE  Total(f, {}) = 0
  <1>1. IsFiniteSet({})
    BY FS_EmptySet
  <1>2. PICK g : AddsUp(g, f, {})
    BY <1>1, SomeAddsUp
  <1>3. Total(f, {}) = g[{}]
    BY <1>1, <1>2, AddsUpBelow
  <1>4. g[{}] = 0
    BY <1>2, AddsUpAt
  <1> QED BY <1>3, <1>4

LEMMA TotalPick ==
    ASSUME NEW f, NEW S, IsFiniteSet(S), S # {}
    PROVE  Total(f, S) = f[Pick(S)] + Total(f, S \ {Pick(S)})
  <1>1. PICK g : AddsUp(g, f, S)
    BY SomeAddsUp
  <1>2. Total(f, S) = g[S] /\ Total(f, S \ {Pick(S)}) = g[S \ {Pick(S)}]
    BY <1>1, AddsUpBelow
  <1> QED BY <1>1, <1>2, AddsUpAt

\* A sum of integers is one, of naturals a natural.
LEMMA TotalInt ==
    ASSUME NEW D, NEW f \in [D -> Int], NEW S \in SUBSET D, IsFiniteSet(S)
    PROVE  /\ Total(f, S) \in Int
           /\ (\A x \in S : f[x] >= 0) => Total(f, S) >= 0
  <1> DEFINE Good(s) == Total(f, s) \in Int /\ ((\A x \in s : f[x] >= 0) => Total(f, s) >= 0)
             Bad == {s \in SUBSET S : ~Good(s)}
  <1>1. SUFFICES ASSUME Bad # {} PROVE FALSE
    OBVIOUS
  <1>2. PICK T \in Bad : \A U \in Bad : U \subseteq T => U = T
    <2>1. Bad \in SUBSET SUBSET S
      OBVIOUS
    <2> HIDE DEF Bad
    <2> QED BY <1>1, <2>1, SmallestSet
  <1>3. T \in SUBSET S /\ IsFiniteSet(T) /\ ~Good(T)
    BY <1>2, FS_Subset
  <1>4. CASE T = {}
    BY <1>3, <1>4, TotalOfNone
  <1>5. CASE T # {}
    <2> DEFINE p == Pick(T)
    <2>1. p \in T /\ f[p] \in Int
      BY <1>3, <1>5 DEF Pick
    <2>2. T \ {p} \in SUBSET S /\ T \ {p} \subseteq T /\ T \ {p} # T
      BY <1>3, <2>1
    <2>3. Good(T \ {p})
      BY <1>2, <2>2
    <2>4. Total(f, T) = f[p] + Total(f, T \ {p})
      BY <1>3, <1>5, TotalPick
    <2> HIDE DEF p
    <2> QED BY <1>3, <2>1, <2>3, <2>4
  <1> QED BY <1>4, <1>5

\* Any element can be taken first.
LEMMA TotalRemove ==
    ASSUME NEW D, NEW f \in [D -> Int], NEW S \in SUBSET D, IsFiniteSet(S), NEW x \in S
    PROVE  Total(f, S) = f[x] + Total(f, S \ {x})
  <1> DEFINE Good(s) == \A y \in s : Total(f, s) = f[y] + Total(f, s \ {y})
             Bad == {s \in SUBSET S : ~Good(s)}
  <1>1. SUFFICES ASSUME Bad # {} PROVE FALSE
    OBVIOUS
  <1>2. PICK T \in Bad : \A U \in Bad : U \subseteq T => U = T
    <2>1. Bad \in SUBSET SUBSET S
      OBVIOUS
    <2> HIDE DEF Bad
    <2> QED BY <1>1, <2>1, SmallestSet
  <1>3. T \in SUBSET S /\ IsFiniteSet(T)
    BY <1>2, FS_Subset
  <1>4. PICK y \in T : Total(f, T) # f[y] + Total(f, T \ {y})
    BY <1>2
  <1> DEFINE p == Pick(T)
  <1>5. p \in T
    BY <1>4 DEF Pick
  <1>6. Total(f, T) = f[p] + Total(f, T \ {p})
    BY <1>3, <1>4, TotalPick
  <1> HIDE DEF p
  <1>7. p # y
    BY <1>4, <1>6
  <1>8. /\ T \ {p} \in SUBSET S /\ T \ {p} \subseteq T /\ T \ {p} # T /\ y \in T \ {p}
        /\ T \ {y} \in SUBSET S /\ T \ {y} \subseteq T /\ T \ {y} # T /\ p \in T \ {y}
        /\ (T \ {p}) \ {y} = (T \ {y}) \ {p}
    BY <1>3, <1>4, <1>5, <1>7
  <1>9. Good(T \ {p}) /\ Good(T \ {y})
    BY <1>2, <1>8
  <1> DEFINE rest == Total(f, (T \ {p}) \ {y})
  <1>10. Total(f, T \ {p}) = f[y] + rest /\ Total(f, T \ {y}) = f[p] + rest
    BY <1>8, <1>9
  <1>11. rest \in Int /\ f[p] \in Int /\ f[y] \in Int
    <2>1. (T \ {p}) \ {y} \in SUBSET D /\ IsFiniteSet((T \ {p}) \ {y})
      BY <1>3, FS_Subset
    <2> QED BY <1>3, <1>4, <1>5, <2>1, TotalInt
  <1> HIDE DEF rest
  <1> QED BY <1>4, <1>6, <1>10, <1>11

\* An element more adds its value.
LEMMA TotalAdd ==
    ASSUME NEW D, NEW f \in [D -> Int], NEW S \in SUBSET D, IsFiniteSet(S),
           NEW x \in D, x \notin S
    PROVE  Total(f, S \cup {x}) = f[x] + Total(f, S)
  <1>1. /\ S \cup {x} \in SUBSET D /\ IsFiniteSet(S \cup {x})
        /\ x \in S \cup {x} /\ (S \cup {x}) \ {x} = S
    BY FS_AddElement
  <1>2. Total(f, S \cup {x}) = f[x] + Total(f, (S \cup {x}) \ {x})
    BY <1>1, TotalRemove
  <1> QED BY <1>1, <1>2

\* Disjoint sets add up.
LEMMA TotalUnion ==
    ASSUME NEW D, NEW f \in [D -> Int], NEW S \in SUBSET D, IsFiniteSet(S),
           NEW T \in SUBSET D, IsFiniteSet(T), S \cap T = {}
    PROVE  Total(f, S \cup T) = Total(f, S) + Total(f, T)
  <1> DEFINE P == {U \in SUBSET T : Total(f, S \cup U) = Total(f, S) + Total(f, U)}
  <1>1. {} \in P
    <2>1. S \cup {} = S /\ Total(f, S) \in Int
      BY TotalInt
    <2> QED BY <2>1, TotalOfNone
  <1>2. ASSUME NEW U \in SUBSET T, NEW x \in T \ U, U \in P
        PROVE  U \cup {x} \in P
    <2> DEFINE V == S \cup U
               W == S \cup (U \cup {x})
    <2>1. /\ IsFiniteSet(U) /\ IsFiniteSet(V)
          /\ U \in SUBSET D /\ V \in SUBSET D /\ x \in D /\ x \notin U /\ x \notin V
      BY FS_Subset, FS_Union
    <2>2. Total(f, U \cup {x}) = f[x] + Total(f, U)
      BY <2>1, TotalAdd
    <2>3. W = V \cup {x} /\ U \cup {x} \in SUBSET T
      OBVIOUS
    <2>4. Total(f, V) = Total(f, S) + Total(f, U)
      BY <1>2
    <2> HIDE DEF V, W
    <2>5. Total(f, W) = f[x] + Total(f, V)
      BY <2>1, <2>3, TotalAdd
    <2>6. f[x] \in Int /\ Total(f, U) \in Int /\ Total(f, S) \in Int
      BY <2>1, TotalInt
    <2>7. Total(f, W) = Total(f, S) + Total(f, U \cup {x})
      BY <2>2, <2>4, <2>5, <2>6
    <2> QED BY <2>3, <2>7 DEF W
  <1> HIDE DEF P
  <1>3. T \in P
    BY <1>1, <1>2, SetInduction
  <1> QED BY <1>3 DEF P

\* The sums over the classes of a partition add up to the sum over the whole.
LEMMA TotalOfClasses ==
    ASSUME NEW D, IsFiniteSet(D), NEW f \in [D -> Int], NEW K, IsFiniteSet(K),
           NEW C \in [K -> SUBSET D], \A j, k \in K : j # k => C[j] \cap C[k] = {},
           NEW g, g = [k \in K |-> Total(f, C[k])]
    PROVE  Total(g, K) = Total(f, UNION {C[k] : k \in K})
  <1> DEFINE Whole(L) == UNION {C[k] : k \in L}
             P == {L \in SUBSET K : Total(g, L) = Total(f, Whole(L))}
  <1>1. \A L \in SUBSET K : Whole(L) \in SUBSET D /\ IsFiniteSet(Whole(L))
    BY FS_Subset
  <1>2. g \in [K -> Int]
    BY FS_Subset, TotalInt
  <1>3. {} \in P
    <2>1. Whole({}) = {}
      OBVIOUS
    <2> QED BY <2>1, TotalOfNone
  <1>4. ASSUME NEW L \in SUBSET K, NEW x \in K \ L, L \in P
        PROVE  L \cup {x} \in P
    <2>1. IsFiniteSet(L)
      BY FS_Subset
    <2>2. Total(g, L \cup {x}) = g[x] + Total(g, L)
      BY <1>2, <2>1, TotalAdd
    <2>3. Whole(L \cup {x}) = C[x] \cup Whole(L) /\ C[x] \cap Whole(L) = {}
      OBVIOUS
    <2>4. C[x] \in SUBSET D /\ IsFiniteSet(C[x])
      BY FS_Subset
    <2>5. Total(f, C[x] \cup Whole(L)) = Total(f, C[x]) + Total(f, Whole(L))
      <3> DEFINE A == C[x]
                 B == Whole(L)
      <3>1. /\ A \in SUBSET D /\ IsFiniteSet(A) /\ B \in SUBSET D /\ IsFiniteSet(B)
            /\ A \cap B = {}
        BY <1>1, <2>3, <2>4
      <3> HIDE DEF A, B
      <3>2. Total(f, A \cup B) = Total(f, A) + Total(f, B)
        BY <3>1, TotalUnion
      <3> QED BY <3>2 DEF A, B
    <2>6. g[x] = Total(f, C[x]) /\ Total(g, L) = Total(f, Whole(L)) /\ L \cup {x} \in SUBSET K
      BY <1>4
    <2> QED BY <2>2, <2>3, <2>5, <2>6
  <1> HIDE DEF P
  <1>5. K \in P
    BY <1>3, <1>4, SetInduction
  <1> QED BY <1>5 DEF P

\* The sizes of disjoint sets add up to the size of their union.
LEMMA TotalOfSizes ==
    ASSUME NEW D, IsFiniteSet(D), NEW K, IsFiniteSet(K),
           NEW C \in [K -> SUBSET D], \A j, k \in K : j # k => C[j] \cap C[k] = {},
           NEW g, g = [k \in K |-> Cardinality(C[k])]
    PROVE  Total(g, K) = Cardinality(UNION {C[k] : k \in K})
  <1> DEFINE Whole(L) == UNION {C[k] : k \in L}
             P == {L \in SUBSET K : Total(g, L) = Cardinality(Whole(L))}
  <1>1. \A L \in SUBSET K : Whole(L) \in SUBSET D /\ IsFiniteSet(Whole(L))
    BY FS_Subset
  <1>2. g \in [K -> Int]
    BY FS_Subset, FS_CardinalityType
  <1>3. {} \in P
    <2>1. Whole({}) = {}
      OBVIOUS
    <2> QED BY <2>1, TotalOfNone, FS_EmptySet
  <1>4. ASSUME NEW L \in SUBSET K, NEW x \in K \ L, L \in P
        PROVE  L \cup {x} \in P
    <2>1. IsFiniteSet(L)
      BY FS_Subset
    <2>2. Total(g, L \cup {x}) = g[x] + Total(g, L)
      BY <1>2, <2>1, TotalAdd
    <2>3. Whole(L \cup {x}) = C[x] \cup Whole(L) /\ C[x] \cap Whole(L) = {}
      OBVIOUS
    <2>4. C[x] \in SUBSET D /\ IsFiniteSet(C[x])
      BY FS_Subset
    <2>5. Cardinality(C[x] \cup Whole(L)) = Cardinality(C[x]) + Cardinality(Whole(L))
      <3>1. /\ Cardinality(C[x] \cup Whole(L))
                 = Cardinality(C[x]) + Cardinality(Whole(L)) - Cardinality(C[x] \cap Whole(L))
        BY <1>1, <2>4, FS_Union
      <3>2. Cardinality(C[x] \cap Whole(L)) = 0
        BY <2>3, FS_EmptySet
      <3>3. Cardinality(C[x]) \in Nat /\ Cardinality(Whole(L)) \in Nat
        BY <1>1, <2>4, FS_CardinalityType
      <3> QED BY <3>1, <3>2, <3>3
    <2>6. g[x] = Cardinality(C[x]) /\ Total(g, L) = Cardinality(Whole(L)) /\ L \cup {x} \in SUBSET K
      BY <1>4
    <2> QED BY <2>2, <2>3, <2>5, <2>6
  <1> HIDE DEF P
  <1>5. K \in P
    BY <1>3, <1>4, SetInduction
  <1> QED BY <1>5 DEF P

\* Greater values have a greater sum.
LEMMA TotalMonotone ==
    ASSUME NEW D, NEW f \in [D -> Int], NEW E, NEW g \in [E -> Int],
           NEW S \in SUBSET (D \cap E), IsFiniteSet(S), \A x \in S : f[x] <= g[x]
    PROVE  Total(f, S) <= Total(g, S)
  <1> DEFINE P == {U \in SUBSET S : Total(f, U) <= Total(g, U)}
  <1>1. {} \in P
    BY TotalOfNone
  <1>2. ASSUME NEW U \in SUBSET S, NEW x \in S \ U, U \in P
        PROVE  U \cup {x} \in P
    <2>1. IsFiniteSet(U) /\ U \in SUBSET D /\ U \in SUBSET E /\ x \in D /\ x \in E
      BY FS_Subset
    <2>2. Total(f, U \cup {x}) = f[x] + Total(f, U) /\ Total(g, U \cup {x}) = g[x] + Total(g, U)
      BY <2>1, TotalAdd
    <2>3. f[x] \in Int /\ g[x] \in Int /\ f[x] <= g[x] /\ Total(f, U) \in Int /\ Total(g, U) \in Int
      BY <2>1, TotalInt
    <2>4. Total(f, U) <= Total(g, U) /\ U \cup {x} \in SUBSET S
      BY <1>2
    <2>5. Total(f, U \cup {x}) <= Total(g, U \cup {x})
      BY <2>2, <2>3, <2>4
    <2> QED BY <2>4, <2>5
  <1> HIDE DEF P
  <1>3. S \in P
    BY <1>1, <1>2, SetInduction
  <1> QED BY <1>3 DEF P

-----------------------------------------------------------------------------
(* The history of a lot. *)

Record == [slot : Lot, start : Nat, end : Nat, status : {"active", "completed", "cancelled"},
           cost : Nat]

\* The bookings lie in the past.  (Whether they are active and what their slots' status is
\* is not tied.)
HistoryInv ==
    /\ now \in Nat /\ bookings \in Seq(Record) /\ slots \in [Lot -> SlotStatuses]
    /\ \A i \in DOMAIN bookings :
          bookings[i].start <= bookings[i].end /\ bookings[i].end <= now

LEMMA Rows ==
    ASSUME HistoryInv
    PROVE  /\ Len(bookings) \in Nat /\ DOMAIN bookings = 1 .. Len(bookings)
           /\ \A i \in DOMAIN bookings :
                 /\ bookings[i] \in Record /\ bookings[i].slot \in Lot
                 /\ bookings[i].start \in Nat /\ bookings[i].end \in Nat
                 /\ bookings[i].cost \in Nat
  <1>1. Len(bookings) \in Nat /\ DOMAIN bookings = 1 .. Len(bookings)
    BY DEF HistoryInv
  <1>2. ASSUME NEW i \in DOMAIN bookings
        PROVE  bookings[i] \in Record
    <2>1. bookings \in Seq(Record)
      BY DEF HistoryInv
    <2> QED BY <1>1, <2>1, ElementOfSeq
  <1> QED BY <1>1, <1>2 DEF Record

LEMMA BookStep ==
    ASSUME HistoryInv, Book
    PROVE  HistoryInv'
  <1>1. PICK s \in Lot :
          /\ slots' = [slots EXCEPT ![s] = "occupied"]
          /\ bookings' = Append(bookings, [slot |-> s, start |-> now, end |-> now,
                                           status |-> "active", cost |-> 0])
          /\ now' = now
    BY DEF Book
  <1> DEFINE row == [slot |-> s, start |-> now, end |-> now, status |-> "active", cost |-> 0]
             n == Len(bookings)
  <1>2. row \in Record /\ row.slot = s /\ row.start = now /\ row.end = now /\ row.status = "active"
    BY DEF HistoryInv, Record
  <1>3. /\ n \in Nat /\ DOMAIN bookings = 1 .. n /\ DOMAIN bookings' = 1 .. n + 1
        /\ bookings' \in Seq(Record)
        /\ bookings'[n + 1] = row /\ \A i \in 1 .. n : bookings'[i] = bookings[i]
    BY <1>1, <1>2 DEF HistoryInv
  <1> HIDE DEF row, n
  <1>4. slots' \in [Lot -> SlotStatuses]
    BY <1>1 DEF HistoryInv, SlotStatuses
  <1>5. ASSUME NEW i \in DOMAIN bookings'
        PROVE  bookings'[i].start <= bookings'[i].end /\ bookings'[i].end <= now'
    <2>1. CASE i = n + 1
      BY <1>1, <1>2, <1>3, <2>1 DEF HistoryInv
    <2>2. CASE i \in 1 .. n
      BY <1>1, <1>3, <2>2 DEF HistoryInv
    <2> QED BY <1>3, <2>1, <2>2
  <1> QED BY <1>1, <1>3, <1>4, <1>5 DEF HistoryInv

LEMMA LeaveStep ==
    ASSUME HistoryInv, Leave
    PROVE  HistoryInv'
  <1>1. PICK i \in DOMAIN bookings :
          /\ bookings[i].status = "active"
          /\ slots' = [slots EXCEPT ![bookings[i].slot] = "available"]
          /\ \/ bookings' = [bookings EXCEPT ![i].status = "completed", ![i].end = now,
                                             ![i].cost = now - bookings[i].start + 1]
             \/ bookings' = [bookings EXCEPT ![i].status = "cancelled"]
          /\ now' = now
    BY DEF Leave
  <1> DEFINE s == bookings[i].slot
  <1>2. /\ bookings[i] \in Record /\ s \in Lot /\ bookings[i].start \in Nat /\ now \in Nat
        /\ bookings[i].start <= bookings[i].end /\ bookings[i].end <= now
        /\ bookings[i].end \in Nat
    BY Rows DEF HistoryInv
  <1>3. PICK row \in Record :
          /\ bookings' = [bookings EXCEPT ![i] = row]
          /\ row.slot = s /\ row.status # "active"
          /\ row.start <= row.end /\ row.end <= now
    <2>1. CASE bookings' = [bookings EXCEPT ![i].status = "completed", ![i].end = now,
                                            ![i].cost = now - bookings[i].start + 1]
      <3> DEFINE row == [bookings[i] EXCEPT !.status = "completed", !.end = now,
                                            !.cost = now - bookings[i].start + 1]
      <3>1. bookings' = [bookings EXCEPT ![i] = row]
        BY <2>1
      <3>2. now - bookings[i].start + 1 \in Nat
        BY <1>2
      <3>3. /\ row \in Record /\ row.slot = s /\ row.status # "active"
            /\ row.start <= row.end /\ row.end <= now
        <4>1. bookings[i] \in Record /\ now \in Nat
          BY <1>2
        <4>2. /\ row \in Record /\ row.slot = s /\ row.status = "completed"
              /\ row.start = bookings[i].start /\ row.end = now
          BY <3>2, <4>1 DEF Record
        <4> HIDE DEF row
        <4> QED BY <1>2, <4>2
      <3> QED BY <3>1, <3>3
    <2>2. CASE bookings' = [bookings EXCEPT ![i].status = "cancelled"]
      <3> DEFINE row == [bookings[i] EXCEPT !.status = "cancelled"]
      <3>1. bookings' = [bookings EXCEPT ![i] = row]
        BY <2>2
      <3>2. /\ row \in Record /\ row.slot = s /\ row.status # "active"
            /\ row.start <= row.end /\ row.end <= now
        BY <1>2 DEF Record
      <3> QED BY <3>1, <3>2
    <2> QED BY <1>1, <2>1, <2>2
  <1>4. /\ bookings' \in Seq(Record) /\ DOMAIN bookings' = DOMAIN bookings
        /\ bookings'[i] = row /\ \A j \in DOMAIN bookings \ {i} : bookings'[j] = bookings[j]
    BY <1>3 DEF HistoryInv
  <1>5. slots' \in [Lot -> SlotStatuses]
    BY <1>1, <1>2 DEF HistoryInv, SlotStatuses
  <1>6. ASSUME NEW j \in DOMAIN bookings'
        PROVE  bookings'[j].start <= bookings'[j].end /\ bookings'[j].end <= now'
    <2>1. CASE j = i
      BY <1>1, <1>3, <1>4, <2>1
    <2>2. CASE j # i
      BY <1>1, <1>4, <2>2 DEF HistoryInv
    <2> QED BY <2>1, <2>2
  <1> QED BY <1>1, <1>2, <1>4, <1>5, <1>6 DEF HistoryInv

LEMMA HistoryStep ==
    ASSUME HistoryInv, [Next]_inputs
    PROVE  HistoryInv'
  <1>1. CASE Book
    BY <1>1, BookStep
  <1>2. CASE Leave
    BY <1>2, LeaveStep
  <1>3. CASE Mark
    <2>1. bookings' = bookings /\ now' = now /\ slots' \in [Lot -> SlotStatuses]
      BY <1>3 DEF Mark, HistoryInv
    <2> QED BY <2>1 DEF HistoryInv
  <1>4. CASE Hour
    <2>1. bookings' = bookings /\ slots' = slots /\ now' = now + 1
      BY <1>4 DEF Hour
    <2>2. \A i \in DOMAIN bookings : bookings[i].end \in Nat
      BY Rows
    <2> QED BY <2>1, <2>2 DEF HistoryInv
  <1>5. CASE UNCHANGED history
    BY <1>5 DEF history, HistoryInv
  <1> QED BY <1>1, <1>2, <1>3, <1>4, <1>5
          DEF Next, TariffInput, HistoryInput, ListInput, InstanceInput, inputs

LEMMA HistoryReached == Spec => []HistoryInv
  <1>1. Init => HistoryInv
    BY DEF Init, HistoryInv, SlotStatuses
  <1> QED BY <1>1, HistoryStep, PTL DEF Spec

-----------------------------------------------------------------------------
(* The dashboards. *)

Costs == [i \in DOMAIN bookings |-> bookings[i].cost]

LEMMA RevenueIs ==
    ASSUME NEW places
    PROVE  Revenue(bookings, places) = Total(Costs, places)
  BY DEF Revenue, Total, Costs

LEMMA Finite ==
    ASSUME HistoryInv
    PROVE  /\ IsFiniteSet(DOMAIN bookings) /\ Cardinality(DOMAIN bookings) = Len(bookings)
           /\ Costs \in [DOMAIN bookings -> Int]
           /\ DOMAIN slots = Lot /\ IsFiniteSet(Lot)
  <1>1. Len(bookings) \in Nat /\ DOMAIN bookings = 1 .. Len(bookings)
    BY Rows
  <1>2. IsFiniteSet(DOMAIN bookings) /\ Cardinality(DOMAIN bookings) = Len(bookings)
    <2> DEFINE n == Len(bookings)
    <2>1. n \in Nat /\ 1 \in Int /\ n \in Int /\ DOMAIN bookings = 1 .. n
      BY <1>1
    <2> HIDE DEF n
    <2>2. IsFiniteSet(1 .. n) /\ Cardinality(1 .. n) = n
      BY <2>1, FS_Interval
    <2> QED BY <2>1, <2>2 DEF n
  <1>3. Costs \in [DOMAIN bookings -> Int]
    BY Rows DEF Costs
  <1> QED BY <1>2, <1>3, ComputationsAssumption DEF HistoryInv

\* Division of naturals, and that it keeps their order.
LEMMA Quotient ==
    ASSUME NEW a \in Nat, NEW b \in Nat \ {0}
    PROVE  a \div b \in Nat /\ b * (a \div b) <= a /\ a < b * (a \div b) + b
  <1> DEFINE q == a \div b
             r == a % b
  <1>1. q \in Int /\ r \in 0 .. b - 1 /\ a = b * q + r
    BY DivMod
  <1> HIDE DEF q, r
  <1>2. q >= 0
    <2> SUFFICES ASSUME q <= -1 PROVE FALSE
      BY <1>1
    <2>1. b * q <= b * (-1)
      BY <1>1, TimesMonotone
    <2> QED BY <1>1, <2>1
  <1>3. b * q \in Int
    BY <1>1
  <1> QED BY <1>1, <1>2, <1>3 DEF q

LEMMA QuotientMonotone ==
    ASSUME NEW a \in Nat, NEW c \in Nat, NEW b \in Nat \ {0}, a <= c
    PROVE  a \div b <= c \div b
  <1> DEFINE x == a \div b
             y == c \div b
  <1>1. x \in Nat /\ y \in Nat /\ b * x <= a /\ c < b * y + b
    BY Quotient
  <1> HIDE DEF x, y
  <1> SUFFICES ASSUME y + 1 <= x PROVE FALSE
    BY <1>1 DEF x, y
  <1>2. b * (y + 1) <= b * x
    BY <1>1, TimesMonotone
  <1>3. b * (y + 1) = b * y + b /\ b * x \in Int /\ b * y \in Int
    BY <1>1
  <1> QED BY <1>1, <1>2, <1>3

\* The day of an hour.
LEMMA Day ==
    ASSUME NEW hour \in Nat
    PROVE  /\ DayOf(hour) \in Nat
           /\ HoursPerDay * DayOf(hour) <= hour
           /\ hour < HoursPerDay * DayOf(hour) + HoursPerDay
  BY Quotient, ReportsAssumption DEF DayOf

LEMMA DayMonotone ==
    ASSUME NEW early \in Nat, NEW late \in Nat, early <= late
    PROVE  DayOf(early) <= DayOf(late)
  BY QuotientMonotone, ReportsAssumption DEF DayOf

On(day) == {i \in Completed(bookings) : DayOf(bookings[i].end) = day}

\* The window of the trend holds every hour of the days it shows.
LEMMA InWindow ==
    ASSUME HistoryInv, NEW day \in Int, day >= DayOf(now) - Days + 1
    PROVE  {i \in {j \in Completed(bookings) : bookings[j].end >= Since(now)} :
               DayOf(bookings[i].end) = day} = On(day)
  <1>1. ASSUME NEW i \in On(day)
        PROVE  bookings[i].end >= Since(now)
    <2> DEFINE end == bookings[i].end
               today == DayOf(now)
    <2>1. end \in Nat /\ now \in Nat
      BY Rows DEF On, Completed, HistoryInv
    <2>2. /\ HoursPerDay \in Nat \ {0} /\ Days \in Nat \ {0} /\ today \in Nat
          /\ HoursPerDay * day <= end
          /\ now < HoursPerDay * today + HoursPerDay
      BY <2>1, Day, ReportsAssumption DEF On
    <2>3. Since(now) = now - Days * HoursPerDay
      BY DEF Since
    <2>4. day >= today - Days + 1
      OBVIOUS
    <2> HIDE DEF end, today
    <2>5. HoursPerDay * (today - Days + 1) <= HoursPerDay * day
      BY <2>2, <2>4, TimesMonotone
    <2>6. HoursPerDay * (today - Days + 1)
             = HoursPerDay * today - Days * HoursPerDay + HoursPerDay
      BY <2>2
    <2>7. HoursPerDay * today \in Int /\ Days * HoursPerDay \in Int /\ HoursPerDay * day \in Int
      BY <2>2
    <2>8. end >= now - Days * HoursPerDay
      BY <2>1, <2>2, <2>5, <2>6, <2>7
    <2> QED BY <2>3, <2>8 DEF end
  <1> QED BY <1>1 DEF On

\* The day of the n-th of the bars.
BarDay(n, late) == DayOf(now) - (Days - n) + (IF Days - n < late THEN 1 ELSE 0)

LEMMA WindowTypes ==
    ASSUME HistoryInv, NEW late \in Late
    PROVE  now \in Nat /\ DayOf(now) \in Nat /\ Days \in Nat \ {0} /\ late \in Nat
  <1>1. now \in Nat /\ Days \in Nat \ {0}
    BY ReportsAssumption DEF HistoryInv
  <1>2. DayOf(now) \in Nat
    BY <1>1, Day
  <1>3. late \in Nat
    BY <1>1 DEF Late
  <1> QED BY <1>1, <1>2, <1>3

LEMMA Bars ==
    ASSUME HistoryInv, NEW late \in Late, NEW n \in 1 .. Days
    PROVE  LET bar == RevenueTrend(bookings, now, late)[n]
           IN  bar.day = BarDay(n, late) /\ bar.revenue = Revenue(bookings, On(BarDay(n, late)))
  <1>1. now \in Nat /\ DayOf(now) \in Nat /\ Days \in Nat \ {0} /\ late \in Nat
    BY WindowTypes
  <1>2. BarDay(n, late) \in Int /\ BarDay(n, late) >= DayOf(now) - Days + 1
    BY <1>1 DEF BarDay
  <1> DEFINE day == BarDay(n, late)
             recent == {j \in Completed(bookings) : bookings[j].end >= Since(now)}
             shown == {i \in recent : DayOf(bookings[i].end) = day}
             bar == RevenueTrend(bookings, now, late)[n]
  <1>3. bar = [day |-> day, revenue |-> Revenue(bookings, shown)]
    BY DEF RevenueTrend, BarDay
  <1>4. shown = On(day)
    BY <1>2, InWindow
  <1> HIDE DEF day, shown
  <1>5. bar.day = day /\ bar.revenue = Revenue(bookings, On(day))
    BY <1>3, <1>4
  <1> QED BY <1>5 DEF day

LEMMA TrendStaysWhole ==
    ASSUME HistoryInv
    PROVE  TrendIsWhole
  <1> SUFFICES ASSUME NEW late \in Late
               PROVE  LET bars == RevenueTrend(bookings, now, late)
                      IN  /\ \A n \in 1 .. Days :
                                bars[n].revenue = Revenue(bookings, On(bars[n].day))
                          /\ \A n \in 2 .. Days : bars[n - 1].day < bars[n].day
                          /\ late = 0 => bars[Days].day = DayOf(now)
                          /\ late = 0 /\ DayOf(now) < Days =>
                               SumFunctionOnSet([n \in 1 .. Days |-> bars[n].revenue], 1 .. Days)
                                   = Kpis(bookings, slots).revenue
    BY DEF TrendIsWhole, On
  <1> DEFINE bars == RevenueTrend(bookings, now, late)
             today == DayOf(now)
  <1>1. now \in Nat /\ today \in Nat /\ Days \in Nat \ {0} /\ late \in Nat
    BY WindowTypes
  <1>2. \A n \in 1 .. Days : /\ bars[n].day = BarDay(n, late)
                             /\ bars[n].revenue = Revenue(bookings, On(bars[n].day))
    BY Bars
  <1>3. \A n \in 1 .. Days :
           BarDay(n, late) = today - (Days - n) + (IF Days - n < late THEN 1 ELSE 0)
    BY DEF BarDay
  <1> HIDE DEF bars, today
  <1>4. \A n \in 2 .. Days : bars[n - 1].day < bars[n].day
    BY <1>1, <1>2, <1>3
  <1>5. late = 0 => bars[Days].day = today
    BY <1>1, <1>2, <1>3
  <1>6. ASSUME late = 0, today < Days
        PROVE  SumFunctionOnSet([n \in 1 .. Days |-> bars[n].revenue], 1 .. Days)
                   = Kpis(bookings, slots).revenue
    <2> DEFINE K == 1 .. Days
               C == [n \in K |-> On(bars[n].day)]
               g == [n \in K |-> Total(Costs, C[n])]
               D == DOMAIN bookings
    <2>1. \A n \in K : bars[n].day = today - Days + n
      BY <1>1, <1>2, <1>3, <1>6
    <2>2. C \in [K -> SUBSET D]
      BY DEF On, Completed
    <2>3. \A j, k \in K : j # k => C[j] \cap C[k] = {}
      BY <1>1, <2>1 DEF On
    <2>4. UNION {C[n] : n \in K} = Completed(bookings)
      <3>1. ASSUME NEW i \in Completed(bookings)
            PROVE  \E n \in K : i \in C[n]
        <4> DEFINE d == DayOf(bookings[i].end)
                   n == d - today + Days
        <4>1. bookings[i].end \in Nat /\ bookings[i].end <= now
          BY Rows DEF Completed, HistoryInv
        <4>2. d \in Nat /\ d <= today
          BY <1>1, <4>1, Day, DayMonotone DEF today
        <4>3. n \in K /\ today - Days + n = d
          BY <1>1, <1>6, <4>2
        <4>4. i \in On(bars[n].day)
          BY <2>1, <4>3 DEF On
        <4> QED BY <4>3, <4>4
      <3>2. \A n \in K : C[n] \subseteq Completed(bookings)
        BY DEF On
      <3> QED BY <3>1, <3>2
    <2>5. IsFiniteSet(K) /\ IsFiniteSet(D) /\ Costs \in [D -> Int]
      <3>1. 1 \in Int /\ Days \in Int
        BY <1>1
      <3>2. IsFiniteSet(1 .. Days)
        BY <3>1, FS_Interval
      <3> QED BY <3>2, Finite
    <2>6. [n \in K |-> bars[n].revenue] = g
      BY <1>2, RevenueIs
    <2> HIDE DEF C, K, D
    <2>7. Total(g, K) = Total(Costs, UNION {C[n] : n \in K})
      BY <2>2, <2>3, <2>5, TotalOfClasses
    <2>8. Kpis(bookings, slots).revenue = Total(Costs, Completed(bookings))
      BY RevenueIs DEF Kpis
    <2>9. SumFunctionOnSet(g, K) = Total(g, K)
      BY DEF Total
    <2> HIDE DEF g
    <2>10. SumFunctionOnSet([n \in K |-> bars[n].revenue], K) = Kpis(bookings, slots).revenue
      BY <2>4, <2>6, <2>7, <2>8, <2>9
    <2> QED BY <2>10 DEF K
  <1> QED BY <1>2, <1>4, <1>5, <1>6 DEF bars, today

\* Every slot is free or it is not; those that are not are occupied or reserved.
LEMMA Counted ==
    ASSUME HistoryInv
    PROVE  /\ Counts(slots)["available"] \in Nat /\ NotAvailable(slots) \in Nat
           /\ Cardinality(Lot) \in Nat
           /\ NotAvailable(slots) + Counts(slots)["available"] = Cardinality(Lot)
           /\ NotAvailable(slots) = Counts(slots)["occupied"] + Counts(slots)["reserved"]
  <1> DEFINE Free == {s \in Lot : slots[s] = "available"}
             NotFree == {s \in Lot : slots[s] # "available"}
             Occupied == {s \in Lot : slots[s] = "occupied"}
             Reserved == {s \in Lot : slots[s] = "reserved"}
  <1>1. /\ Counts(slots)["available"] = Cardinality(Free)
        /\ Counts(slots)["occupied"] = Cardinality(Occupied)
        /\ Counts(slots)["reserved"] = Cardinality(Reserved)
        /\ NotAvailable(slots) = Cardinality(NotFree)
    BY Finite DEF Counts, NotAvailable
  <1>2. /\ IsFiniteSet(Free) /\ IsFiniteSet(NotFree) /\ IsFiniteSet(Lot)
        /\ IsFiniteSet(Occupied) /\ IsFiniteSet(Reserved)
    BY Finite, FS_Subset
  <1>3. NotFree \cup Free = Lot /\ NotFree \cap Free = {}
    OBVIOUS
  <1>4. Occupied \cup Reserved = NotFree /\ Occupied \cap Reserved = {}
    BY DEF HistoryInv, SlotStatuses
  <1> HIDE DEF Free, NotFree, Occupied, Reserved
  <1>5. /\ Cardinality(Free) \in Nat /\ Cardinality(NotFree) \in Nat /\ Cardinality(Lot) \in Nat
        /\ Cardinality(Occupied) \in Nat /\ Cardinality(Reserved) \in Nat
        /\ Cardinality({}) = 0
    BY <1>2, FS_CardinalityType, FS_EmptySet
  <1>6. Cardinality(Lot) = Cardinality(NotFree) + Cardinality(Free) - Cardinality({})
    BY <1>2, <1>3, FS_Union
  <1>7. Cardinality(NotFree) = Cardinality(Occupied) + Cardinality(Reserved) - Cardinality({})
    BY <1>2, <1>4, FS_Union
  <1> QED BY <1>1, <1>5, <1>6, <1>7

\* Two roundings of one ratio, to 1/10000 and to 1/1000.
LEMMA TwoRoundings ==
    ASSUME NEW part \in Nat, NEW whole \in Nat \ {0}
    PROVE  RoundDiv(part * 10000, whole) - 10 * RoundDiv(part * 1000, whole) \in -6 .. 6
  <1> DEFINE x == RoundDiv(part * 10000, whole)
             y == RoundDiv(part * 1000, whole)
             z == x - 10 * y
  <1>1. part * 10000 \in Int /\ part * 1000 \in Int
    OBVIOUS
  <1>2. /\ x \in Int /\ -whole <= 2 * (part * 10000 - whole * x)
        /\ 2 * (part * 10000 - whole * x) <= whole
    BY <1>1, RoundDivNear
  <1>3. /\ y \in Int /\ -whole <= 2 * (part * 1000 - whole * y)
        /\ 2 * (part * 1000 - whole * y) <= whole
    BY <1>1, RoundDivNear
  <1> HIDE DEF x, y
  <1>4. z \in Int /\ whole * z = whole * x - 10 * (whole * y)
    BY <1>2, <1>3
  <1>5. whole * x \in Int /\ whole * y \in Int /\ whole * z \in Int
    BY <1>2, <1>3, <1>4
  <1> HIDE DEF z
  <1>6. 2 * (whole * z) <= 11 * whole /\ -(11 * whole) <= 2 * (whole * z)
    BY <1>2, <1>3, <1>4, <1>5
  <1>7. ASSUME z >= 7 PROVE FALSE
    <2>1. whole * 7 <= whole * z
      BY <1>4, <1>7, TimesMonotone
    <2> QED BY <1>5, <1>6, <2>1
  <1>8. ASSUME z <= -7 PROVE FALSE
    <2>1. whole * z <= whole * (-7)
      BY <1>4, <1>8, TimesMonotone
    <2> QED BY <1>5, <1>6, <2>1
  <1>9. z \in -6 .. 6
    BY <1>4, <1>7, <1>8
  <1> QED BY <1>9 DEF x, y, z

\* Every booking starts in one hour of the day.
LEMMA HoursAddUp ==
    ASSUME HistoryInv
    PROVE  LET hours == PeakHours(bookings)
           IN  SumFunctionOnSet(hours, DOMAIN hours) = Len(bookings)
  <1> DEFINE D == DOMAIN bookings
             K == 0 .. HoursPerDay - 1
             C == [h \in K |-> {i \in D : bookings[i].start % HoursPerDay = h}]
             g == [h \in K |-> Cardinality(C[h])]
  <1>1. HoursPerDay \in Nat \ {0} /\ IsFiniteSet(D) /\ Cardinality(D) = Len(bookings)
    BY Finite, ReportsAssumption
  <1>2. IsFiniteSet(K)
    <2>1. 0 \in Int /\ HoursPerDay - 1 \in Int
      BY <1>1
    <2> QED BY <2>1, FS_Interval
  <1>3. C \in [K -> SUBSET D] /\ \A j, k \in K : j # k => C[j] \cap C[k] = {}
    OBVIOUS
  <1>4. UNION {C[h] : h \in K} = D
    <2>1. ASSUME NEW i \in D
          PROVE  \E h \in K : i \in C[h]
      <3>1. bookings[i].start \in Int
        BY Rows
      <3>2. bookings[i].start % HoursPerDay \in K
        BY <1>1, <3>1, DivMod
      <3> QED BY <3>2
    <2> QED BY <1>3, <2>1
  <1>5. PeakHours(bookings) = g
    BY DEF PeakHours
  <1>6. DOMAIN g = K
    OBVIOUS
  <1> HIDE DEF K, D, C
  <1>7. Total(g, K) = Cardinality(UNION {C[h] : h \in K})
    BY <1>1, <1>2, <1>3, TotalOfSizes
  <1> HIDE DEF g
  <1> QED BY <1>1, <1>4, <1>5, <1>6, <1>7 DEF Total

LEMMA GaugeStaysTrue ==
    ASSUME HistoryInv, Lot # {}
    PROVE  GaugeAgrees
  <1> DEFINE gauge == OccupancyGauge(slots)
             counts == Counts(slots)
             lot == Cardinality(Lot)
             taken == NotAvailable(slots)
             open == counts["available"]
             kpis == Kpis(bookings, slots)
  <1>1. lot \in Nat \ {0}
    BY Counted, ComputationsAssumption, FS_EmptySet
  <1>2. taken \in Nat /\ open \in Nat /\ taken + open = lot
        /\ taken = counts["occupied"] + counts["reserved"]
    BY Counted
  <1>3. /\ gauge.occupied = taken /\ gauge.free = lot - taken
        /\ gauge.ratio = RoundDiv(taken * 1000, lot)
        /\ kpis.slots = lot /\ kpis.bookings = Len(bookings)
    BY Finite DEF OccupancyGauge, CountOrOne, Kpis
  <1>4. OccupancyRatio(lot, open) = RoundDiv((lot - open) * 10000, lot)
    BY <1>1 DEF OccupancyRatio
  <1> DEFINE hours == PeakHours(bookings)
  <1>5. SumFunctionOnSet(hours, DOMAIN hours) = Len(bookings)
    BY HoursAddUp
  <1> HIDE DEF gauge, counts, lot, taken, open, kpis, hours
  <1>6. lot - open = taken /\ lot - taken = open
    BY <1>1, <1>2
  <1>7. OccupancyRatio(lot, open) - 10 * gauge.ratio \in -6 .. 6
    <2>1. OccupancyRatio(lot, open) = RoundDiv(taken * 10000, lot)
      BY <1>4, <1>6
    <2>2. RoundDiv(taken * 10000, lot) - 10 * RoundDiv(taken * 1000, lot) \in -6 .. 6
      BY <1>1, <1>2, TwoRoundings
    <2> QED BY <1>3, <2>1, <2>2
  <1>8. gauge.free = open /\ gauge.occupied + gauge.free = kpis.slots
    BY <1>2, <1>3, <1>6
  <1> QED BY <1>2, <1>3, <1>5, <1>7, <1>8
          DEF GaugeAgrees, gauge, counts, lot, taken, open, kpis, hours

\* Whatever the history of a lot that has slots, at every hour and though midnight may
\* come between two labels: every bar of the trend is the whole revenue of its day, the
\* bars add up to the revenue of a lot younger than the window, the gauge and the counts
\* tell of the same slots, whether those are booked or not, and the hours of all bookings
\* (revenue_trend, kpis, occupancy_gauge, counts, peak_hours).
THEOREM DashboardsStayTrue == ASSUME Lot # {} PROVE Spec => []DashboardsAgree
  <1>1. HistoryInv => DashboardsAgree
    BY TrendStaysWhole, GaugeStaysTrue DEF DashboardsAgree
  <1> QED BY <1>1, HistoryReached, PTL

-----------------------------------------------------------------------------
(* The forecast. *)

\* A set of numbers has a least one.
LEMMA LeastNumber ==
    ASSUME NEW Bad \in SUBSET Nat, Bad # {}
    PROVE  \E n \in Bad : \A m \in Bad : n <= m
  <1> DEFINE R == OpToRel(<, Nat)
  <1>1. IsWellFoundedOn(R, Nat)
    BY NatLessThanWellFounded
  <1>2. \A m, n \in Nat : <<m, n>> \in R <=> m < n
    BY DEF OpToRel
  <1> HIDE DEF R
  <1>3. PICK least \in Bad : \A m \in Bad : ~(<<m, least>> \in R)
    BY <1>1, WFMin
  <1>4. least \in Nat /\ \A m \in Bad : m \in Nat /\ ~(m < least)
    BY <1>2, <1>3
  <1>5. \A m \in Bad : least <= m
    BY <1>4
  <1> QED BY <1>5

\* Induction, for a property given as the numbers that have it.
LEMMA NumberInduction ==
    ASSUME NEW P, 0 \in P, \A n \in Nat : n \in P => n + 1 \in P
    PROVE  \A n \in Nat : n \in P
  <1> DEFINE Bad == {n \in Nat : n \notin P}
  <1>1. SUFFICES ASSUME Bad # {} PROVE FALSE
    OBVIOUS
  <1>2. PICK least \in Bad : \A m \in Bad : least <= m
    <2>1. Bad \in SUBSET Nat
      OBVIOUS
    <2> HIDE DEF Bad
    <2> QED BY <1>1, <2>1, LeastNumber
  <1>3. least - 1 \in Nat /\ (least - 1) + 1 = least /\ ~(least <= least - 1)
    BY <1>2
  <1>4. least - 1 \in P
    BY <1>2, <1>3
  <1> QED BY <1>2, <1>3, <1>4

\* h halves as Halved does, up to n.
Halving(h, n) == h = [i \in 0 .. n |-> IF i = 0 THEN 1000 ELSE h[i - 1] \div 2]

LEMMA HalvingAt ==
    ASSUME NEW n \in Nat, NEW h, Halving(h, n), NEW i \in 0 .. n
    PROVE  h[i] = IF i = 0 THEN 1000 ELSE h[i - 1] \div 2
  BY DEF Halving

LEMMA HalvingOnce ==
    ASSUME NEW n \in Nat, NEW h, Halving(h, n), NEW m \in Nat, NEW g, Halving(g, m)
    PROVE  \A i \in Nat : i <= n /\ i <= m => h[i] = g[i]
  <1> DEFINE P == {i \in Nat : i <= n /\ i <= m => h[i] = g[i]}
  <1>1. 0 \in P
    BY DEF Halving
  <1>2. ASSUME NEW i \in Nat, i \in P
        PROVE  i + 1 \in P
    <2> SUFFICES ASSUME i + 1 <= n, i + 1 <= m
                 PROVE  h[i + 1] = g[i + 1]
      OBVIOUS
    <2>1. i + 1 \in 0 .. n /\ i + 1 \in 0 .. m /\ i + 1 # 0 /\ (i + 1) - 1 = i
      OBVIOUS
    <2>2. h[i + 1] = h[i] \div 2 /\ g[i + 1] = g[i] \div 2
      BY <2>1 DEF Halving
    <2>3. h[i] = g[i]
      BY <1>2
    <2> QED BY <2>2, <2>3
  <1> HIDE DEF P
  <1>3. \A i \in Nat : i \in P
    BY <1>1, <1>2, NumberInduction
  <1> QED BY <1>3 DEF P

LEMMA SomeHalving ==
    \A n \in Nat : \E h : Halving(h, n)
  <1> DEFINE P == {n \in Nat : \E h : Halving(h, n)}
  <1>1. 0 \in P
    <2>1. Halving([i \in 0 .. 0 |-> 1000], 0)
      BY DEF Halving
    <2> QED BY <2>1
  <1>2. ASSUME NEW n \in Nat, n \in P
        PROVE  n + 1 \in P
    <2>1. PICK h : Halving(h, n)
      BY <1>2
    <2> DEFINE g == [i \in 0 .. n + 1 |-> IF i = n + 1 THEN h[n] \div 2 ELSE h[i]]
    <2>2. ASSUME NEW i \in 0 .. n + 1
          PROVE  g[i] = IF i = 0 THEN 1000 ELSE g[i - 1] \div 2
      <3>1. CASE i = n + 1
        BY <3>1
      <3>2. CASE i = 0
        BY <2>1, <3>2 DEF Halving
      <3>3. CASE i # n + 1 /\ i # 0
        <4>1. i \in 0 .. n /\ i - 1 \in 0 .. n + 1 /\ i - 1 # n + 1
          BY <3>3
        <4>2. h[i] = h[i - 1] \div 2
          BY <2>1, <3>3, <4>1 DEF Halving
        <4> QED BY <3>3, <4>1, <4>2
      <3> QED BY <3>1, <3>2, <3>3
    <2>3. Halving(g, n + 1)
      BY <2>2 DEF Halving
    <2> QED BY <2>3
  <1> HIDE DEF P
  <1>3. \A n \in Nat : n \in P
    BY <1>1, <1>2, NumberInduction
  <1> QED BY <1>3 DEF P

LEMMA HalvedIs ==
    Halved = [n \in Nat |-> IF n = 0 THEN 1000 ELSE Halved[n - 1] \div 2]
  <1> DEFINE The(n) == CHOOSE h : Halving(h, n)
             H == [n \in Nat |-> The(n)[n]]
  <1>1. \A n \in Nat : Halving(The(n), n)
    BY SomeHalving
  <1>2. ASSUME NEW n \in Nat
        PROVE  H[n] = IF n = 0 THEN 1000 ELSE H[n - 1] \div 2
    <2>1. n \in 0 .. n
      OBVIOUS
    <2>2. The(n)[n] = IF n = 0 THEN 1000 ELSE The(n)[n - 1] \div 2
      <3> HIDE DEF The
      <3> QED BY <1>1, <2>1, HalvingAt
    <2>3. CASE n = 0
      BY <2>2, <2>3
    <2>4. CASE n # 0
      <3>1. n - 1 \in Nat /\ n - 1 <= n
        BY <2>4
      <3>2. The(n)[n - 1] = The(n - 1)[n - 1]
        <4> HIDE DEF The
        <4> QED BY <1>1, <3>1, HalvingOnce
      <3> QED BY <2>2, <2>4, <3>1, <3>2
    <2> QED BY <2>3, <2>4
  <1> HIDE DEF H
  <1>3. \E h : h = [n \in Nat |-> IF n = 0 THEN 1000 ELSE h[n - 1] \div 2]
    <2>1. H = [n \in Nat |-> H[n]]
      BY DEF H
    <2>2. H = [n \in Nat |-> IF n = 0 THEN 1000 ELSE H[n - 1] \div 2]
      <3> DEFINE K == [n \in Nat |-> IF n = 0 THEN 1000 ELSE H[n - 1] \div 2]
      <3>1. \A n \in Nat : H[n] = K[n]
        BY <1>2
      <3>2. K = [n \in Nat |-> K[n]]
        OBVIOUS
      <3> HIDE DEF K
      <3>3. H = K
        BY <2>1, <3>1, <3>2
      <3> QED BY <3>3 DEF K
    <2> QED BY <2>2
  <1> QED BY <1>3 DEF Halved

\* Weights are natural, and none grows with age.
LEMMA HalvedFalls ==
    \A n \in Nat : Halved[n] \in Nat /\ Halved[n + 1] <= Halved[n]
  <1> DEFINE P == {n \in Nat : Halved[n] \in Nat}
  <1>1. Halved[0] = 1000 /\ \A n \in Nat : Halved[n + 1] = Halved[n] \div 2
    <2>1. ASSUME NEW n \in Nat PROVE Halved[n + 1] = Halved[n] \div 2
      <3>1. n + 1 \in Nat /\ n + 1 # 0 /\ (n + 1) - 1 = n
        OBVIOUS
      <3> QED BY <3>1, HalvedIs
    <2> QED BY <2>1, HalvedIs
  <1>2. \A k \in Nat : k \div 2 \in Nat /\ k \div 2 <= k
    OBVIOUS
  <1>3. 0 \in P
    BY <1>1
  <1>4. ASSUME NEW n \in Nat, n \in P PROVE n + 1 \in P
    BY <1>1, <1>2, <1>4
  <1> HIDE DEF P
  <1>5. \A n \in Nat : n \in P
    BY <1>3, <1>4, NumberInduction
  <1> QED BY <1>1, <1>2, <1>5 DEF P

LEMMA HalvedAntitone ==
    ASSUME NEW n \in Nat, NEW m \in Nat, n <= m
    PROVE  Halved[m] <= Halved[n]
  <1> DEFINE P == {k \in Nat : Halved[n + k] <= Halved[n]}
  <1>1. \A k \in Nat : Halved[k] \in Nat /\ Halved[k + 1] <= Halved[k]
    BY HalvedFalls
  <1>2. 0 \in P
    BY <1>1
  <1>3. ASSUME NEW k \in Nat, k \in P PROVE k + 1 \in P
    <2>1. n + k \in Nat /\ (n + k) + 1 = n + (k + 1)
      OBVIOUS
    <2>2. Halved[n + k] \in Nat /\ Halved[(n + k) + 1] <= Halved[n + k] /\ Halved[(n + k) + 1] \in Nat
      BY <1>1, <2>1
    <2>3. Halved[n + k] <= Halved[n] /\ Halved[n] \in Nat
      BY <1>1, <1>3
    <2>4. Halved[n + (k + 1)] <= Halved[n]
      BY <2>1, <2>2, <2>3
    <2> QED BY <2>4
  <1> HIDE DEF P
  <1>4. \A k \in Nat : k \in P
    BY <1>2, <1>3, NumberInduction
  <1>5. m - n \in Nat /\ n + (m - n) = m
    OBVIOUS
  <1>6. Halved[n + (m - n)] <= Halved[n]
    BY <1>4, <1>5 DEF P
  <1> QED BY <1>5, <1>6

LEMMA WeightFalls ==
    ASSUME NEW age \in Nat, NEW later \in Nat, age <= later
    PROVE  Weight(age) \in Nat /\ Weight(later) \in Nat /\ Weight(later) <= Weight(age)
  <1>1. HalfLife \in Nat \ {0}
    BY ReportsAssumption
  <1>2. age \div HalfLife \in Nat /\ later \div HalfLife \in Nat
        /\ age \div HalfLife <= later \div HalfLife
    BY <1>1, Quotient, QuotientMonotone
  <1> QED BY <1>2, HalvedFalls, HalvedAntitone DEF Weight

\* A table of bookings, none of which starts after the hour t.
Past(b, t) ==
    /\ b \in Seq(Record) /\ IsFiniteSet(DOMAIN b) /\ t \in Nat
    /\ \A i \in DOMAIN b : b[i].start \in Nat /\ b[i].start <= t

Weights(b, t) == [i \in DOMAIN b |-> Weight(t - b[i].start)]
Bucket(b, h) == {i \in DOMAIN b : HourOfWeek(b[i].start) = h}
Expected(b, t, h) == Total(Weights(b, t), Bucket(b, h))
Lots == [Lot -> SlotStatuses]

LEMMA PredictIs ==
    ASSUME NEW b, NEW s, NEW t, NEW hour
    PROVE  PredictOccupancy(b, s, t, hour)
             = Capped(RoundDiv(Expected(b, t, HourOfWeek(hour)), CountOrOne(s)))
  <1> DEFINE h == HourOfWeek(hour)
             profile == DemandProfile(b, t)
             expected == IF h \in DOMAIN profile THEN profile[h] ELSE 0
  <1>1. PredictOccupancy(b, s, t, hour) = Capped(RoundDiv(expected, CountOrOne(s)))
    BY DEF PredictOccupancy
  <1>2. profile = [k \in {HourOfWeek(b[i].start) : i \in DOMAIN b} |->
                      Total(Weights(b, t), Bucket(b, k))]
    BY DEF DemandProfile, Total, Weights, Bucket
  <1>3. expected = Expected(b, t, h)
    <2>1. CASE h \in {HourOfWeek(b[i].start) : i \in DOMAIN b}
      <3> HIDE DEF profile, h
      <3> QED BY <1>2, <2>1 DEF Expected
    <2>2. CASE h \notin {HourOfWeek(b[i].start) : i \in DOMAIN b}
      <3>1. Bucket(b, h) = {}
        BY <2>2 DEF Bucket
      <3> HIDE DEF profile, h
      <3>2. Expected(b, t, h) = 0
        BY <3>1, TotalOfNone DEF Expected
      <3> QED BY <1>2, <2>2, <3>2
    <2> QED BY <2>1, <2>2
  <1> QED BY <1>1, <1>3

LEMMA ExpectedNat ==
    ASSUME NEW b, NEW t, Past(b, t), NEW h
    PROVE  /\ Weights(b, t) \in [DOMAIN b -> Int]
           /\ Bucket(b, h) \in SUBSET DOMAIN b /\ IsFiniteSet(Bucket(b, h))
           /\ Expected(b, t, h) \in Nat
  <1>1. ASSUME NEW i \in DOMAIN b
        PROVE  Weight(t - b[i].start) \in Nat
    <2>1. t - b[i].start \in Nat
      BY DEF Past
    <2> QED BY <2>1, WeightFalls
  <1>2. Weights(b, t) \in [DOMAIN b -> Int] /\ \A i \in DOMAIN b : Weights(b, t)[i] >= 0
    BY <1>1 DEF Weights
  <1>3. Bucket(b, h) \in SUBSET DOMAIN b /\ IsFiniteSet(Bucket(b, h))
    BY FS_Subset DEF Bucket, Past
  <1>4. Expected(b, t, h) \in Int /\ Expected(b, t, h) >= 0
    <2> DEFINE f == Weights(b, t)
               S == Bucket(b, h)
    <2>1. f \in [DOMAIN b -> Int] /\ S \in SUBSET DOMAIN b /\ IsFiniteSet(S)
          /\ \A i \in S : f[i] >= 0
      BY <1>2, <1>3
    <2> HIDE DEF f, S
    <2>2. Total(f, S) \in Int /\ Total(f, S) >= 0
      BY <2>1, TotalInt
    <2> QED BY <2>2 DEF Expected, f, S
  <1> QED BY <1>2, <1>3, <1>4

LEMMA LotCount ==
    ASSUME NEW s \in Lots
    PROVE  CountOrOne(s) \in Nat \ {0} /\ \A r \in Lots : CountOrOne(r) = CountOrOne(s)
  <1>1. Cardinality(Lot) \in Nat /\ (Cardinality(Lot) = 0 <=> Lot = {})
    BY ComputationsAssumption, FS_CardinalityType, FS_EmptySet
  <1> QED BY <1>1 DEF CountOrOne, Lots

LEMMA PredictionIsRatio ==
    ASSUME NEW b, NEW t, Past(b, t), NEW s \in Lots, NEW hour
    PROVE  PredictOccupancy(b, s, t, hour) \in 0 .. 1000
  <1> DEFINE e == Expected(b, t, HourOfWeek(hour))
             n == CountOrOne(s)
  <1>1. e \in Nat /\ n \in Nat \ {0}
    BY ExpectedNat, LotCount
  <1>2. PredictOccupancy(b, s, t, hour) = Capped(RoundDiv(e, n))
    BY PredictIs
  <1> HIDE DEF e, n
  <1>3. RoundDiv(e, n) \in Int /\ RoundDiv(e, n) >= 0
    BY <1>1, RoundDivInt, RoundDivNonNegative
  <1> QED BY <1>2, <1>3 DEF Capped

\* If the bookings of an hour of the week stay the same ones, its prediction does not rise.
LEMMA PredictionFalls ==
    ASSUME NEW b, NEW t, Past(b, t), NEW s \in Lots,
           NEW c, NEW u, Past(c, u), NEW r \in Lots, t <= u,
           NEW hour, Bucket(b, HourOfWeek(hour)) = Bucket(c, HourOfWeek(hour)),
           \A i \in Bucket(b, HourOfWeek(hour)) : b[i].start = c[i].start
    PROVE  ~(PredictOccupancy(c, r, u, hour) > PredictOccupancy(b, s, t, hour))
  <1> DEFINE h == HourOfWeek(hour)
             f == Weights(b, t)
             g == Weights(c, u)
             S == Bucket(b, h)
             n == CountOrOne(s)
  <1>1. /\ f \in [DOMAIN b -> Int] /\ g \in [DOMAIN c -> Int]
        /\ S \in SUBSET (DOMAIN b \cap DOMAIN c) /\ IsFiniteSet(S)
    BY ExpectedNat
  <1>2. ASSUME NEW i \in S
        PROVE  g[i] <= f[i]
    <2>1. i \in DOMAIN b /\ i \in DOMAIN c /\ b[i].start = c[i].start
      BY <1>1
    <2>2. t - b[i].start \in Nat /\ u - b[i].start \in Nat /\ t - b[i].start <= u - b[i].start
      BY <2>1 DEF Past
    <2>3. f[i] = Weight(t - b[i].start) /\ g[i] = Weight(u - b[i].start)
      BY <2>1 DEF Weights
    <2> QED BY <2>2, <2>3, WeightFalls
  <1>3. Expected(b, t, h) = Total(f, S) /\ Expected(c, u, h) = Total(g, S)
    BY DEF Expected
  <1>4. Expected(b, t, h) \in Nat /\ Expected(c, u, h) \in Nat
    BY ExpectedNat
  <1>5. n \in Nat \ {0} /\ CountOrOne(r) = n
    BY LotCount
  <1>6. /\ PredictOccupancy(b, s, t, hour) = Capped(RoundDiv(Expected(b, t, h), n))
        /\ PredictOccupancy(c, r, u, hour) = Capped(RoundDiv(Expected(c, u, h), n))
    BY <1>5, PredictIs
  <1> HIDE DEF f, g, S, n, h
  <1>7. Total(g, S) <= Total(f, S)
    BY <1>1, <1>2, TotalMonotone
  <1>8. RoundDiv(Total(g, S), n) <= RoundDiv(Total(f, S), n)
    BY <1>3, <1>4, <1>5, <1>7, RoundDivMonotone
  <1>9. RoundDiv(Total(g, S), n) \in Int /\ RoundDiv(Total(f, S), n) \in Int
    BY <1>3, <1>4, <1>5, RoundDivInt
  <1> QED BY <1>3, <1>6, <1>8, <1>9 DEF Capped

\* The hour of the week of an hour of the week.
LEMMA SmallRemainder ==
    ASSUME NEW n \in Nat \ {0}, NEW x \in 0 .. n - 1
    PROVE  x % n = x
  <1> DEFINE q == x \div n
             r == x % n
  <1>1. q \in Int /\ r \in 0 .. n - 1 /\ x = n * q + r
    BY DivMod
  <1> HIDE DEF q, r
  <1>2. ASSUME q >= 1 PROVE FALSE
    <2>1. n * 1 <= n * q
      BY <1>1, <1>2, TimesMonotone
    <2> QED BY <1>1, <2>1
  <1>3. ASSUME q <= -1 PROVE FALSE
    <2>1. n * q <= n * (-1)
      BY <1>1, <1>3, TimesMonotone
    <2> QED BY <1>1, <2>1
  <1>4. q = 0
    BY <1>1, <1>2, <1>3
  <1>5. n * q = 0
    BY <1>4
  <1> QED BY <1>1, <1>5 DEF r

LEMMA HoursOfWeek ==
    /\ \A hour \in 0 .. Week - 1 : HourOfWeek(hour) = hour
    /\ \A hour \in Nat : HourOfWeek(HourOfWeek(hour)) = HourOfWeek(hour)
  <1>1. Week \in Nat \ {0}
    BY ReportsAssumption DEF Week
  <1>2. \A hour : HourOfWeek(hour) = hour % Week
    BY DEF HourOfWeek, Week
  <1> HIDE DEF Week
  <1>3. \A hour \in Nat : hour % Week \in 0 .. Week - 1
    BY <1>1, DivMod
  <1> QED BY <1>1, <1>2, <1>3, SmallRemainder

LEMMA InPast ==
    ASSUME HistoryInv
    PROVE  Past(bookings, now) /\ slots \in Lots
  <1>1. \A i \in DOMAIN bookings :
           /\ bookings[i].start \in Nat /\ bookings[i].end \in Nat
           /\ bookings[i].start <= bookings[i].end /\ bookings[i].end <= now
    BY Rows DEF HistoryInv
  <1>2. \A i \in DOMAIN bookings : bookings[i].start \in Nat /\ bookings[i].start <= now
    BY <1>1 DEF HistoryInv
  <1> QED BY <1>2, Finite DEF HistoryInv, Past, Lots

\* The bookings that an hour of the week counts, before and after a step that is not a
\* booking made in that hour.
LEMMA SameBucket ==
    ASSUME HistoryInv, HistoryInv', Book \/ Leave \/ Mark \/ Hour, NEW h,
           Book => HourOfWeek(now) # h
    PROVE  /\ Bucket(bookings, h) = Bucket(bookings', h)
           /\ \A i \in Bucket(bookings, h) : bookings[i].start = bookings'[i].start
           /\ now <= now'
  <1>1. CASE Book
    <2>1. PICK s \in Lot :
            /\ bookings' = Append(bookings, [slot |-> s, start |-> now, end |-> now,
                                             status |-> "active", cost |-> 0])
            /\ now' = now
      BY <1>1 DEF Book
    <2> DEFINE n == Len(bookings)
    <2>2. n \in Nat /\ DOMAIN bookings = 1 .. n
      BY Rows
    <2>3. /\ DOMAIN bookings' = 1 .. n + 1 /\ bookings'[n + 1].start = now
          /\ \A i \in 1 .. n : bookings'[i] = bookings[i]
      BY <2>1 DEF HistoryInv
    <2>4. HourOfWeek(now) # h
      BY <1>1
    <2> HIDE DEF n
    <2>5. n + 1 \notin Bucket(bookings', h)
      BY <2>3, <2>4 DEF Bucket
    <2>6. Bucket(bookings, h) = Bucket(bookings', h)
      BY <2>2, <2>3, <2>5 DEF Bucket
    <2>7. \A i \in Bucket(bookings, h) : bookings[i].start = bookings'[i].start
      BY <2>2, <2>3 DEF Bucket
    <2>8. now <= now'
      BY <2>1 DEF HistoryInv
    <2> QED BY <2>6, <2>7, <2>8
  <1>2. CASE Leave
    <2>1. DOMAIN bookings' = DOMAIN bookings /\ now' = now
          /\ \A i \in DOMAIN bookings : bookings'[i].start = bookings[i].start
      <3>1. \A i \in DOMAIN bookings : bookings[i] \in Record
        BY Rows
      <3>2. PICK i \in DOMAIN bookings :
              /\ \/ bookings' = [bookings EXCEPT ![i].status = "completed", ![i].end = now,
                                                 ![i].cost = now - bookings[i].start + 1]
                 \/ bookings' = [bookings EXCEPT ![i].status = "cancelled"]
              /\ now' = now
        BY <1>2 DEF Leave
      <3>3. bookings = [j \in DOMAIN bookings |-> bookings[j]]
        BY DEF HistoryInv
      <3>4. \E row : bookings' = [bookings EXCEPT ![i] = row] /\ row.start = bookings[i].start
        BY <3>1, <3>2 DEF Record
      <3> QED BY <3>2, <3>3, <3>4
    <2> QED BY <2>1 DEF Bucket, HistoryInv
  <1>3. CASE Mark \/ Hour
    <2>1. bookings' = bookings /\ now <= now'
      BY <1>3 DEF Mark, Hour, HistoryInv
    <2> QED BY <2>1
  <1> QED BY <1>1, <1>2, <1>3

\* For any history of a lot whose slots stay, a prediction is a ratio, only a new booking
\* of its own hour of the week raises it, and the points of the next day are those of its
\* hours (build_demand_profile, predict_occupancy, next_24h_forecast).
THEOREM ForecastFollows == Spec => ForecastFollowsHistory
  <1> DEFINE Step0(hour) ==
               LET before == Predicted(hour)
                   after == Predicted(hour)'
               IN  /\ after \in 0 .. 1000
                   /\ after > before => Len(bookings') > Len(bookings) /\ HourOfWeek(now) = hour
             Point(i) ==
               NextDayForecast(bookings, slots, now)[i]' = Predicted(HourOfWeek(now + i))'
  <1> HIDE DEF Step0, Point
  <1>0. HistoryInv' => (Past(bookings, now) /\ slots \in Lots)'
    <2>1. HistoryInv => Past(bookings, now) /\ slots \in Lots
      BY InPast
    <2> QED BY <2>1, PTL
  <1>1. ASSUME HistoryInv, HistoryInv', [Next]_inputs, history' # history,
               NEW hour \in 0 .. Week - 1
        PROVE  Step0(hour)
    <2>1. Book \/ Leave \/ Mark \/ Hour
      BY <1>1 DEF Next, TariffInput, HistoryInput, ListInput, InstanceInput, inputs
    <2>2. Past(bookings, now) /\ slots \in Lots /\ Past(bookings', now') /\ slots' \in Lots
      BY <1>1, <1>0, InPast
    <2>3. HourOfWeek(hour) = hour
      BY <1>1, HoursOfWeek
    <2>4. PredictOccupancy(bookings', slots', now', hour) \in 0 .. 1000
      BY <2>2, PredictionIsRatio
    <2>5. CASE Book /\ HourOfWeek(now) = hour
      <3>1. Len(bookings') > Len(bookings)
        BY <1>1, <2>5 DEF Book, HistoryInv
      <3> QED BY <2>4, <2>5, <3>1 DEF Predicted, Step0
    <2>6. CASE ~(Book /\ HourOfWeek(now) = hour)
      <3>1. /\ Bucket(bookings, hour) = Bucket(bookings', hour)
            /\ \A i \in Bucket(bookings, hour) : bookings[i].start = bookings'[i].start
            /\ now <= now'
        BY <1>1, <2>1, <2>6, SameBucket
      <3>2. ~(PredictOccupancy(bookings', slots', now', hour)
                > PredictOccupancy(bookings, slots, now, hour))
        BY <2>2, <2>3, <3>1, PredictionFalls
      <3> QED BY <2>4, <3>2 DEF Predicted, Step0
    <2> QED BY <2>5, <2>6
  <1>2. ASSUME HistoryInv', NEW i \in 0 .. HoursPerDay - 1
        PROVE  Point(i)
    <2>1. now' + i \in Nat
      <3>1. now' \in Nat
        BY <1>2 DEF HistoryInv
      <3>2. i \in Nat
        BY ReportsAssumption
      <3>3. \A m, k \in Nat : m + k \in Nat
        OBVIOUS
      <3> QED BY <3>1, <3>2, <3>3
    <2>2. HourOfWeek(HourOfWeek(now' + i)) = HourOfWeek(now' + i)
      BY <2>1, HoursOfWeek
    <2>3. NextDayForecast(bookings', slots', now')[i]
             = PredictOccupancy(bookings', slots', now', now' + i)
      BY DEF NextDayForecast
    <2>4. PredictOccupancy(bookings', slots', now', now' + i)
             = PredictOccupancy(bookings', slots', now', HourOfWeek(now' + i))
      BY <2>2, PredictIs
    <2> QED BY <2>3, <2>4 DEF Predicted, Point
  <1>3. HistoryInv /\ HistoryInv' /\ [Next]_inputs =>
          [/\ \A hour \in 0 .. Week - 1 : Step0(hour)
           /\ \A i \in 0 .. HoursPerDay - 1 : Point(i)]_history
    BY <1>1, <1>2
  <1> QED BY <1>3, HistoryReached, PTL DEF Spec, ForecastFollowsHistory, Step0, Point

-----------------------------------------------------------------------------
(* The rankings. *)

\* R is a strict total order of S.
Orders(R, S) ==
    /\ \A s \in S : <<s, s>> \notin R
    /\ \A s, t, u \in S : <<s, t>> \in R /\ <<t, u>> \in R => <<s, u>> \in R
    /\ \A s, t \in S : s = t \/ <<s, t>> \in R \/ <<t, s>> \in R

\* The elements of S before s.
Below(R, S, s) == {t \in S : <<t, s>> \in R}

\* q lists the elements of S in the order R.
Lists(q, R, S) ==
    /\ IsFiniteSet(S) /\ Cardinality(S) \in Nat
    /\ q \in Seq(S) /\ Len(q) = Cardinality(S) /\ DOMAIN q = 1 .. Cardinality(S)
    /\ \A i \in DOMAIN q : q[i] \in S
    /\ \A i, j \in DOMAIN q : i < j => <<q[i], q[j]>> \in R
    /\ \A s \in S : \E i \in DOMAIN q : q[i] = s

\* Taking for the n-th the element with n - 1 before it puts a finite set in order.
LEMMA RankedLists ==
    ASSUME NEW S, IsFiniteSet(S), NEW R, Orders(R, S),
           NEW e, e = Cardinality(S),
           NEW q, q = [n \in 1 .. e |-> q[n]],
           \A n \in 1 .. e :
              (\E s \in S : Cardinality(Below(R, S, s)) = n - 1) =>
                  q[n] \in S /\ Cardinality(Below(R, S, q[n])) = n - 1
    PROVE  Lists(q, R, S)
  <1> DEFINE rank == [s \in S |-> Cardinality(Below(R, S, s)) + 1]
  <1>0. e \in Nat
    BY FS_CardinalityType
  <1>1. ASSUME NEW s \in S
        PROVE  rank[s] \in 1 .. e /\ rank[s] = Cardinality(Below(R, S, s)) + 1
    <2>1. Below(R, S, s) \in SUBSET S /\ Below(R, S, s) # S
      BY DEF Below, Orders
    <2>2. IsFiniteSet(Below(R, S, s)) /\ Cardinality(Below(R, S, s)) <= e
          /\ Cardinality(Below(R, S, s)) # e
      BY <2>1, FS_Subset
    <2>3. Cardinality(Below(R, S, s)) \in Nat
      BY <2>2, FS_CardinalityType
    <2>4. rank[s] = Cardinality(Below(R, S, s)) + 1
      OBVIOUS
    <2> HIDE DEF rank
    <2> QED BY <1>0, <2>2, <2>3, <2>4
  <1>2. ASSUME NEW s \in S, NEW t \in S, <<s, t>> \in R
        PROVE  rank[s] < rank[t]
    <2>1. /\ Below(R, S, s) \subseteq Below(R, S, t)
          /\ s \in Below(R, S, t) /\ s \notin Below(R, S, s) /\ Below(R, S, t) \in SUBSET S
      BY <1>2 DEF Below, Orders
    <2> DEFINE A == Below(R, S, s)
               B == Below(R, S, t)
    <2>2. IsFiniteSet(B)
      BY <2>1, FS_Subset
    <2>3. A \in SUBSET B /\ A # B
      BY <2>1
    <2>4. rank[s] = Cardinality(A) + 1 /\ rank[t] = Cardinality(B) + 1
      BY <1>1
    <2> HIDE DEF A, B, rank
    <2>5. IsFiniteSet(A) /\ Cardinality(A) <= Cardinality(B) /\ Cardinality(A) # Cardinality(B)
      BY <2>2, <2>3, FS_Subset
    <2>6. Cardinality(A) \in Nat /\ Cardinality(B) \in Nat
      BY <2>2, <2>5, FS_CardinalityType
    <2> QED BY <2>4, <2>5, <2>6
  <1>3. rank \in [S -> 1 .. e] /\ DOMAIN rank = S
    BY <1>1
  <1> HIDE DEF rank
  <1>4. \A s, t \in S : rank[s] = rank[t] => s = t
    <2> SUFFICES ASSUME NEW s \in S, NEW t \in S, rank[s] = rank[t], s # t
                 PROVE  FALSE
      OBVIOUS
    <2>1. <<s, t>> \in R \/ <<t, s>> \in R
      BY DEF Orders
    <2>2. rank[s] \in Int /\ rank[t] \in Int
      BY <1>0, <1>1
    <2> QED BY <1>2, <2>1, <2>2
  <1>5. rank \in Injection(S, 1 .. e)
    BY <1>3, <1>4 DEF Injection, IsInjective
  <1>6. IsFiniteSet(1 .. e) /\ Cardinality(1 .. e) = e
    <2>1. 1 \in Int /\ e \in Int
      BY <1>0
    <2> QED BY <1>0, <2>1, FS_Interval
  <1>7. rank \in Surjection(S, 1 .. e)
    <2> DEFINE places == 1 .. e
    <2>1. rank \in Injection(S, places) /\ IsFiniteSet(places) /\ Cardinality(S) = Cardinality(places)
      BY <1>5, <1>6
    <2> HIDE DEF places
    <2>2. rank \in Surjection(S, places)
      BY <2>1, FS_Injection
    <2> QED BY <2>2 DEF places
  <1>8. \A n \in 1 .. e : \E s \in S : rank[s] = n
    BY <1>7 DEF Surjection
  <1>9. ASSUME NEW n \in 1 .. e
        PROVE  q[n] \in S /\ rank[q[n]] = n
    <2>1. PICK s \in S : rank[s] = n
      BY <1>8
    <2>2. Cardinality(Below(R, S, s)) = n - 1
      <3>1. Cardinality(Below(R, S, s)) \in Nat
        BY FS_Subset, FS_CardinalityType DEF Below
      <3> QED BY <1>1, <2>1, <3>1
    <2>3. q[n] \in S /\ Cardinality(Below(R, S, q[n])) = n - 1
      BY <2>2
    <2> QED BY <1>1, <2>3
  <1>10. DOMAIN q = 1 .. e
    OBVIOUS
  <1>11. q \in Seq(S) /\ Len(q) = e
    <2>1. q \in [1 .. e -> S]
      BY <1>9, <1>10
    <2> QED BY <1>0, <2>1, SeqDef
  <1>12. ASSUME NEW i \in 1 .. e, NEW j \in 1 .. e, i < j
         PROVE  <<q[i], q[j]>> \in R
    <2>1. q[i] # q[j] /\ ~(rank[q[j]] < rank[q[i]])
      BY <1>0, <1>9, <1>12
    <2> QED BY <1>2, <1>9, <2>1 DEF Orders
  <1>13. ASSUME NEW s \in S
         PROVE  \E i \in 1 .. e : q[i] = s
    <2>1. rank[s] \in 1 .. e
      BY <1>1
    <2> QED BY <1>4, <1>9, <2>1
  <1> QED BY <1>0, <1>9, <1>10, <1>11, <1>12, <1>13 DEF Lists

\* The beginning of a list.
LEMMA SliceIs ==
    ASSUME NEW S, NEW q \in Seq(S), NEW limit \in Int
    PROVE  /\ Slice(q, limit) \in Seq(S) /\ Len(Slice(q, limit)) \in 0 .. Len(q)
           /\ \A i \in 1 .. Len(Slice(q, limit)) : Slice(q, limit)[i] = q[i]
           /\ limit >= 0 /\ limit <= Len(q) => Len(Slice(q, limit)) = limit
           /\ limit > Len(q) => Len(Slice(q, limit)) = Len(q)
  <1> DEFINE length == IF limit < 0 THEN Len(q) + limit ELSE limit
             n == IF length > Len(q) THEN Len(q) ELSE length
  <1>1. Slice(q, limit) = SubSeq(q, 1, n)
    BY DEF Slice
  <1>2. /\ n \in Int /\ n <= Len(q) /\ Len(q) \in Nat
        /\ limit >= 0 /\ limit <= Len(q) => n = limit
        /\ limit > Len(q) => n = Len(q)
    BY LenProperties
  <1> HIDE DEF n
  <1>3. \A i \in 1 .. n : q[i] \in S
    BY <1>2, ElementOfSeq
  <1>4. /\ SubSeq(q, 1, n) \in Seq(S)
        /\ Len(SubSeq(q, 1, n)) = IF 1 <= n THEN n - 1 + 1 ELSE 0
        /\ \A i \in 1 .. n - 1 + 1 : SubSeq(q, 1, n)[i] = q[1 + i - 1]
    BY <1>2, <1>3, SubSeqProperties
  <1>5. \A i \in 1 .. n : SubSeq(q, 1, n)[i] = q[i]
    BY <1>2, <1>4
  <1>6. Len(SubSeq(q, 1, n)) = IF 1 <= n THEN n ELSE 0
    BY <1>2, <1>4
  <1> QED BY <1>1, <1>2, <1>4, <1>5, <1>6

\* The beginning of an ordered list holds the first elements of the set.
LEMMA FirstOnes ==
    ASSUME NEW S, NEW R, Orders(R, S), NEW q, Lists(q, R, S), NEW limit \in Int,
           NEW p, p = Slice(q, limit)
    PROVE  /\ p \in Seq(S) /\ Len(p) \in 0 .. Len(q) /\ DOMAIN p = 1 .. Len(p)
           /\ \A i \in DOMAIN p : p[i] \in S /\ i \in DOMAIN q /\ p[i] = q[i]
           /\ \A i \in DOMAIN p, x \in S \ Range(p) : <<x, p[i]>> \notin R
           /\ limit >= 0 => \/ Len(p) = limit
                            \/ Len(p) < limit /\ Range(p) = S
           /\ limit >= 0 /\ limit <= Len(q) => Len(p) = limit
  <1>1. /\ p \in Seq(S) /\ Len(p) \in 0 .. Len(q) /\ Len(q) \in Nat /\ DOMAIN q = 1 .. Len(q)
        /\ \A i \in 1 .. Len(p) : p[i] = q[i]
        /\ limit >= 0 /\ limit <= Len(q) => Len(p) = limit
        /\ limit > Len(q) => Len(p) = Len(q)
    BY SliceIs, LenProperties DEF Lists
  <1>2. DOMAIN p = 1 .. Len(p) /\ \A i \in DOMAIN p : i \in DOMAIN q /\ p[i] \in S /\ p[i] = q[i]
    BY <1>1, LenProperties, ElementOfSeq
  <1>3. ASSUME NEW i \in DOMAIN p, NEW x \in S \ Range(p)
        PROVE  <<x, p[i]>> \notin R
    <2>1. PICK j \in DOMAIN q : q[j] = x
      BY DEF Lists
    <2>2. ~(j \in DOMAIN p)
      BY <1>2, <2>1 DEF Range
    <2>3. i < j
      <3>1. i \in 1 .. Len(p) /\ j \in 1 .. Len(q) /\ j \notin 1 .. Len(p)
        BY <1>1, <1>2, <2>2
      <3>2. Len(p) \in Nat /\ Len(q) \in Nat
        BY <1>1
      <3> QED BY <3>1, <3>2
    <2>4. <<p[i], x>> \in R
      BY <1>2, <2>1, <2>3 DEF Lists
    <2> QED BY <1>2, <2>4 DEF Orders
  <1>4. Len(p) = Len(q) => Range(p) = S
    <2> SUFFICES ASSUME Len(p) = Len(q)
                 PROVE  Range(p) = S
      OBVIOUS
    <2>1. \A x \in S : \E i \in DOMAIN p : p[i] = x
      BY <1>1, <1>2 DEF Lists
    <2> QED BY <1>2, <2>1 DEF Range
  <1>5. limit >= 0 => \/ Len(p) = limit
                      \/ Len(p) < limit /\ Range(p) = S
    BY <1>1, <1>4
  <1> QED BY <1>1, <1>2, <1>3, <1>5

-----------------------------------------------------------------------------
(* The recommended slots. *)

OffersMade ==
    /\ IsFiniteSet(offers)
    /\ \A s \in offers : s.rate \in Int /\ s.number \in Nat /\ s.number < Cardinality(offers)
    /\ \A s, t \in offers : s.number = t.number => s = t

ByRate(S) == {p \in S \X S : Cheaper(p[1], p[2])}

LEMMA ByRateOrders ==
    ASSUME OffersMade, NEW S \in SUBSET offers
    PROVE  IsFiniteSet(S) /\ Orders(ByRate(S), S) /\ Lists(Ranked(S, Cheaper), ByRate(S), S)
  <1> DEFINE e == Cardinality(S)
             R == ByRate(S)
             At(n) == CHOOSE s \in S : Cardinality({t \in S : Cheaper(t, s)}) = n - 1
             q == [n \in 1 .. e |-> At(n)]
  <1>1. IsFiniteSet(S)
    BY FS_Subset DEF OffersMade
  <1>2. \A s, t \in S : <<s, t>> \in R <=> Cheaper(s, t)
    BY DEF ByRate
  <1> HIDE DEF R
  <1>3. Orders(R, S)
    BY <1>2 DEF Orders, Cheaper, OffersMade
  <1>4. \A s \in S : {t \in S : Cheaper(t, s)} = Below(R, S, s)
    BY <1>2 DEF Below
  <1>5. ASSUME NEW n \in 1 .. e, \E s \in S : Cardinality(Below(R, S, s)) = n - 1
        PROVE  q[n] \in S /\ Cardinality(Below(R, S, q[n])) = n - 1
    <2>1. q[n] = CHOOSE s \in S : Cardinality({t \in S : Cheaper(t, s)}) = n - 1
      OBVIOUS
    <2>2. \E s \in S : Cardinality({t \in S : Cheaper(t, s)}) = n - 1
      BY <1>4, <1>5
    <2>3. q[n] \in S /\ Cardinality({t \in S : Cheaper(t, q[n])}) = n - 1
      BY <2>1, <2>2, Zenon
    <2> QED BY <1>4, <2>3
  <1>6. q = [n \in 1 .. e |-> q[n]]
    <2> HIDE DEF At
    <2> QED OBVIOUS
  <1>7. Ranked(S, Cheaper) = q
    BY DEF Ranked
  <1>8. Lists(q, R, S)
    <2> HIDE DEF q
    <2>1. e = Cardinality(S)
      OBVIOUS
    <2> HIDE DEF e
    <2> QED BY <1>1, <1>3, <1>5, <1>6, <2>1, RankedLists
  <1> QED BY <1>1, <1>3, <1>7, <1>8 DEF R

LEMMA Recommends ==
    ASSUME OffersMade
    PROVE  RecommendsCheapest
  <1> SUFFICES ASSUME NEW type \in VehicleTypes \cup {"unknown"}, NEW limit \in 0 .. MaxList
               PROVE  LET list == RecommendSlots(offers, type, limit)
                          fit == {s \in offers : /\ s.status = "available"
                                                 /\ type = "unknown" \/ s.type = type}
                      IN  /\ Range(list) \subseteq fit
                          /\ \A x \in fit \ Range(list), i \in DOMAIN list :
                                ~(x.rate < list[i].rate
                                     \/ (x.rate = list[i].rate /\ x.number < list[i].number))
                          /\ \/ Len(list) = limit
                             \/ Len(list) < limit /\ Range(list) = fit
    BY DEF RecommendsCheapest, NoneBefore
  <1> DEFINE list == RecommendSlots(offers, type, limit)
             fit == {s \in offers : /\ s.status = "available"
                                    /\ type = "unknown" \/ s.type = type}
             R == ByRate(fit)
             q == Ranked(fit, Cheaper)
  <1>1. fit = {s \in offers : /\ s.status = "available"
                              /\ type \in VehicleTypes => s.type = type}
    BY ComputationsAssumption
  <1>2. list = Slice(q, limit)
    BY <1>1 DEF RecommendSlots
  <1>3. fit \in SUBSET offers
    OBVIOUS
  <1>4. \A s, t \in fit : <<s, t>> \in R <=> Cheaper(s, t)
    BY DEF ByRate
  <1> HIDE DEF fit
  <1>5. Orders(R, fit) /\ Lists(q, R, fit)
    BY <1>3, ByRateOrders
  <1>6. limit \in Int /\ limit >= 0
    BY ComputationsAssumption
  <1> HIDE DEF list, q, R
  <1>7. /\ DOMAIN list = 1 .. Len(list) /\ \A i \in DOMAIN list : list[i] \in fit
        /\ \A i \in DOMAIN list, x \in fit \ Range(list) : <<x, list[i]>> \notin R
        /\ \/ Len(list) = limit
           \/ Len(list) < limit /\ Range(list) = fit
    BY <1>2, <1>5, <1>6, FirstOnes
  <1>8. Range(list) \subseteq fit
    BY <1>7 DEF Range
  <1>9. \A x \in fit \ Range(list), i \in DOMAIN list : ~Cheaper(x, list[i])
    BY <1>4, <1>7
  <1> QED BY <1>7, <1>8, <1>9 DEF list, fit, Cheaper

-----------------------------------------------------------------------------
(* Sorted lists. *)

\* Places of a list by their keys, the first of equals first.
ByKey(keys, D) == {p \in D \X D : keys[p[1]] < keys[p[2]] \/ (keys[p[1]] = keys[p[2]] /\ p[1] < p[2])}

\* Sorting rearranges the list in the order of the keys, equal ones as they were.
LEMMA SortedIs ==
    ASSUME NEW T, NEW seq \in Seq(T), NEW keys \in [DOMAIN seq -> Int]
    PROVE  \E order : /\ Sorted(seq, keys) = Arranged(seq, order)
                      /\ Orders(ByKey(keys, DOMAIN seq), DOMAIN seq)
                      /\ Lists(order, ByKey(keys, DOMAIN seq), DOMAIN seq)
                      /\ Len(order) = Len(seq)
  <1> DEFINE D == DOMAIN seq
             e == Cardinality(D)
             R == ByKey(keys, D)
             Among(s) == {t \in D : keys[t] < keys[s] \/ (keys[t] = keys[s] /\ t < s)}
             At(n) == CHOOSE s \in D : Cardinality(Among(s)) = n - 1
             q == [n \in 1 .. e |-> At(n)]
  <1>1. D = 1 .. Len(seq) /\ Len(seq) \in Nat
    BY LenProperties
  <1>2. IsFiniteSet(D) /\ e = Len(seq)
    <2> DEFINE n == Len(seq)
    <2>1. 1 \in Int /\ n \in Int /\ n \in Nat
      BY <1>1
    <2> HIDE DEF n
    <2>2. IsFiniteSet(1 .. n) /\ Cardinality(1 .. n) = n
      BY <2>1, FS_Interval
    <2> QED BY <1>1, <2>2 DEF n
  <1>3. \A s, t \in D : <<s, t>> \in R <=> keys[s] < keys[t] \/ (keys[s] = keys[t] /\ s < t)
    BY DEF ByKey
  <1>4. Sorted(seq, keys) = Arranged(seq, q)
    BY DEF Sorted, Ranked
  <1>5. \A s \in D : Among(s) = Below(R, D, s)
    BY <1>3 DEF Below
  <1>6. q = [n \in 1 .. e |-> q[n]]
    <2> HIDE DEF At
    <2> QED OBVIOUS
  <1>7. \A n \in 1 .. e : q[n] = At(n)
    <2> HIDE DEF At
    <2> QED OBVIOUS
  <1> HIDE DEF R, Among, q
  <1>8. Orders(R, D)
    <2>1. \A s \in D : s \in Int /\ keys[s] \in Int
      BY <1>1
    <2> HIDE DEF D
    <2>2. \A s \in D : <<s, s>> \notin R
      BY <1>3, <2>1
    <2>3. \A s, t, u \in D : <<s, t>> \in R /\ <<t, u>> \in R => <<s, u>> \in R
      <3> TAKE s, t, u \in D
      <3> QED BY <1>3, <2>1, SMTT(30)
    <2>4. \A s, t \in D : s = t \/ <<s, t>> \in R \/ <<t, s>> \in R
      <3> TAKE s, t \in D
      <3>1. keys[s] < keys[t] \/ keys[t] < keys[s] \/ (keys[s] = keys[t] /\ (s < t \/ t < s \/ s = t))
        <4>1. \A x, y \in Int : x < y \/ y < x \/ x = y
          OBVIOUS
        <4> QED BY <2>1, <4>1
      <3>2. /\ <<s, t>> \in R <=> keys[s] < keys[t] \/ (keys[s] = keys[t] /\ s < t)
            /\ <<t, s>> \in R <=> keys[t] < keys[s] \/ (keys[t] = keys[s] /\ t < s)
        BY <1>3
      <3> QED BY <3>1, <3>2
    <2> QED BY <2>2, <2>3, <2>4 DEF Orders
  <1>9. ASSUME NEW n \in 1 .. e, \E s \in D : Cardinality(Below(R, D, s)) = n - 1
        PROVE  q[n] \in D /\ Cardinality(Below(R, D, q[n])) = n - 1
    <2>1. \E s \in D : Cardinality(Among(s)) = n - 1
      BY <1>5, <1>9
    <2>2. At(n) \in D /\ Cardinality(Among(At(n))) = n - 1
      BY <2>1, Zenon
    <2> QED BY <1>5, <1>7, <2>2
  <1>10. Lists(q, R, D)
    <2>1. e = Cardinality(D)
      OBVIOUS
    <2> HIDE DEF e, D, At
    <2> QED BY <1>2, <1>6, <1>8, <1>9, <2>1, RankedLists
  <1>11. Len(q) = Len(seq)
    BY <1>2, <1>10 DEF Lists
  <1> QED BY <1>4, <1>8, <1>10, <1>11 DEF R

LEMMA ArrangedIs ==
    ASSUME NEW T, NEW seq \in Seq(T), NEW S \in SUBSET DOMAIN seq, NEW R, NEW order, Lists(order, R, S)
    PROVE  /\ Arranged(seq, order) \in Seq(T) /\ Len(Arranged(seq, order)) = Len(order)
           /\ DOMAIN Arranged(seq, order) = DOMAIN order
           /\ \A n \in DOMAIN order : Arranged(seq, order)[n] = seq[order[n]] /\ order[n] \in S
  <1> DEFINE p == Arranged(seq, order)
  <1>1. DOMAIN order = 1 .. Len(order) /\ Len(order) \in Nat /\ \A n \in DOMAIN order : order[n] \in S
    BY LenProperties DEF Lists
  <1>2. \A i \in S : seq[i] \in T
    BY LenProperties, ElementOfSeq
  <1>3. DOMAIN p = DOMAIN order /\ \A n \in DOMAIN order : p[n] = seq[order[n]]
    BY DEF Arranged
  <1>4. p = [n \in 1 .. Len(order) |-> p[n]]
    BY <1>1 DEF Arranged
  <1> HIDE DEF p
  <1>5. p \in [1 .. Len(order) -> T]
    BY <1>1, <1>2, <1>3, <1>4
  <1>6. p \in Seq(T) /\ Len(p) = Len(order)
    BY <1>1, <1>5, SeqDef
  <1> QED BY <1>1, <1>3, <1>6 DEF p

LEMMA ArrangedLength ==
    ASSUME NEW seq, NEW S, NEW order \in Seq(S)
    PROVE  Len(Arranged(seq, order)) = Len(order)
  BY DEF Arranged

LEMMA ArrangedHolds ==
    ASSUME NEW seq, NEW S, NEW R, NEW order, Lists(order, R, S)
    PROVE  Range(Arranged(seq, order)) = {seq[i] : i \in S}
  <1> DEFINE p == Arranged(seq, order)
  <1>1. DOMAIN p = DOMAIN order /\ \A n \in DOMAIN order : p[n] = seq[order[n]] /\ order[n] \in S
    BY DEF Arranged, Lists
  <1> HIDE DEF p
  <1>2. \A i \in S : \E n \in DOMAIN p : p[n] = seq[i]
    <2> TAKE i \in S
    <2>1. PICK n \in DOMAIN order : order[n] = i
      BY DEF Lists
    <2> QED BY <1>1, <2>1
  <1>3. \A n \in DOMAIN p : \E i \in S : p[n] = seq[i]
    BY <1>1
  <1>4. Range(p) = {seq[i] : i \in S}
    BY <1>2, <1>3 DEF Range
  <1> QED BY <1>4 DEF p

-----------------------------------------------------------------------------
(* The nearest lots. *)

LotsOpened ==
    /\ lots \in Seq([id : Nat, distance : Nat])
    /\ \A i \in DOMAIN lots : lots[i].id = i - 1

LEMMA Nearest ==
    ASSUME LotsOpened
    PROVE  NearestFirst
  <1> SUFFICES ASSUME NEW limit \in -(MaxList + 1) .. MaxList
               PROVE  LET list == NearestLots(lots, limit)
                          Nearer(x, y) == \/ x.distance < y.distance
                                          \/ (x.distance = y.distance /\ x.id < y.id)
                      IN  /\ \A x \in Range(lots) \ Range(list), i \in DOMAIN list :
                                ~Nearer(x, list[i])
                          /\ \A i, j \in DOMAIN list : i < j => Nearer(list[i], list[j])
                          /\ limit >= 0 /\ limit <= Len(lots) => Len(list) = limit
    BY DEF NearestFirst, NoneBefore
  <1> DEFINE Nearer(x, y) == \/ x.distance < y.distance
                             \/ (x.distance = y.distance /\ x.id < y.id)
             list == NearestLots(lots, limit)
             D == DOMAIN lots
             keys == [i \in D |-> lots[i].distance]
             R == ByKey(keys, D)
             Row == [id : Nat, distance : Nat]
  <1>1. D = 1 .. Len(lots) /\ Len(lots) \in Nat
    BY LenProperties DEF LotsOpened
  <1>2. ASSUME NEW i \in D
        PROVE  lots[i] \in Row /\ lots[i].distance \in Nat /\ lots[i].id = i - 1
    <2>1. lots \in Seq(Row) /\ lots[i].id = i - 1
      BY DEF LotsOpened
    <2>2. lots[i] \in Row
      <3> HIDE DEF Row
      <3> QED BY <1>1, <2>1, ElementOfSeq
    <2> QED BY <2>1, <2>2
  <1>3. keys \in [D -> Int]
    BY <1>2
  <1>4. \A i, j \in D : <<i, j>> \in R <=> Nearer(lots[i], lots[j])
    <2>1. \A i, j \in D : <<i, j>> \in R <=> keys[i] < keys[j] \/ (keys[i] = keys[j] /\ i < j)
      BY DEF ByKey
    <2>2. \A i, j \in D : i < j <=> lots[i].id < lots[j].id
      BY <1>1, <1>2
    <2> QED BY <2>1, <2>2
  <1>5. PICK order : /\ Sorted(lots, keys) = Arranged(lots, order)
                     /\ Orders(R, D) /\ Lists(order, R, D) /\ Len(order) = Len(lots)
    <2>1. lots \in Seq(Row)
      BY DEF LotsOpened
    <2> HIDE DEF Row, keys
    <2> QED BY <1>3, <2>1, SortedIs
  <1> DEFINE first == Slice(order, limit)
  <1>6. limit \in Int
    BY ComputationsAssumption
  <1> HIDE DEF R
  <1>7. /\ Len(first) \in 0 .. Len(order) /\ DOMAIN first = 1 .. Len(first)
        /\ \A i \in DOMAIN first : first[i] \in D /\ i \in DOMAIN order /\ first[i] = order[i]
        /\ \A i \in DOMAIN first, x \in D \ Range(first) : <<x, first[i]>> \notin R
        /\ limit >= 0 /\ limit <= Len(order) => Len(first) = limit
    <2> HIDE DEF D, first
    <2>1. first = Slice(order, limit)
      BY DEF first
    <2> QED BY <1>5, <1>6, <2>1, FirstOnes
  <1>8. /\ DOMAIN list = DOMAIN first /\ Len(list) = Len(first)
        /\ \A i \in DOMAIN first : list[i] = lots[first[i]]
    <2> DEFINE all == Arranged(lots, order)
    <2>1. lots \in Seq(Row)
      BY DEF LotsOpened
    <2>2. all \in Seq(Row) /\ Len(all) = Len(order) /\ \A n \in DOMAIN order : all[n] = lots[order[n]]
      <3> HIDE DEF Row, D
      <3>1. D \in SUBSET DOMAIN lots
        BY DEF D
      <3>2. /\ Arranged(lots, order) \in Seq(Row) /\ Len(Arranged(lots, order)) = Len(order)
            /\ \A n \in DOMAIN order : Arranged(lots, order)[n] = lots[order[n]]
        <4>1. Lists(order, R, D)
          BY <1>5
        <4>2. Arranged(lots, order) \in Seq(Row)
          BY <2>1, <3>1, <4>1, ArrangedIs
        <4>3. Len(Arranged(lots, order)) = Len(order)
          BY <4>1, ArrangedLength DEF Lists
        <4>4. \A n \in DOMAIN order : Arranged(lots, order)[n] = lots[order[n]]
          BY DEF Arranged
        <4> QED BY <4>2, <4>3, <4>4
      <3> QED BY <3>2
    <2>3. list = Slice(all, limit)
      BY <1>5 DEF NearestLots
    <2> HIDE DEF all, list, Row, first
    <2>4. order \in Seq(D)
      BY <1>5 DEF Lists
    <2>5. /\ list \in Seq(Row) /\ \A i \in 1 .. Len(list) : list[i] = all[i]
      BY <1>6, <2>2, <2>3, SliceIs
    <2>6. Len(list) = Len(first)
      <3> DEFINE length == IF limit < 0 THEN Len(order) + limit ELSE limit
                 n == IF length > Len(order) THEN Len(order) ELSE length
      <3>2. list = SubSeq(all, 1, n) /\ first = SubSeq(order, 1, n)
        BY <2>2, <2>3 DEF Slice, first
      <3>3. Len(order) \in Nat /\ n \in Int /\ n <= Len(order) /\ 1 \in Int
        BY <1>1, <1>5, <1>6
      <3> HIDE DEF n
      <3>4. \A i \in 1 .. n : all[i] \in Row /\ order[i] \in D
        BY <2>2, <2>4, <3>3, ElementOfSeq
      <3> QED BY <3>2, <3>3, <3>4, SubSeqProperties
    <2>7. DOMAIN list = 1 .. Len(list)
      BY <2>5, LenProperties
    <2> QED BY <1>7, <2>2, <2>5, <2>6, <2>7
  <1> HIDE DEF list, first, keys
  <1>9. ASSUME NEW x \in Range(lots) \ Range(list), NEW i \in DOMAIN list
        PROVE  ~Nearer(x, list[i])
    <2>1. PICK j \in D : x = lots[j]
      BY DEF Range
    <2>2. j \notin Range(first)
      BY <1>8, <2>1 DEF Range
    <2>3. <<j, first[i]>> \notin R
      BY <1>7, <1>8, <2>2
    <2> HIDE DEF Nearer
    <2> QED BY <1>4, <1>7, <1>8, <2>1, <2>3
  <1>10. ASSUME NEW i \in DOMAIN list, NEW j \in DOMAIN list, i < j
         PROVE  Nearer(list[i], list[j])
    <2>1. <<first[i], first[j]>> \in R
      BY <1>5, <1>7, <1>8, <1>10 DEF Lists
    <2> HIDE DEF Nearer, D
    <2>2. first[i] \in D /\ first[j] \in D
      BY <1>7, <1>8
    <2>3. Nearer(lots[first[i]], lots[first[j]])
      BY <1>4, <2>1, <2>2
    <2>4. list[i] = lots[first[i]] /\ list[j] = lots[first[j]]
      BY <1>8
    <2> QED BY <2>3, <2>4
  <1>11. limit >= 0 /\ limit <= Len(lots) => Len(list) = limit
    BY <1>5, <1>7, <1>8
  <1> QED BY <1>9, <1>10, <1>11 DEF list

-----------------------------------------------------------------------------
(* The number plate. *)

Text == {t \in [length : Nat, valid : BOOLEAN] : t.valid => t.length > 0}
Contour == [area : Nat, corners : Nat, width : Nat, height : Nat, text : Text]

Rising(S) == {p \in S \X S : p[1] < p[2]}

\* Those that pass a test, in the order of the places that pass it.
LEMMA KeptInOrder ==
    ASSUME NEW T, NEW seq \in Seq(T), NEW kept \in SUBSET DOMAIN seq
    PROVE  Lists(Ranked(kept, <), Rising(kept), kept)
  <1> DEFINE e == Cardinality(kept)
             R == Rising(kept)
             Among(s) == {t \in kept : t < s}
             At(n) == CHOOSE s \in kept : Cardinality(Among(s)) = n - 1
             q == [n \in 1 .. e |-> At(n)]
  <1>1. DOMAIN seq = 1 .. Len(seq) /\ Len(seq) \in Nat
    BY LenProperties
  <1>2. IsFiniteSet(kept)
    <2> DEFINE n == Len(seq)
    <2>1. 1 \in Int /\ n \in Int
      BY <1>1
    <2>2. kept \in SUBSET (1 .. n)
      BY <1>1
    <2> HIDE DEF n
    <2> QED BY <2>1, <2>2, FS_Interval, FS_Subset
  <1>3. \A s, t \in kept : <<s, t>> \in R <=> s < t
    BY DEF Rising
  <1>4. \A s \in kept : s \in Int
    BY <1>1
  <1>5. Ranked(kept, <) = q
    BY DEF Ranked
  <1>6. \A s \in kept : Among(s) = Below(R, kept, s)
    BY <1>3 DEF Below
  <1>7. q = [n \in 1 .. e |-> q[n]] /\ \A n \in 1 .. e : q[n] = At(n)
    <2> HIDE DEF At
    <2> QED OBVIOUS
  <1> HIDE DEF R, Among, q
  <1>8. Orders(R, kept)
    BY <1>3, <1>4 DEF Orders
  <1>9. ASSUME NEW n \in 1 .. e, \E s \in kept : Cardinality(Below(R, kept, s)) = n - 1
        PROVE  q[n] \in kept /\ Cardinality(Below(R, kept, q[n])) = n - 1
    <2>1. \E s \in kept : Cardinality(Among(s)) = n - 1
      BY <1>6, <1>9
    <2>2. At(n) \in kept /\ Cardinality(Among(At(n))) = n - 1
      BY <2>1, Zenon
    <2> QED BY <1>6, <1>7, <2>2
  <1>10. Lists(q, R, kept)
    <2>1. e = Cardinality(kept)
      OBVIOUS
    <2> HIDE DEF e, At
    <2> QED BY <1>2, <1>7, <1>8, <1>9, <2>1, RankedLists
  <1> QED BY <1>5, <1>10 DEF R

LEMMA KeptIs ==
    ASSUME NEW T, NEW seq \in Seq(T), NEW kept \in SUBSET DOMAIN seq,
           NEW p, p = Arranged(seq, Ranked(kept, <))
    PROVE  /\ p \in Seq(T) /\ Len(p) \in Nat /\ DOMAIN p = 1 .. Len(p)
           /\ \A i \in kept : seq[i] \in Range(p)
           /\ \A t \in Range(p) : \E i \in kept : t = seq[i]
  <1> DEFINE order == Ranked(kept, <)
  <1>1. Lists(order, Rising(kept), kept)
    BY KeptInOrder
  <1> HIDE DEF order
  <1>2. p \in Seq(T)
    BY <1>1, ArrangedIs DEF order
  <1>3. Range(p) = {seq[i] : i \in kept}
    BY <1>1, ArrangedHolds DEF order
  <1>4. (\A i \in kept : seq[i] \in Range(p)) /\ \A t \in Range(p) : \E i \in kept : t = seq[i]
    BY <1>3
  <1> QED BY <1>2, <1>4, LenProperties

\* Every candidate region is one of the picture.
LEMMA FoundIs ==
    ASSUME contours \in Seq(Contour)
    PROVE  DetectCandidates(contours) \in Seq(Contour)
  <1> DEFINE keys == [i \in DOMAIN contours |-> -contours[i].area]
             sorted == Sorted(contours, keys)
             some == Slice(sorted, MaxContours)
             kept == {i \in DOMAIN some : PlateLike(some[i])}
  <1>1. keys \in [DOMAIN contours -> Int]
    <2> SUFFICES ASSUME NEW i \in DOMAIN contours
                 PROVE  -contours[i].area \in Int
      OBVIOUS
    <2>1. contours[i] \in Contour
      BY LenProperties, ElementOfSeq
    <2> QED BY <2>1 DEF Contour
  <1>2. DetectCandidates(contours) = Arranged(some, Ranked(kept, <))
    BY DEF DetectCandidates, Passing
  <1> HIDE DEF keys
  <1>3. sorted \in Seq(Contour)
    <2> HIDE DEF sorted
    <2>1. PICK order : /\ sorted = Arranged(contours, order)
                       /\ Lists(order, ByKey(keys, DOMAIN contours), DOMAIN contours)
      BY <1>1, SortedIs DEF sorted
    <2>2. DOMAIN contours \in SUBSET DOMAIN contours
      OBVIOUS
    <2>3. Arranged(contours, order) \in Seq(Contour)
      BY <2>1, <2>2, ArrangedIs
    <2> QED BY <2>1, <2>3
  <1>4. MaxContours \in Int
    BY RankingAssumption
  <1> HIDE DEF sorted
  <1>5. some \in Seq(Contour)
    BY <1>3, <1>4, SliceIs
  <1>6. kept \in SUBSET DOMAIN some
    OBVIOUS
  <1> HIDE DEF some, kept
  <1> DEFINE p == Arranged(some, Ranked(kept, <))
  <1>7. p = Arranged(some, Ranked(kept, <))
    OBVIOUS
  <1> HIDE DEF p
  <1>8. p \in Seq(Contour)
    BY <1>5, <1>6, <1>7, KeptIs
  <1> QED BY <1>2, <1>7, <1>8

\* Some member of a nonempty finite set has the greatest value.
LEMMA SomeGreatest ==
    ASSUME NEW S, IsFiniteSet(S), S # {}, NEW f \in [S -> Int]
    PROVE  \E s \in S : \A t \in S : f[t] <= f[s]
  <1> DEFINE P == {U \in SUBSET S : U # {} => \E s \in U : \A t \in U : f[t] <= f[s]}
  <1>1. {} \in P
    OBVIOUS
  <1>2. ASSUME NEW U \in SUBSET S, NEW x \in S \ U, U \in P
        PROVE  U \cup {x} \in P
    <2>1. \A s \in S : f[s] \in Int
      OBVIOUS
    <2>2. CASE U = {}
      BY <2>1, <2>2
    <2>3. CASE U # {}
      <3>1. PICK s \in U : \A t \in U : f[t] <= f[s]
        BY <1>2, <2>3
      <3>2. CASE f[x] <= f[s]
        <4>1. s \in U \cup {x} /\ \A t \in U \cup {x} : f[t] <= f[s]
          BY <3>1, <3>2
        <4> QED BY <4>1
      <3>3. CASE f[s] <= f[x]
        <4>1. x \in U \cup {x} /\ \A t \in U \cup {x} : f[t] <= f[x]
          BY <2>1, <3>1, <3>3
        <4> QED BY <4>1
      <3> QED BY <2>1, <3>2, <3>3
    <2> QED BY <2>2, <2>3
  <1> HIDE DEF P
  <1>3. S \in P
    BY <1>1, <1>2, SetInduction
  <1> QED BY <1>3 DEF P

\* The chosen text is one of the list, a plate if any of them is, and no other of its
\* kind is longer.
LEMMA LongestChosen ==
    ASSUME NEW texts \in Seq(Text), texts # <<>>, NEW answer, answer = FirstLongest(texts)
    PROVE  /\ answer \in Range(texts)
           /\ answer.valid <=> \E t \in Range(texts) : t.valid
           /\ \A t \in Range(texts) : t.valid = answer.valid => t.length <= answer.length
  <1> DEFINE D == DOMAIN texts
             plates == {i \in D : texts[i].valid /\ ~\E j \in D : Better(texts[j], texts[i])}
             guesses == {i \in D : \A j \in D : texts[j].length <= texts[i].length}
             best == IF plates # {} THEN plates ELSE guesses
             first == CHOOSE i \in best : \A j \in best : i <= j
             valid == {i \in D : texts[i].valid}
  <1>1. D = 1 .. Len(texts) /\ Len(texts) \in Nat \ {0} /\ 1 \in D
    BY LenProperties, EmptySeq
  <1>2. \A i \in D : /\ texts[i] \in Text /\ texts[i].length \in Nat /\ texts[i].valid \in BOOLEAN
    <2> TAKE i \in D
    <2>1. texts[i] \in Text
      BY <1>1, ElementOfSeq
    <2> QED BY <2>1 DEF Text
  <1>3. answer = texts[first]
    BY DEF FirstLongest
  <1>4. IsFiniteSet(D)
    <2> DEFINE n == Len(texts)
    <2>1. 1 \in Int /\ n \in Int
      BY <1>1
    <2> HIDE DEF n
    <2>2. IsFiniteSet(1 .. n)
      BY <2>1, FS_Interval
    <2> QED BY <1>1, <2>2 DEF n
  <1>5. plates # {} <=> valid # {}
    <2>1. plates \subseteq valid
      OBVIOUS
    <2>2. ASSUME valid # {}
          PROVE  plates # {}
      <3> DEFINE f == [i \in valid |-> texts[i].length]
      <3>1. IsFiniteSet(valid)
        BY <1>4, FS_Subset
      <3>2. f \in [valid -> Int] /\ \A i \in valid : f[i] = texts[i].length
        BY <1>2
      <3> HIDE DEF f, valid
      <3>3. PICK s \in valid : \A t \in valid : f[t] <= f[s]
        BY <2>2, <3>1, <3>2, SomeGreatest
      <3>4. \A j \in D : texts[j].valid => texts[j].length <= texts[s].length
        BY <3>2, <3>3 DEF valid
      <3>5. s \in D /\ texts[s].valid
        BY DEF valid
      <3>6. ~\E j \in D : Better(texts[j], texts[s])
        BY <1>2, <3>4, <3>5 DEF Better
      <3>7. s \in plates
        BY <3>5, <3>6
      <3> QED BY <3>7
    <2> QED BY <2>1, <2>2
  <1>6. guesses # {}
    <2> DEFINE f == [i \in D |-> texts[i].length]
    <2>1. f \in [D -> Int] /\ (\A i \in D : f[i] = texts[i].length) /\ D # {}
      BY <1>1, <1>2
    <2> HIDE DEF f, D
    <2>2. PICK s \in D : \A t \in D : f[t] <= f[s]
      BY <1>4, <2>1, SomeGreatest
    <2>3. s \in guesses
      BY <2>1, <2>2
    <2> QED BY <2>3
  <1>7. first \in best /\ first \in D
    <2>1. best \in SUBSET Nat /\ best # {} /\ best \subseteq D
      <3>1. plates \subseteq D /\ guesses \subseteq D /\ D \subseteq Nat
        BY <1>1
      <3> HIDE DEF plates, guesses, D
      <3> QED BY <1>6, <3>1
    <2> HIDE DEF best
    <2>2. \E i \in best : \A j \in best : i <= j
      BY <2>1, LeastNumber
    <2>3. first \in best
      BY <2>2
    <2> QED BY <2>1, <2>3
  <1> HIDE DEF first
  <1>8. CASE valid # {}
    <2>1. first \in plates
      BY <1>5, <1>7, <1>8
    <2>2. \A j \in D : texts[j].valid => texts[j].length <= texts[first].length
      BY <1>2, <1>7, <2>1 DEF Better
    <2>3. texts[first].valid
      BY <2>1
    <2> QED BY <1>2, <1>3, <1>7, <2>2, <2>3 DEF Range
  <1>9. CASE valid = {}
    <2>1. first \in guesses
      BY <1>5, <1>7, <1>9
    <2> QED BY <1>2, <1>3, <1>7, <1>9, <2>1 DEF Range
  <1> QED BY <1>8, <1>9

LEMMA Prefers ==
    ASSUME contours \in Seq(Contour)
    PROVE  PlatePreferred
  <1> SUFFICES ASSUME NEW frame \in {Blank, [length |-> 9, valid |-> TRUE],
                                     [length |-> 11, valid |-> FALSE]}
               PROVE  LET found == DetectCandidates(contours)
                          read == {found[i].text : i \in DOMAIN found} \cup {frame}
                          answer == RecognizePlate(contours, frame, TRUE)
                      IN  /\ answer \in read \cup {Blank}
                          /\ answer.valid <=> \E t \in read : t.valid
                          /\ \A t \in read : t.valid = answer.valid => t.length <= answer.length
    BY DEF PlatePreferred
  <1> DEFINE found == DetectCandidates(contours)
             read == {found[i].text : i \in DOMAIN found} \cup {frame}
             answer == RecognizePlate(contours, frame, TRUE)
             regions == [i \in DOMAIN found |-> found[i].text]
             texts == regions \o <<frame>>
             kept == {i \in DOMAIN texts : texts[i].length > 0}
             candidates == Arranged(texts, Ranked(kept, <))
  <1>1. frame \in Text /\ Blank \in Text /\ Blank.valid = FALSE /\ Blank.length = 0
    <2>1. \A n \in Nat : n > 0 => [length |-> n, valid |-> TRUE] \in Text
      BY DEF Text
    <2>2. \A n \in Nat : [length |-> n, valid |-> FALSE] \in Text
      BY DEF Text
    <2> QED BY <2>1, <2>2 DEF Blank
  <1>2. found \in Seq(Contour)
    BY FoundIs
  <1>3. answer = IF candidates = <<>> THEN Blank ELSE FirstLongest(candidates)
    BY DEF RecognizePlate, Passing
  <1> HIDE DEF found
  <1>4. regions \in Seq(Text) /\ Len(regions) = Len(found) /\ DOMAIN found = 1 .. Len(found)
        /\ Len(found) \in Nat
    <2>1. DOMAIN found = 1 .. Len(found) /\ Len(found) \in Nat
      BY <1>2, LenProperties
    <2>2. \A i \in DOMAIN found : found[i].text \in Text
      <3> TAKE i \in DOMAIN found
      <3>1. found[i] \in Contour
        BY <1>2, <2>1, ElementOfSeq
      <3> QED BY <3>1 DEF Contour
    <2>3. regions \in [1 .. Len(found) -> Text]
      BY <2>1, <2>2
    <2> HIDE DEF regions
    <2> QED BY <2>1, <2>3, SeqDef
  <1>5. \A i \in DOMAIN found : regions[i] = found[i].text
    OBVIOUS
  <1> HIDE DEF regions
  <1>6. /\ texts \in Seq(Text) /\ Len(texts) = Len(found) + 1
        /\ \A i \in 1 .. Len(found) : texts[i] = found[i].text
        /\ texts[Len(found) + 1] = frame
    <2>1. <<frame>> \in Seq(Text) /\ Len(<<frame>>) = 1 /\ <<frame>>[1] = frame
      BY <1>1
    <2> DEFINE last == <<frame>>
    <2> HIDE DEF last
    <2>2. /\ texts \in Seq(Text) /\ Len(texts) = Len(regions) + Len(last)
          /\ \A i \in 1 .. Len(regions) + Len(last) :
                texts[i] = IF i <= Len(regions) THEN regions[i] ELSE last[i - Len(regions)]
      BY <1>4, <2>1, ConcatProperties DEF last
    <2>3. Len(last) = 1 /\ last[1] = frame
      BY <2>1 DEF last
    <2> HIDE DEF texts
    <2>4. Len(regions) = Len(found) /\ Len(found) \in Nat
      BY <1>4
    <2>5. Len(texts) = Len(found) + 1
      BY <2>2, <2>3, <2>4
    <2>6. ASSUME NEW i \in 1 .. Len(found)
          PROVE  texts[i] = found[i].text
      <3>1. i \in 1 .. Len(regions) + Len(last) /\ i <= Len(regions) /\ i \in DOMAIN found
        BY <1>4, <2>3, <2>4
      <3> QED BY <1>5, <2>2, <3>1
    <2>7. texts[Len(found) + 1] = frame
      <3>1. /\ Len(found) + 1 \in 1 .. Len(regions) + Len(last)
            /\ ~(Len(found) + 1 <= Len(regions)) /\ (Len(found) + 1) - Len(regions) = 1
        BY <2>3, <2>4
      <3> QED BY <2>2, <2>3, <3>1
    <2> QED BY <2>2, <2>5, <2>6, <2>7
  <1> HIDE DEF texts
  <1>7. DOMAIN texts = 1 .. Len(found) + 1
    BY <1>6, LenProperties
  <1>8. read = {texts[i] : i \in DOMAIN texts}
    <2>1. \A i \in DOMAIN texts : texts[i] \in read
      BY <1>4, <1>6, <1>7
    <2>2. \A t \in read : \E i \in DOMAIN texts : t = texts[i]
      <3> TAKE t \in read
      <3>1. CASE t = frame
        BY <1>4, <1>6, <1>7, <3>1
      <3>2. CASE t # frame
        <4>1. PICK i \in DOMAIN found : t = found[i].text
          BY <3>2
        <4>2. i \in DOMAIN texts /\ t = texts[i]
          BY <1>4, <1>6, <1>7, <4>1
        <4> QED BY <4>2
      <3> QED BY <3>1, <3>2
    <2> HIDE DEF read
    <2> QED BY <2>1, <2>2
  <1>9. kept \in SUBSET DOMAIN texts
    OBVIOUS
  <1>10. /\ candidates \in Seq(Text)
         /\ \A i \in kept : texts[i] \in Range(candidates)
         /\ \A t \in Range(candidates) : \E i \in kept : t = texts[i]
    <2> HIDE DEF kept, candidates
    <2>1. candidates = Arranged(texts, Ranked(kept, <)) /\ texts \in Seq(Text)
      BY <1>6 DEF candidates
    <2>2. candidates \in Seq(Text)
      BY <1>9, <2>1, KeptIs
    <2>3. \A i \in kept : texts[i] \in Range(candidates)
      BY <1>9, <2>1, KeptIs
    <2>4. \A t \in Range(candidates) : \E i \in kept : t = texts[i]
      <3> DEFINE order == Ranked(kept, <)
      <3>1. Lists(order, Rising(kept), kept)
        BY <1>9, <2>1, KeptInOrder
      <3>2. candidates = Arranged(texts, order)
        BY <2>1
      <3> HIDE DEF order
      <3>3. Range(candidates) = {texts[i] : i \in kept}
        BY <3>1, <3>2, ArrangedHolds
      <3> QED BY <3>3
    <2> QED BY <2>2, <2>3, <2>4
  <1>11. \A t \in read : t \in Text /\ t.length \in Nat /\ t.valid \in BOOLEAN
                         /\ (t.valid => t.length > 0)
    <2> TAKE t \in read
    <2>1. PICK i \in DOMAIN texts : t = texts[i]
      BY <1>8
    <2>2. t \in Text
      BY <1>6, <2>1, LenProperties, ElementOfSeq
    <2> QED BY <2>2 DEF Text
  <1>12. Range(candidates) = {t \in read : t.length > 0}
    <2>1. \A i \in kept : i \in DOMAIN texts /\ texts[i].length > 0
      OBVIOUS
    <2>2. \A i \in DOMAIN texts : texts[i].length > 0 => i \in kept
      OBVIOUS
    <2>3. ASSUME NEW t \in Range(candidates)
          PROVE  t \in read /\ t.length > 0
      BY <1>8, <1>10, <2>1
    <2>4. ASSUME NEW t \in read, t.length > 0
          PROVE  t \in Range(candidates)
      <3>1. PICK i \in DOMAIN texts : t = texts[i]
        BY <1>8
      <3> QED BY <1>10, <2>2, <2>4, <3>1
    <2> HIDE DEF candidates, read, kept
    <2> QED BY <2>3, <2>4
  <1>13. candidates = <<>> <=> Range(candidates) = {}
    <2> HIDE DEF candidates
    <2>1. Range(<<>>) = {}
      BY DEF Range
    <2>2. candidates # <<>> => 1 \in DOMAIN candidates
      BY <1>10, EmptySeq, LenProperties
    <2> QED BY <2>1, <2>2 DEF Range
  <1> HIDE DEF read, kept, candidates, answer
  <1>14. CASE candidates = <<>>
    <2>1. answer = Blank /\ \A t \in read : ~(t.length > 0)
      BY <1>3, <1>12, <1>13, <1>14
    <2>2. \A t \in read : t.valid = FALSE /\ t.length = 0
      BY <1>11, <2>1
    <2>3. /\ answer \in read \cup {Blank}
          /\ answer.valid <=> \E t \in read : t.valid
          /\ \A t \in read : t.valid = answer.valid => t.length <= answer.length
      BY <1>1, <2>1, <2>2
    <2> QED BY <2>3 DEF found, read, answer
  <1>15. CASE candidates # <<>>
    <2>1. answer = FirstLongest(candidates)
      BY <1>3, <1>15
    <2>2. /\ answer \in Range(candidates)
          /\ answer.valid <=> \E t \in Range(candidates) : t.valid
          /\ \A t \in Range(candidates) : t.valid = answer.valid => t.length <= answer.length
      BY <1>10, <1>15, <2>1, LongestChosen
    <2>3. answer \in read /\ answer.length > 0 /\ answer.length \in Nat
      BY <1>11, <1>12, <2>2
    <2>4. answer.valid <=> \E t \in read : t.valid
      BY <1>11, <1>12, <2>2
    <2>5. \A t \in read : t.valid = answer.valid => t.length <= answer.length
      BY <1>11, <1>12, <2>2, <2>3
    <2> QED BY <2>3, <2>4, <2>5 DEF found, read, answer
  <1> QED BY <1>14, <1>15

-----------------------------------------------------------------------------

ListsInv == OffersMade /\ LotsOpened /\ contours \in Seq(Contour)

LEMMA OfferStep ==
    ASSUME OffersMade, Offer
    PROVE  OffersMade'
  <1>1. PICK s : /\ s.number = Cardinality(offers) /\ s.rate \in 1 .. 2
                 /\ offers' = offers \cup {s}
    <2>1. PICK type \in VehicleTypes, rate \in 1 .. 2, status \in {"available", "occupied"} :
             offers' = offers \cup {[number |-> Cardinality(offers), type |-> type,
                                    rate |-> rate, status |-> status]}
      BY DEF Offer
    <2> DEFINE s == [number |-> Cardinality(offers), type |-> type,
                     rate |-> rate, status |-> status]
    <2>2. s.number = Cardinality(offers) /\ s.rate \in 1 .. 2 /\ offers' = offers \cup {s}
      BY <2>1
    <2> HIDE DEF s
    <2> QED BY <2>2
  <1>2. Cardinality(offers) \in Nat
    BY FS_CardinalityType DEF OffersMade
  <1>3. s \notin offers
    BY <1>1, <1>2 DEF OffersMade
  <1>4. IsFiniteSet(offers') /\ Cardinality(offers') = Cardinality(offers) + 1
    BY <1>1, <1>3, FS_AddElement DEF OffersMade
  <1> DEFINE n == Cardinality(offers)
  <1>5. /\ n \in Nat /\ Cardinality(offers') = n + 1 /\ s.number = n /\ s.rate \in Int
        /\ \A t \in offers : t.rate \in Int /\ t.number \in Nat /\ t.number < n
        /\ \A t, u \in offers : t.number = u.number => t = u
    BY <1>1, <1>2, <1>4 DEF OffersMade
  <1> HIDE DEF n
  <1>6. \A t \in offers' : t.rate \in Int /\ t.number \in Nat /\ t.number < Cardinality(offers')
    BY <1>1, <1>5
  <1>7. \A t, u \in offers' : t.number = u.number => t = u
    BY <1>1, <1>5
  <1> QED BY <1>4, <1>6, <1>7 DEF OffersMade

LEMMA OutlineOf ==
    ASSUME NEW c \in Contours \cup {[CHOOSE c \in Contours : TRUE EXCEPT !.corners = 5]}
    PROVE  c \in Contour
  <1>1. Contours \subseteq Contour
    <2>1. \A n \in Nat : n > 0 => [length |-> n, valid |-> TRUE] \in Text
      BY DEF Text
    <2>2. \A n \in Nat : [length |-> n, valid |-> FALSE] \in Text
      BY DEF Text
    <2>3. {[length |-> 9, valid |-> TRUE], [length |-> 10, valid |-> TRUE],
           [length |-> 11, valid |-> FALSE], Blank} \subseteq Text
      BY <2>1, <2>2 DEF Blank
    <2>4. {1, 2} \subseteq Nat /\ {4} \subseteq Nat /\ {24, 60} \subseteq Nat /\ {10} \subseteq Nat
      OBVIOUS
    <2> QED BY <2>3, <2>4 DEF Contours, Contour
  <1>2. Contours # {}
    <2> DEFINE t == [length |-> 9, valid |-> TRUE]
    <2>1. [area |-> 1, corners |-> 4, width |-> 24, height |-> 10, text |-> t] \in Contours
      BY DEF Contours
    <2> QED BY <2>1
  <1>3. (CHOOSE d \in Contours : TRUE) \in Contour
    BY <1>1, <1>2
  <1>4. \A d \in Contour : [d EXCEPT !.corners = 5] \in Contour
    BY DEF Contour
  <1> QED BY <1>1, <1>3, <1>4

LEMMA ListsReached == Spec => []ListsInv
  <1>1. Init => ListsInv
    <2> SUFFICES ASSUME Init PROVE ListsInv
      OBVIOUS
    <2>1. offers = {} /\ lots = <<>> /\ contours = <<>>
      BY DEF Init
    <2>2. OffersMade
      BY <2>1, FS_EmptySet DEF OffersMade
    <2>3. LotsOpened /\ contours \in Seq(Contour)
      BY <2>1 DEF LotsOpened
    <2> QED BY <2>2, <2>3 DEF ListsInv
  <1>2. ListsInv /\ [Next]_inputs => ListsInv'
    <2> SUFFICES ASSUME ListsInv, [Next]_inputs
                 PROVE  ListsInv'
      OBVIOUS
    <2>1. CASE Offer
      <3>1. lots' = lots /\ contours' = contours
        BY <2>1 DEF Offer
      <3> QED BY <2>1, <3>1, OfferStep DEF ListsInv, LotsOpened
    <2>2. CASE Open
      <3>1. PICK distance \in 0 .. 2 :
               lots' = Append(lots, [id |-> Len(lots), distance |-> distance])
        BY <2>2 DEF Open
      <3> DEFINE n == Len(lots)
                 row == [id |-> n, distance |-> distance]
      <3>2. /\ lots \in Seq([id : Nat, distance : Nat]) /\ n \in Nat /\ DOMAIN lots = 1 .. n
            /\ \A i \in 1 .. n : lots[i].id = i - 1
        BY LenProperties DEF ListsInv, LotsOpened
      <3>3. row \in [id : Nat, distance : Nat] /\ row.id = n
        BY <3>2
      <3> HIDE DEF row
      <3>4. /\ lots' \in Seq([id : Nat, distance : Nat]) /\ DOMAIN lots' = 1 .. n + 1
            /\ lots'[n + 1] = row /\ \A i \in 1 .. n : lots'[i] = lots[i]
        BY <3>1, <3>2, <3>3 DEF row
      <3>5. \A i \in DOMAIN lots' : lots'[i].id = i - 1
        <4> HIDE DEF n
        <4> TAKE i \in DOMAIN lots'
        <4>1. CASE i = n + 1
          BY <3>2, <3>3, <3>4, <4>1
        <4>2. CASE i \in 1 .. n
          BY <3>2, <3>4, <4>2
        <4> QED BY <3>2, <3>4, <4>1, <4>2
      <3>6. offers' = offers /\ contours' = contours
        BY <2>2 DEF Open
      <3> QED BY <3>4, <3>5, <3>6 DEF ListsInv, LotsOpened, OffersMade
    <2>3. CASE Outline
      <3>1. PICK c \in Contours \cup {[CHOOSE c \in Contours : TRUE EXCEPT !.corners = 5]} :
               contours' = Append(contours, c)
        BY <2>3 DEF Outline
      <3>2. contours' \in Seq(Contour)
        BY <3>1, OutlineOf DEF ListsInv
      <3> QED BY <2>3, <3>2 DEF ListsInv, LotsOpened, OffersMade, Outline
    <2>4. CASE UNCHANGED lists
      BY <2>4 DEF lists, ListsInv, LotsOpened, OffersMade
    <2> QED BY <2>1, <2>2, <2>3, <2>4
            DEF Next, TariffInput, HistoryInput, ListInput, InstanceInput, inputs
  <1> QED BY <1>1, <1>2, PTL DEF Spec

\* Every ranking returns the best of what it was given, in order, for slots, lots and
\* pictures in any number (recommend_slots, nearest_lots, recognize_plate).
THEOREM RankingsStayBest == Spec => []RankingsAreBest
  <1>1. ListsInv => RankingsAreBest
    BY Recommends, Nearest, Prefers DEF ListsInv, RankingsAreBest
  <1> QED BY <1>1, ListsReached, PTL

=============================================================================
