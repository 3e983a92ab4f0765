------------------------------- MODULE Measures -------------------------------
(***************************************************************************)
(* Time series (timeSeries.go), HyperLogLog sketches (hyperloglog.go),     *)
(* places (geo.go) and vectors (vector.go).  What these compute in floating*)
(* point, a distance or an estimate, is a constant table or left out; which*)
(* values it is computed from is here.                                     *)
(***************************************************************************)
EXTENDS Values

CONSTANTS
    Moments,        \* times of data points; 0 is Go's zero time
    Samples,        \* values of data points
    Windows,        \* the ranges of time that clients ask for
    Interval,       \* the interval of DownSample
    MaxPoints,      \* bound of the model: points of a time series
    Elements,       \* what is added to a sketch
    HashOf,         \* the register of an element and the rank it sets there
    Places,         \* members of a GeoSet
    Spots,          \* where they are
    Kilometres,     \* the distance of two spots
    MaxAdds,        \* bound of the model: GEOADDs of a key
    Vectors,        \* vectors
    Cosine          \* the distance of a vector to another as a query

ASSUME MeasuresAssumption ==
    /\ Moments \subseteq Nat /\ Samples \subseteq Int /\ Interval \in Nat \ {0}
    /\ Windows \subseteq Int \X Int
    /\ HashOf \in [Elements -> [index : Nat, rank : Nat \ {0}]]
    /\ Kilometres \in [Spots \X Spots -> Nat]
    /\ Cosine \in [Vectors \X Vectors -> Int]

Points == [time : Moments, value : Samples]

InTimeOrder(s) == \A i, j \in DOMAIN s : i < j => s[i].time <= s[j].time

(* auxAdded is what was added, in the order of the commands.               *)
Series(points, added) == [type |-> "series", points |-> points, auxAdded |-> added]

TSCREATE(k) == IF store[k] = NoValue
               THEN Put(k, Series(<<>>, <<>>)) /\ Answer("TS.CREATE", k, <<>>, Ok)
               ELSE Read("TS.CREATE", k, <<>>, Error)

(* sort.Slice promises nothing for points of the same time.                *)
SortedPoints(points) ==
    {s \in {[i \in DOMAIN points |-> points[p[i]]] : p \in Bijection(DOMAIN points, DOMAIN points)} :
        InTimeOrder(s)}

TSADD(k, point) ==
    IF Is(k, "series")
    THEN /\ Len(store[k].points) < MaxPoints
         /\ \E s \in SortedPoints(Append(store[k].points, point)) :
                Put(k, Series(s, Append(store[k].auxAdded, point)))
         /\ Answer("TS.ADD", k, point, Ok)
    ELSE Read("TS.ADD", k, point, Error)

(* Both ends are excluded.                                                 *)
Between(points, start, end) ==
    SelectSeq(points, LAMBDA p : start < p.time /\ p.time < end)

TSRANGE(k, start, end) ==
    Read("TS.RANGE", k, <<start, end>>,
         IF Is(k, "series") THEN Value(Between(store[k].points, start, end)) ELSE Error)

TSGET(k) == Read("TS.GET", k, <<>>, IF Is(k, "series") /\ store[k].points # <<>>
                                    THEN Value(Last(store[k].points)) ELSE Error)

Truncate(time) == time - (time % Interval)

(* The mean is a sum and a count here; another method's name gives 0.      *)
Aggregated(samples, method) ==
    CASE method = "avg" -> <<FoldLeft(LAMBDA a, b : a + b, 0, samples), Len(samples)>>
      [] method = "min" -> CHOOSE m \in ToSet(samples) : \A n \in ToSet(samples) : m <= n
      [] method = "max" -> CHOOSE m \in ToSet(samples) : \A n \in ToSet(samples) : n <= m
      [] OTHER -> 0

Bucket(start, samples, method) == [time |-> start, value |-> Aggregated(samples, method)]

(* Mutant: a new bucket begins without the point that opens it.            *)
SampleDropsFirst(state, point, method) ==
    LET slot == Truncate(point.time)
        start == IF state.start = 0 THEN slot ELSE state.start
    IN  IF slot = start
        THEN [state EXCEPT !.start = start, !.samples = Append(@, point.value)]
        ELSE [start |-> slot, samples |-> <<>>,
              result |-> Append(state.result, Bucket(start, state.samples, method))]

(* One turn of the loop: a bucket whose start is the zero time counts as   *)
(* not begun, and the next one takes its samples over.                     *)
Sample(state, point, method) ==
    LET slot == Truncate(point.time)
        start == IF state.start = 0 THEN slot ELSE state.start
    IN  IF slot = start
        THEN [state EXCEPT !.start = start, !.samples = Append(@, point.value)]
        ELSE [start |-> slot, samples |-> <<point.value>>,
              result |-> Append(state.result, Bucket(start, state.samples, method))]

(* It has no command.                                                      *)
DownSample(k, start, end, method) ==
    LET none == [start |-> 0, samples |-> <<>>, result |-> <<>>]
        state == FoldLeft(LAMBDA s, p : Sample(s, p, method), none,
                          Between(store[k].points, start, end))
        rest == IF state.samples = <<>> THEN <<>>
                ELSE <<Bucket(state.start, state.samples, method)>>
    IN  Read("DownSample", k, <<start, end, method>>,
             IF Is(k, "series") THEN Value(state.result \o rest) ELSE Error)

SeriesCommands ==
    \E k \in KeysOf("series") :
        \/ TSCREATE(k)
        \/ Read("TS.CREATE", k, "sum", Error)
        \/ \E p \in Points : TSADD(k, p)
        \/ TSGET(k)
        \/ \E w \in Windows :
               \/ TSRANGE(k, w[1], w[2])
               \/ \E method \in {"avg", "min", "max", "sum"} : DownSample(k, w[1], w[2], method)
-----------------------------------------------------------------------------
Registers == {HashOf[e].index : e \in Elements}

(* Registers that are 0 are those no element sets.  auxSet is what was     *)
(* added to the sketch or to one that was merged into it.                  *)
NewSketch == [type |-> "sketch", registers |-> [i \in Registers |-> 0], auxSet |-> {}]

(* The nil sketch that PFMERGE without sources leaves behind.              *)
NilSketch == [type |-> "nil sketch"]

(* Mutant: the last rank stays instead of the greatest.                    *)
AddLast(sketch, e) == [sketch EXCEPT !.registers[HashOf[e].index] = HashOf[e].rank,
                                     !.auxSet = @ \cup {e}]

Add(sketch, e) ==
    [sketch EXCEPT !.registers[HashOf[e].index] = IF @ < HashOf[e].rank THEN HashOf[e].rank
                                                  ELSE @,
                   !.auxSet = @ \cup {e}]

(* PFADD of several elements takes the lock for each, PFCOUNT of several   *)
(* keys for each: they are several steps.                                  *)
PFADD(k, e) ==
    CASE store[k] = NoValue -> Put(k, Add(NewSketch, e)) /\ Answer("PFADD", k, e, Ok)
      [] Is(k, "sketch") -> Put(k, Add(store[k], e)) /\ Answer("PFADD", k, e, Ok)
      [] Is(k, "nil sketch") -> Panic("PFADD", k, e)
      [] OTHER -> Read("PFADD", k, e, Error)

(* The estimate is a function of the registers.                            *)
PFCOUNT(k) == CASE Is(k, "sketch") -> Read("PFCOUNT", k, <<>>, Value(store[k].registers))
                [] Is(k, "nil sketch") -> Panic("PFCOUNT", k, <<>>)
                [] OTHER -> Read("PFCOUNT", k, <<>>, Error)

Merged(sketches) ==
    LET rank(i) == CHOOSE m \in {s.registers[i] : s \in sketches} :
                       \A s \in sketches : s.registers[i] <= m
    IN  [type |-> "sketch", registers |-> [i \in Registers |-> rank(i)],
         auxSet |-> UNION {s.auxSet : s \in sketches}]

(* What the destination held does not count.  The sources are taken in     *)
(* their order: the first that is not a sketch decides.                    *)
PFMERGE(k, sources) ==
    LET bad == {i \in DOMAIN sources : ~ Is(sources[i], "sketch")}
        first == CHOOSE i \in bad : \A j \in bad : i <= j
    IN  CASE sources = <<>> -> Put(k, NilSketch) /\ Answer("PFMERGE", k, sources, Ok)
          [] sources # <<>> /\ bad = {} ->
                 /\ Put(k, Merged({store[s] : s \in ToSet(sources)}))
                 /\ Answer("PFMERGE", k, sources, Ok)
          [] bad # {} /\ Is(sources[first], "nil sketch") -> Panic("PFMERGE", k, sources)
          [] OTHER -> Read("PFMERGE", k, sources, Error)

SketchCommands ==
    \E k \in KeysOf("sketch") :
        \/ \E e \in Elements : PFADD(k, e)
        \/ PFCOUNT(k)
        \/ \E sources \in SeqOf(KeysOf("sketch"), 2) : PFMERGE(k, sources)
        \/ Panic("PFADD", k, <<>>)              \* the bare word, like PFMERGE
-----------------------------------------------------------------------------
(* The list of names in alphabetical order grows with every GEOADD, also of*)
(* a name that is there; nothing reads it, so its length stands for it.    *)
GeoSet(locations, sorted) == [type |-> "geo", locations |-> locations, sorted |-> sorted]

NewGeoSet == GeoSet(<<>>, 0)

(* Mutant: a new place is not entered in the list.                         *)
GEOADDUnlisted(k, name, spot) ==
    LET geo == IF store[k] = NoValue THEN NewGeoSet ELSE store[k]
    IN  \/ /\ store[k] = NoValue \/ Is(k, "geo")
           /\ Put(k, [geo EXCEPT !.locations = With(@, name, spot)])
           /\ Answer("GEOADD", k, <<name, spot>>, Ok)
        \/ store[k] # NoValue /\ ~ Is(k, "geo") /\ Panic("GEOADD", k, <<name, spot>>)

(* The commands pass longitude and latitude in the wrong order, all alike. *)
GEOADD(k, name, spot) ==
    LET geo == IF store[k] = NoValue THEN NewGeoSet ELSE store[k]
    IN  \/ /\ store[k] = NoValue \/ Is(k, "geo")
           /\ geo.sorted < MaxAdds
           /\ Put(k, [geo EXCEPT !.locations = With(@, name, spot), !.sorted = @ + 1])
           /\ Answer("GEOADD", k, <<name, spot>>, Ok)
        \/ store[k] # NoValue /\ ~ Is(k, "geo") /\ Panic("GEOADD", k, <<name, spot>>)

GEODIST(k, a, b) ==
    \/ /\ Is(k, "geo") /\ {a, b} \subseteq DOMAIN store[k].locations
       /\ Read("GEODIST", k, <<a, b>>,
               Number(Kilometres[store[k].locations[a], store[k].locations[b]]))
    \/ /\ Is(k, "geo") => ~ {a, b} \subseteq DOMAIN store[k].locations
       /\ Panic("GEODIST", k, <<a, b>>)

GEOSEARCH(k, spot, radius) ==
    LET near == {n \in DOMAIN store[k].locations :
                     Kilometres[spot, store[k].locations[n]] <= radius}
    IN  \/ Is(k, "geo") /\ Read("GEORADIUS", k, <<spot, radius>>, Value(near))
        \/ store[k] = NoValue /\ Read("GEORADIUS", k, <<spot, radius>>, Value({}))
        \/ store[k] # NoValue /\ ~ Is(k, "geo") /\ Panic("GEORADIUS", k, <<spot, radius>>)

GeoCommands ==
    \E k \in KeysOf("geo") :
        \/ \E name \in Places, spot \in Spots : GEOADD(k, name, spot)
        \/ \E a, b \in Places : GEODIST(k, a, b)
        \/ \E spot \in Spots, radius \in {0, 1} : GEOSEARCH(k, spot, radius)
        \/ Read("GEOADD", k, <<>>, Error)
-----------------------------------------------------------------------------
VECTORSET(k, v) == /\ Put(k, [type |-> "vector", vector |-> v])
                   /\ Answer("VECTOR.SET", k, v, Ok)

VECTORGET(k) == Read("VECTOR.GET", k, <<>>,
                     IF Is(k, "vector") THEN Value(store[k].vector) ELSE Error)

DistanceTo(query, k) == Cosine[query, store[k].vector]

(* Vectors at the same distance come in any order, the map's and the sort's*)
ByDistance(query) ==
    {s \in SetToSeqs({k \in Keys : Is(k, "vector")}) :
        \A i, j \in DOMAIN s : i < j => DistanceTo(query, s[i]) <= DistanceTo(query, s[j])}

VECTORSEARCH(k, query, n) ==
    \E s \in ByDistance(query) :
        Read("VECTOR.SEARCH", k, <<query, n>>,
             Value(SubSeq(s, 1, IF n < Len(s) THEN n ELSE Len(s))))

VectorCommands ==
    \E k \in KeysOf("vector") :
        \/ \E v \in Vectors : VECTORSET(k, v)
        \/ VECTORGET(k)
        \/ \E query \in Vectors, n \in {1, 2} : VECTORSEARCH(k, query, n)
        \/ Read("VECTOR.SEARCH", k, <<>>, Error)
-----------------------------------------------------------------------------
MeasureOK(v) ==
    CASE v.type = "series" ->
             v \in [type : {"series"}, points : Seq(Points), auxAdded : Seq(Points)]
      [] v.type = "sketch" ->
             v \in [type : {"sketch"}, registers : [Registers -> Nat], auxSet : SUBSET Elements]
      [] v.type = "geo" ->
             /\ v = GeoSet(v.locations, v.sorted) /\ IsMap(v.locations, Places, Spots)
             /\ v.sorted \in Nat /\ Cardinality(DOMAIN v.locations) <= v.sorted
      [] v.type = "vector" -> v \in [type : {"vector"}, vector : Vectors]
      [] OTHER -> v = NilSketch

(* A sketch has in each register the greatest rank of all the elements that*)
(* were added to it or to the sketches merged into it, in whatever order   *)
(* and however often (hyperloglog.go:34-51, 84-94, 128-150).               *)
SketchOfAdded(sketch) ==
    \A i \in Registers :
        LET ranks == {HashOf[e].rank : e \in {x \in sketch.auxSet : HashOf[x].index = i}}
        IN  /\ \A r \in ranks : r <= sketch.registers[i]
            /\ sketch.registers[i] \in ranks \cup {0}

(* A series holds the points that were added, no other and none twice, in  *)
(* the order of their times: so its last one is the latest, which is what  *)
(* TS.GET answers (timeSeries.go:61-64, 113).                              *)
SeriesOfAdded(series) ==
    /\ InTimeOrder(series.points)
    /\ \E p \in Bijection(DOMAIN series.points, DOMAIN series.auxAdded) :
           \A i \in DOMAIN series.points : series.points[i] = series.auxAdded[p[i]]

(***************************************************************************)
(* Sketches and series are what their history says, whatever was added in  *)
(* whatever order.                                                         *)
(***************************************************************************)
KeepsWhatWasAdded ==
    \A k \in Keys : /\ Is(k, "sketch") => SketchOfAdded(store[k])
                    /\ Is(k, "series") => SeriesOfAdded(store[k])
=============================================================================
