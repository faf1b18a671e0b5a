------------------------------ MODULE DataCache ------------------------------
(***************************************************************************)
(* Daily bars of a symbol: the parquet files a script builds, the database *)
(* rows, and the chain of providers behind them.  A bar is its day; days   *)
(* count calendar days.  The thresholds are parameters, so that small days *)
(* reach them.                                                             *)
(***************************************************************************)
EXTENDS Integers, FiniteSets, FiniteSetsExt

CONSTANTS
  FirstDay, LastDay,  \* bounds on the clock
  Weekend,
  Slack,          \* 3: days a cached range may be short of, at both ends
  ShortRange,     \* 14: up to here every weekday at the ends must be there
  SparseRange,    \* 30: beyond, few bars mean something
  BarsPerYear, DaysPerYear,
  Providers,      \* how many providers the chain has
  Periods,        \* files the script can build
  Daily,          \* the one period with rows and providers
  AnyEnd          \* a build may end before the last one did, or in the future

ASSUME CacheAssumption == FirstDay \in Nat /\ LastDay \in Nat /\ AnyEnd \in BOOLEAN

VARIABLES
  today,
  listed,         \* the days the source has a bar of
  rows,           \* the days in the database
  sparse,         \* the symbol is known to have few bars
  files,          \* per period: the days in the file and how far it goes
  manifest,       \* end and periods of the last build
  build           \* the build under way

cacheVars == <<today, listed, rows, sparse, files, manifest, build>>

Days == 1 .. LastDay
Ranges == {r \in [from : Days, to : Days] : r.from <= r.to}
Within(days, r) == {d \in days : r.from <= d /\ d <= r.to}

NoBuild == [end |-> 0, reach |-> 0, periods |-> {}, left |-> {}, days |-> {}]

(* A first build, of yesterday, is on disk.                                *)
CacheInit ==
  /\ today = FirstDay /\ listed = (1 .. FirstDay - 1) \ Weekend
  /\ rows = {} /\ sparse = FALSE
  /\ files = [p \in Periods |-> [days |-> listed, end |-> FirstDay - 1]]
  /\ manifest = [end |-> FirstDay - 1, periods |-> Periods]
  /\ build = NoBuild

Tomorrow == today < LastDay /\ today' = today + 1 /\ UNCHANGED <<listed, rows, sparse, files, manifest, build>>

(* The source lists the bar of a day, perhaps never.  Bound: at most a day *)
(* late.                                                                   *)
List(d) ==
  /\ d \in {today - 1, today} \ (listed \cup Weekend)
  /\ listed' = listed \cup {d}
  /\ UNCHANGED <<today, rows, sparse, files, manifest, build>>

(* _find_parquet_cache(): the end of the request against the manifest.     *)
UsesParquet(p, r) == r.to <= manifest.end /\ Within(files[p].days, r) # {}

(* query_kline()                                                           *)
Cached(r) == Within(IF UsesParquet(Daily, r) THEN files[Daily].days ELSE rows, r)

HasWeekday(after, upTo) == \E d \in after + 1 .. upTo : d \notin Weekend

Length(r) == r.to - r.from
Expected(r) == Max({1, (Length(r) * BarsPerYear) \div DaysPerYear})

(* _is_cache_complete()                                                    *)
IsCacheComplete(r) ==
  LET bars == Cached(r) IN
  /\ bars # {}
  /\ Min(bars) - r.from <= Slack
  /\ r.to - Max(bars) <= Slack
  /\ IF Length(r) <= ShortRange
     THEN ~HasWeekday(Max(bars), r.to) /\ ~HasWeekday(r.from, Min(bars))
     ELSE sparse \/ 4 * Cardinality(bars) >= 3 * Expected(r)

(* What a provider can come back with: an error or bars that are invalid,  *)
(* everything, the first bar of the range only, or a bar of tomorrow too.  *)
Answers == {"none", "all", "few", "future"}
Bars(a, r) ==
  CASE a = "none" -> {}
    [] a = "all" -> Within(listed, r)
    [] a = "few" -> {d \in Within(listed, r) : \A e \in Within(listed, r) : d <= e}
    [] a = "future" -> Within(listed, r) \cup {today + 1}

(* Bars of days to come are dropped.                                       *)
PastBars(a, r) == {d \in Bars(a, r) : d <= today}

(* A long range with less than half of what is expected is partial; it is  *)
(* enough only of the last provider.                                       *)
IsLong(r) == Length(r) > SparseRange
IsPartial(bars, r) == IsLong(r) /\ 2 * Cardinality(bars) < Expected(r)
IsEnough(bars, r, isLast) == bars # {} /\ (isLast \/ ~IsPartial(bars, r))

(* The providers in turn, up to one that is enough; what each of them has  *)
(* is saved.                                                               *)
Fetch(r, answers) ==
  LET asked == {i \in 1 .. Providers : \A j \in 1 .. i - 1 : ~IsEnough(answers[j], r, FALSE)} IN
  /\ rows' = rows \cup UNION {answers[i] : i \in asked}
  /\ sparse' = (sparse \/ \E i \in asked : /\ IsLong(r) /\ IsEnough(answers[i], r, i = Providers)
                                         /\ 4 * Cardinality(answers[i]) < 3 * Expected(r))
  /\ UNCHANGED <<today, listed, files, manifest, build>>

(* get_kline(): the providers when the cache does not do.                  *)
GetKline(r) ==
  /\ ~IsCacheComplete(r)
  /\ \E answers \in [1 .. Providers -> {PastBars(a, r) : a \in Answers}] : Fetch(r, answers)

(* A day later the mark of a sparse symbol is taken off.                   *)
ForgetSparse == sparse /\ sparse' = FALSE /\ UNCHANGED <<today, listed, rows, files, manifest, build>>

(* The script downloads up to the end it is given, for some periods; when  *)
(* it is given none, up to yesterday.  Nothing in it compares the end with *)
(* the last one: that they do not go back is how it is used.  It has to    *)
(* have bars and to pass the gates before anything is written.             *)
Download(periods, end) ==
  LET days == Within(listed, [from |-> 1, to |-> end]) IN
  /\ build = NoBuild /\ periods # {} /\ days # {}
  /\ AnyEnd \/ end \in manifest.end .. today
  /\ build' = [end |-> end, reach |-> IF end <= today THEN end ELSE today,
               periods |-> periods, left |-> periods, days |-> days]
  /\ UNCHANGED <<today, listed, rows, sparse, files, manifest>>

(* The files one by one, the daily bars first.                             *)
WriteParquet(p) ==
  /\ p \in build.left /\ (Daily \in build.left => p = Daily)
  /\ files' = [files EXCEPT ![p] = [days |-> build.days, end |-> build.reach]]
  /\ build' = [build EXCEPT !.left = @ \ {p}]
  /\ UNCHANGED <<today, listed, rows, sparse, manifest>>

(* Mutant: the manifest is written as soon as the gates are passed.        *)
FilesMayBeLeft == build # NoBuild

ManifestIsDue == build # NoBuild /\ build.left = {}

WriteManifest ==
  /\ ManifestIsDue
  /\ manifest' = [end |-> build.end, periods |-> build.periods]
  /\ build' = NoBuild
  /\ UNCHANGED <<today, listed, rows, sparse, files>>

(* The disk or the machine ends the script between two writes.             *)
BuildFails == build # NoBuild /\ build' = NoBuild /\ UNCHANGED <<today, listed, rows, sparse, files, manifest>>

CacheNext ==
  \/ Tomorrow \/ ForgetSparse \/ WriteManifest \/ BuildFails
  \/ \E d \in Days : List(d)
  \/ \E r \in Ranges : r.to <= today /\ GetKline(r)
  \/ \E periods \in SUBSET Periods, end \in Days : Download(periods, end)
  \/ \E p \in Periods : WriteParquet(p)

CacheSpec == CacheInit /\ [][CacheNext]_cacheVars

(* A request is never served from a file that ends before the request,     *)
(* also between the writes of a build and after one that failed half way,  *)
(* as long as the manifest names the file and builds are given ends that   *)
(* neither go back nor lie ahead; and what the database serves instead are *)
(* bars the source has, none of them of the future.                        *)
FilesReachTheRequest ==
  /\ \A p \in manifest.periods, r \in Ranges : UsesParquet(p, r) => r.to <= files[p].end
  /\ rows \subseteq listed
==============================================================================
