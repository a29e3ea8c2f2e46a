--------------------------- MODULE RouterCommands ---------------------------
(***************************************************************************)
(* The slash commands of the REPL that read the router (commands.ts, and   *)
(* the model pickers of index.ts).  The lists of providers, combos and     *)
(* keys are cached for a while, each by itself; the list of models is put  *)
(* together from the catalog and from the cached list of providers, and is *)
(* cached again.  The REPL runs one command at a time, but a command asks  *)
(* for several lists at once, which share the cache.                       *)
(*                                                                         *)
(* A list is the version of the table that it was read from.  Requests     *)
(* have no limit of time here; against the caches' it is taken as short,   *)
(* so that the clock ticks between commands, and while a picker is open.   *)
(***************************************************************************)
EXTENDS RouterData

CONSTANTS
  Others,  \* the lists besides the providers: combos, keys
  TTL      \* ROUTER_CONFIG_CACHE_TTL_MS, in ticks

ASSUME CommandAssumption ==
  /\ TTL \in Nat \ {0}
  /\ Others \cap {"providers", "catalog", "health", "none", "picking", "dead"} = {}

VARIABLES
  cmd,     \* the command under way, "none", "picking", or "dead"
  asks,    \* asks[w]: how far what the command wants has come
  native,  \* native[l]: the cached answer of a list
  models,  \* the cached list of models
  gone,    \* gone[v]: the ticks since the table is no longer v (history)
  since    \* the table when the cache was last cleared (history)

commandVars == <<cmd, asks, native, models, gone, since>>

Lists == {"providers"} \cup Others
Wanted == Lists \cup {"catalog", "health"}

NoEntry == [is |-> None, conns |-> None, left |-> 0]
NoAsk == [at |-> "no", got |-> None, conns |-> None]
EmptyCache == [l \in Lists |-> NoEntry]

InitCommands ==
  /\ cmd = "none" /\ asks = [w \in Wanted |-> NoAsk]
  /\ native = EmptyCache /\ models = NoEntry
  /\ gone = [v \in Versions |-> 0] /\ since = 0

-----------------------------------------------------------------------------
(* What each command asks for at once; the models are asked for as the     *)
(* catalog, and joined with the connections after it.                      *)
Pickers  == {"/models", "/switch"}
Again    == "/doctor, the keys again"
Uncached == {"/status", "/debug-auth", "/doctor", Again}
Commands ==
  Pickers \cup Lists \cup (Uncached \ {Again}) \cup {"/default-model", "/router", "/refresh"}

Wants(c) ==
  CASE c \in Lists       -> {c}
    [] c = "/router"     -> Lists \cup {"catalog"}
    [] c = "/refresh"    -> {"providers", "catalog"}
    [] c = "/status"     -> {"health"}
    [] c = "/debug-auth" -> {"health", "providers"}
    [] c = "/doctor"     -> Lists \cup {"catalog"}
    [] OTHER             -> {"catalog"}

(* A mutation of IsFresh: what was cached once is used. *)
IsFreshForEver(entry) == entry.is # None

(* getFreshCached. *)
IsFresh(entry) == entry.left > 0

(* setCached. *)
Cached(is, conns) == [is |-> is, conns |-> conns, left |-> TTL]

Sent == [NoAsk EXCEPT !.at = "sent"]
Hit(entry) == [at |-> "ok", got |-> entry.is, conns |-> entry.conns]

(* The first steps of fetchCachedNativeJSON and of fetchModels. *)
Fetch(entry) == IF IsFresh(entry) THEN Hit(entry) ELSE Sent

Run(c) ==
  LET lists == IF c = "/refresh" THEN EmptyCache ELSE native
      all   == IF c = "/refresh" THEN NoEntry ELSE models
      First(w) == CASE w \notin Wants(c)                 -> NoAsk
                    [] c \in Uncached \/ w = "health"    -> Sent
                    [] w = "catalog"                     -> Fetch(all)
                    [] OTHER                             -> Fetch(lists[w])
  IN
  /\ cmd = "none" /\ cmd' = c
  /\ asks' = [w \in Wanted |-> First(w)]
  /\ native' = lists /\ models' = all
  /\ since' = IF c = "/refresh" THEN table ELSE since
  /\ UNCHANGED <<dataVars, gone>>

(* The daemon reads its table: for a list or the catalog, or for the       *)
(* connections that the catalog is joined with.                            *)
Serving(w) ==
  /\ up /\ cmd \notin Uncached
  /\ \/ /\ asks[w].at = "sent"
        /\ asks' = [asks EXCEPT ![w].at = "read", ![w].got = table]
     \/ /\ asks[w].at = "joining"
        /\ asks' = [asks EXCEPT ![w].at = "joined", ![w].conns = table]
  /\ UNCHANGED <<dataVars, cmd, native, models, gone, since>>

(* A request that is not cached is over: what came of it is only shown. *)
Settled(w) ==
  /\ cmd \in Uncached /\ asks[w].at = "sent"
  /\ asks' = [asks EXCEPT ![w].at = "ok"]
  /\ UNCHANGED <<dataVars, cmd, native, models, gone, since>>

(* A list arrives, and is cached under the key it was asked for. *)
Listed(l) ==
  /\ asks[l].at = "read"
  /\ asks' = [asks EXCEPT ![l].at = "ok"]
  /\ native' = [native EXCEPT ![l] = Cached(asks[l].got, None)]
  /\ UNCHANGED <<dataVars, cmd, models, gone, since>>

(* The catalog arrives: the connections come from the cache, if there. *)
Catalogued ==
  LET ask == asks["catalog"]  conns == native["providers"] IN
  /\ ask.at = "read"
  /\ IF IsFresh(conns)
     THEN /\ models' = Cached(ask.got, conns.is)
          /\ asks' = [asks EXCEPT !["catalog"] = Hit(models')]
     ELSE asks' = [asks EXCEPT !["catalog"].at = "joining"] /\ UNCHANGED models
  /\ UNCHANGED <<dataVars, cmd, native, gone, since>>

(* The connections arrive, and are cached as the list of providers. *)
Joined ==
  LET ask == asks["catalog"] IN
  /\ ask.at = "joined"
  /\ asks' = [asks EXCEPT !["catalog"].at = "ok"]
  /\ native' = [native EXCEPT !["providers"] = Cached(ask.conns, None)]
  /\ models' = Cached(ask.got, ask.conns)
  /\ UNCHANGED <<dataVars, cmd, gone, since>>

(* A request fails.  The catalog alone will do, for as long. *)
Failed(w) ==
  /\ ~up /\ cmd \notin Uncached /\ asks[w].at \in {"sent", "read", "joining", "joined"}
  /\ IF asks[w].at \in {"joining", "joined"}
     THEN /\ models' = Cached(asks[w].got, None)
          /\ asks' = [asks EXCEPT ![w] = Hit(models')]
     ELSE asks' = [asks EXCEPT ![w] = [NoAsk EXCEPT !.at = "failed"]] /\ UNCHANGED models
  /\ UNCHANGED <<dataVars, cmd, native, gone, since>>

-----------------------------------------------------------------------------
(* The command has all its answers, and shows them. *)
Answered == cmd \notin {"none", "picking", "dead"}
              /\ \A w \in Wanted : asks[w].at \in {"no", "ok", "failed"}

(* /doctor looks for a flag in the list of keys that no list has, and so   *)
(* asks for it again; the first answer stands if that fails.               *)
AskAgain ==
  /\ Answered /\ cmd = "/doctor" /\ cmd' = Again
  /\ \E l \in Others : asks' = [asks EXCEPT ![l].at = "sent"]
  /\ UNCHANGED <<dataVars, native, models, gone, since>>

(* Nothing to pick from, a picker, or a failure, which a command reports.  *)
(* A picker does not: it rejects the chain of inputs, and nobody handles   *)
(* that, so the process ends.                                              *)
Shows(where) ==
  /\ Answered /\ cmd # "/doctor"
  /\ where \in IF cmd \notin Pickers THEN {"none"}
               ELSE IF asks["catalog"].at = "failed" THEN {"dead"} ELSE {"none", "picking"}
  /\ cmd' = where
  /\ asks' = [w \in Wanted |-> NoAsk]
  /\ UNCHANGED <<dataVars, native, models, gone, since>>

(* A model is picked, or none. *)
PickOver ==
  /\ cmd = "picking" /\ cmd' = "none"
  /\ UNCHANGED <<dataVars, asks, native, models, gone, since>>

(* /reload. *)
Reload ==
  /\ cmd = "none"
  /\ native' = EmptyCache /\ models' = NoEntry /\ since' = table
  /\ UNCHANGED <<dataVars, cmd, asks, gone>>

(* /setup finds another key than the session's, under which nothing is     *)
(* cached.  The list of models has no key.                                 *)
Setup ==
  /\ cmd = "none" /\ up
  /\ native' = EmptyCache
  /\ UNCHANGED <<dataVars, cmd, asks, models, gone, since>>

Tick ==
  LET Older(entry) == IF entry.left > 0 THEN [entry EXCEPT !.left = @ - 1] ELSE entry IN
  /\ cmd \in {"none", "picking"}
  /\ native' = [l \in Lists |-> Older(native[l])] /\ models' = Older(models)
  /\ gone' = [v \in Versions |-> IF v < table /\ gone[v] < 2 * TTL THEN gone[v] + 1 ELSE gone[v]]
  /\ UNCHANGED <<dataVars, cmd, asks, since>>

CommandsNext ==
  \/ \E c \in Commands : Run(c)
  \/ \E w \in Wanted : Serving(w) \/ Settled(w) \/ Failed(w)
  \/ \E l \in Lists : Listed(l)
  \/ Catalogued \/ Joined
  \/ AskAgain \/ \E where \in {"none", "picking", "dead"} : Shows(where)
  \/ PickOver \/ Reload \/ Setup \/ Tick

-----------------------------------------------------------------------------
(* Properties. *)

Entries == [is : Versions \cup {None}, conns : Versions \cup {None}, left : 0..TTL]

(* The variables of the commands keep their types. *)
CommandsTypeOK ==
  /\ cmd \in Commands \cup {"none", "picking", "dead", Again}
  /\ \A l \in Lists : native[l] \in Entries
  /\ models \in Entries /\ since \in Versions

(* v was the table less than n ticks ago, and no earlier than when the     *)
(* user last had the cache cleared.                                        *)
Recent(v, n) == v = None \/ (gone[v] < n /\ v >= since)

(* What a command shows is less old than the time that caches keep it: a   *)
(* list once that time, the connections among the models twice, since they *)
(* went through two caches.  After /refresh or /reload nothing of before   *)
(* is shown.                                                               *)
ListingsAreRecent ==
  [][\A where \in {"none", "picking", "dead"} : Shows(where) =>
       \A w \in Wanted : Recent(asks[w].got, TTL) /\ Recent(asks[w].conns, 2 * TTL)]_commandVars
=============================================================================
