----------------------------- MODULE DualStack -----------------------------
(***************************************************************************)
(* DnsDualStackIpSelectionMiddleware::handle (dns_mw_dualstack.rs) between *)
(* the answer cache above and the name server queries below.  A query for  *)
(* either family looks up both, lets the addresses of both race and may    *)
(* empty the slower family; the cache stores both replies.  A client that  *)
(* wants a connection asks for A and AAAA at once, so that two handlers    *)
(* run with their own lookups, their own races and crossing stores.        *)
(***************************************************************************)
EXTENDS Integers

CONSTANTS
  DualReplies,   \* what the middlewares below return, as members of Lookups
  Modes,         \* the number of speed-check modes to try in turn
  MinTtl         \* rr-ttl-min

Families == {"A", "AAAA"}
Other(f) == CHOOSE o \in Families : o # f

\* kind: addresses, an empty reply with a SOA record, one without any record, or
\* a failed lookup.  ttl is the least TTL of all records, 0 if there is none.
Lookups == [kind : {"ips", "soa", "bare", "err"}, ttl : Nat]
Unknown == [kind |-> "unknown", ttl |-> 0]
Broken == [kind |-> "err", ttl |-> 0]

ASSUME DualAssumption ==
  /\ DualReplies \subseteq Lookups /\ Broken \in DualReplies
  /\ \A r \in DualReplies : r.ttl = 0 <=> r.kind \in {"bare", "err"}
  /\ Modes \in Nat \ {0} /\ MinTtl \in Nat \ {0}

VARIABLES
  setup,    \* select: enabled and not speed_check_off; force: allow_force_aaaa;
            \* soa: force-AAAA-SOA
  step,     \* where the handler for each family is
  got,      \* what the lookups of each handler returned
  heat,     \* which_faster: the mode under way and the family that came first
  hit,      \* history: the families with an address that answered a probe
  emptied,  \* aaaa_blocked, a_blocked
  reply,    \* what each handler returned
  stored    \* the cache entries of the two families

dualVars == <<setup, step, got, heat, hit, emptied, reply, stored>>

NoHeat == [mode |-> 1, first |-> "none"]

DualInit ==
  /\ setup \in [select : BOOLEAN, force : BOOLEAN, soa : BOOLEAN]
  /\ step = [h \in Families |-> "idle"]
  /\ got = [h \in Families |-> [f \in Families |-> Unknown]]
  /\ heat = [h \in Families |-> NoHeat]
  /\ hit = [h \in Families |-> {}]
  /\ emptied = [h \in Families |-> {}]
  /\ reply = [h \in Families |-> Unknown]
  /\ stored = [f \in Families |-> Unknown]

Goes(h, s) == step' = [step EXCEPT ![h] = s]

----------------------------------------------------------------------------
(* Both lookups.                                                           *)

\* A query enters; force-AAAA-SOA makes an AAAA query bypass the middleware.
Enter(h) ==
  /\ step[h] = "idle"
  /\ Goes(h, IF setup.soa /\ h = "AAAA" THEN "bypass" ELSE "join")
  /\ UNCHANGED <<setup, got, heat, hit, emptied, reply, stored>>

\* The address rules answer an AAAA query with a SOA record under that switch.
Bypass ==
  /\ step["AAAA"] = "bypass"
  /\ \E r \in DualReplies :
       /\ r.kind = "soa"
       /\ reply' = [reply EXCEPT !["AAAA"] = r]
       /\ stored' = [stored EXCEPT !["AAAA"] = r]
  /\ Goes("AAAA", "done")
  /\ UNCHANGED <<setup, got, heat, hit, emptied>>

\* One of the two joined lookups ends.
Found(h, f, r) ==
  /\ step[h] = "join" /\ got[h][f] = Unknown
  /\ setup.soa /\ f = "AAAA" => r.kind = "soa"
  /\ got' = [got EXCEPT ![h][f] = r]
  /\ UNCHANGED <<setup, step, heat, hit, emptied, reply, stored>>

\* Mutant: one failed lookup fails the query.
TolerableNone(own, sibling) == own.kind # "err" /\ sibling.kind # "err"

\* One failure is tolerated if the query's own lookup succeeded or the other
\* one found addresses.
Tolerable(own, sibling) == own.kind # "err" \/ sibling.kind = "ips"

Join2(h) ==
  /\ step[h] = "join" /\ \A f \in Families : got[h][f] # Unknown
  /\ IF Tolerable(got[h][h], got[h][Other(h)])
     THEN /\ Goes(h, IF setup.select THEN "race" ELSE "own") /\ UNCHANGED reply
     ELSE /\ Goes(h, "done") /\ reply' = [reply EXCEPT ![h] = Broken]
  /\ UNCHANGED <<setup, got, heat, hit, emptied, stored>>

----------------------------------------------------------------------------
(* which_faster: one mode after the other, both families at once.          *)

\* Mutant: the winner is emptied.
LoserSwapped(w) == IF w = "A" \/ setup.force THEN {w} ELSE {}

\* Which family a win of w empties.
Loser(w) == IF w = "A" \/ setup.force THEN {Other(w)} ELSE {}

Won(h, w) ==
  /\ emptied' = [emptied EXCEPT ![h] = Loser(w)]
  /\ Goes(h, "own") /\ UNCHANGED heat

Tie(h) == Goes(h, "own") /\ UNCHANGED <<heat, emptied>>

\* The test of family f in the current mode ends; it can only succeed if there
\* are addresses to test.
Probed(h, f, ok) ==
  /\ step[h] = "race" /\ heat[h].first # f
  /\ ok => got[h][f].kind = "ips"
  /\ hit' = [hit EXCEPT ![h] = IF ok THEN @ \cup {f} ELSE @]
  /\ LET rival == heat[h].first IN
     IF rival = "none" THEN
       /\ heat' = [heat EXCEPT ![h].first = f]
       /\ UNCHANGED <<step, emptied>>
     ELSE CASE rival \in hit[h] /\ ok -> Tie(h)
            [] rival \in hit[h] /\ ~ok -> Won(h, rival)
            [] rival \notin hit[h] /\ ok -> Won(h, f)
            [] rival \notin hit[h] /\ ~ok /\ heat[h].mode = Modes -> Tie(h)
            [] OTHER -> /\ heat' = [heat EXCEPT ![h] = [mode |-> @.mode + 1, first |-> "none"]]
                        /\ UNCHANGED <<step, emptied>>
  /\ UNCHANGED <<setup, got, reply, stored>>

\* The first one answered and the threshold passes without the other.
GraceOver(h) ==
  /\ step[h] = "race" /\ heat[h].first \in hit[h]
  /\ Won(h, heat[h].first)
  /\ UNCHANGED <<setup, got, hit, reply, stored>>

----------------------------------------------------------------------------
(* Washing the replies and storing them.                                   *)

\* Mutant: the replies are aligned to the longer TTL.
AlignedMax(a, b) == IF a = 0 /\ b = 0 THEN MinTtl ELSE IF a > b THEN a ELSE b

\* aligned_ttl_for; 0 is a reply without records.
Aligned(a, b) ==
  IF a = 0 /\ b = 0 THEN MinTtl
  ELSE IF a = 0 THEN b ELSE IF b = 0 THEN a ELSE IF a < b THEN a ELSE b

\* process_resp: what is left of family f's reply.
Washed(h, f) ==
  LET r == got[h][f] IN
  [kind |-> IF f \notin emptied[h] /\ r.kind = "ips" THEN "ips" ELSE "soa",
   ttl |-> Aligned(got[h]["A"].ttl, got[h]["AAAA"].ttl)]

\* insert_full_response of the query's own reply, then of extra_cache_records.
KeepOwn(h) ==
  /\ step[h] = "own"
  /\ stored' = [stored EXCEPT ![h] = Washed(h, h)]
  /\ Goes(h, "sibling")
  /\ UNCHANGED <<setup, got, heat, hit, emptied, reply>>

KeepSibling(h) ==
  /\ step[h] = "sibling"
  /\ stored' = [stored EXCEPT ![Other(h)] = Washed(h, Other(h))]
  /\ reply' = [reply EXCEPT ![h] = Washed(h, h)]
  /\ Goes(h, "done")
  /\ UNCHANGED <<setup, got, heat, hit, emptied>>

----------------------------------------------------------------------------

DualNext ==
  \/ \E h \in Families :
       \/ Enter(h)
       \/ \E f \in Families :
            \/ \E r \in DualReplies : Found(h, f, r)
            \/ \E ok \in BOOLEAN : Probed(h, f, ok)
       \/ Join2(h)
       \/ GraceOver(h)
       \/ KeepOwn(h)
       \/ KeepSibling(h)
  \/ Bypass

DualSpec == DualInit /\ [][DualNext]_dualVars

----------------------------------------------------------------------------
(* Properties.                                                             *)

\* A family that has addresses is emptied for cause only: in the same handler
\* an address of the other family answered a probe and none of its own did,
\* in whichever order the probes and the timer ended; AAAA can empty A only
\* where force-AAAA is allowed.
EmptiedForCause ==
  \A h \in Families : \A f \in emptied[h] :
    /\ Other(f) \in hit[h] /\ f \notin hit[h]
    /\ f = "A" => setup.force

\* One lookup failed, and the other found no address.
OneDeadOneEmpty(h) ==
  \E f \in Families : got[h][f].kind = "err" /\ got[h][Other(f)].kind # "ips"

\* No answer is lost on the way through the middleware: a handler whose own
\* lookup found addresses replies with them unless the other family won, also
\* when the other lookup failed, and one whose own lookup found none says so
\* with a SOA record.  Nothing is said of a lookup that failed beside one that
\* found no address: the comments in handle want the error returned, the arm
\* (Ok(this), Err(_)) tolerates it.
OwnAnswerSurvives ==
  \A h \in Families :
    step[h] = "done" /\ got[h][h].kind # "err" /\ got[h][h] # Unknown /\ ~OneDeadOneEmpty(h) =>
      reply[h].kind = IF got[h][h].kind = "ips" /\ h \notin emptied[h] THEN "ips" ELSE "soa"

\* No record is stored for longer than an upstream said for it, although either
\* handler stores both families and overwrites what the other one has stored:
\* addresses in the cache never outlive the reply of that family that one of the
\* two handlers was given.
NeverOutlives ==
  \A f \in Families : stored[f].kind = "ips" =>
    \E h \in Families : got[h][f].kind = "ips" /\ stored[f].ttl <= got[h][f].ttl
=============================================================================
