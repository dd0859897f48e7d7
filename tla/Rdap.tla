-------------------------------- MODULE Rdap --------------------------------
(***************************************************************************)
(* internal/ipinfo/rdap.go: what becomes of an answer, of an RDAP server   *)
(* or of the whois program.  Dates, names and addresses are opaque; "" is  *)
(* a field that is not there.                                              *)
(***************************************************************************)
EXTENDS Integers, Sequences, SequencesExt

CONSTANTS
  Days,       \* time stamps that shortDate cuts, and their days
  Registries  \* whois servers of the five registries, and their names

MaxEntities == 4
MaxRemarks  == 3

FirstFew(n, s) == SubSeq(s, 1, IF Len(s) < n THEN Len(s) ELSE n)

FirstOr(s, none) == IF s = <<>> THEN none ELSE s[1]
LastOr(s, none)  == IF s = <<>> THEN none ELSE s[Len(s)]

ShortDate(v) == IF v \in DOMAIN Days THEN Days[v] ELSE v

(* The dates of the events of the given kinds, in the order of the answer. *)
Dates(events, kinds) ==
  LET these == SelectSeq(events, LAMBDA e : e.action \in kinds) IN
    [k \in DOMAIN these |-> ShortDate(these[k].date)]

(* RIPE's objects that only say who may edit the record. *)
IsMaintainer(e) == e.mnt /\ e.name \in {"", e.handle}

(* The participants of the record itself: no maintainer, nobody twice, and *)
(* nobody without a name and a handle.                                     *)
Participants(entities) ==
  LET worth == SelectSeq(entities, LAMBDA e : e.depth = 0 /\ ~IsMaintainer(e)
                                                /\ ~(e.name = "" /\ e.handle = ""))
      Known(acc, e) == \E k \in DOMAIN acc : acc[k].handle = e.handle /\ acc[k].name = e.name IN
    FoldLeft(LAMBDA acc, e : IF Known(acc, e) THEN acc ELSE Append(acc, e), <<>>, worth)

(* findAbuse: the first contact for abuse that can be reached, nested ones *)
(* included; an answer lists its entities in the order of that walk.       *)
AbuseContact(entities) ==
  FirstOr(SelectSeq(entities, LAMBDA e : "abuse" \in e.roles /\ e.contact), [name |-> "none"]).name

(* An unknown server stands for itself, and for none the host that answered. *)
Registry(p) ==
  IF p.port43 = "" THEN p.host
  ELSE IF p.port43 \in DOMAIN Registries THEN Registries[p.port43] ELSE p.port43

(* fetchRDAP, for an answer with status 200 that is not empty. *)
Record(p, ip) ==
  [query      |-> ip,
   registered |-> LastOr(Dates(p.events, {"registration"}), ""),
   updated    |-> FirstOr(Dates(p.events, {"last changed", "last update of rdap database"}), ""),
   registry   |-> Registry(p),
   remarks    |-> Len(FirstFew(MaxRemarks, SelectSeq(p.remarks, LAMBDA r : r # ""))),
   entities   |-> LET parts == FirstFew(MaxEntities, Participants(p.entities)) IN
                    [k \in DOMAIN parts |-> parts[k].name],
   abuse      |-> AbuseContact(p.entities)]

(* The value of the first line with one of these keys. *)
Field(lines, keys) ==
  FirstOr(SelectSeq(lines, LAMBDA l : l.key \in keys /\ l.value # ""), [value |-> ""]).value

OrgKeys == {"org-name", "orgname", "organization", "owner", "descr"}

(* whoisFallback: the first value of every field. *)
WhoisRecord(lines, ip) ==
  [query      |-> ip,
   registered |-> ShortDate(Field(lines, {"created", "regdate"})),
   updated    |-> ShortDate(Field(lines, {"last-modified", "updated"})),
   registry   |-> "",
   remarks    |-> 0,
   entities   |-> SelectSeq(<<Field(lines, OrgKeys)>>, LAMBDA v : v # ""),
   abuse      |-> LET a == Field(lines, {"abuse-mailbox", "orgabuseemail"}) IN
                    IF a = "" THEN "none" ELSE a]

(* A record that names neither the network nor its owner is none. *)
WhoisUsable(lines) == Field(lines, {"netname"} \cup OrgKeys) # ""

=============================================================================
