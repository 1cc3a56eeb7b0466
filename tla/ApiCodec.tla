------------------------------ MODULE ApiCodec ------------------------------
(***************************************************************************)
(* The messages of the binary API.  A message is a sequence of sections, a *)
(* section a tag, a length and a sequence of fields, a field a tag, a      *)
(* length and a value.  The server decodes a request section by section    *)
(* into the constraint the core works on, and encodes the core's result.   *)
(* Strings are opaque; integers have their width.                          *)
(***************************************************************************)
EXTENDS Integers, Sequences, FiniteSets, SequencesExt

CONSTANTS Byte,       \* values of a byte
          IntBytes,   \* bytes of an int
          LongBytes,  \* bytes of a u_int64_t
          Exchanges   \* pairs of a request (see Encode) and its result (see EncodeReply)

ASSUME WidthAssumption == Byte \in Nat /\ Byte % 2 = 0 /\ Byte > 0 /\ IntBytes < LongBytes

-----------------------------------------------------------------------------
(* Encode_Pri_Type and Decode_Pri_Type.                                    *)

Pow(n) == Byte ^ n

\* The bytes two's complement needs for a value of the given width.
Size(v, width) ==
  CHOOSE n \in 1 .. width :
    /\ n = width \/ v < Pow(n) \div 2 \/ v >= Pow(width) - Pow(n) \div 2
    /\ \A m \in 1 .. n - 1 : ~(v < Pow(m) \div 2 \/ v >= Pow(width) - Pow(m) \div 2)

Number(tag, v, width) ==
  [tag |-> tag, size |-> Size(v, width), value |-> v % Pow(Size(v, width))]

\* encodeInteger takes an int: what is wider is cut.
Integer(tag, v) == Number(tag, v % Pow(IntBytes), IntBytes)

Long(tag, v) == Number(tag, v, LongBytes)

Text(tag, s) == [tag |-> tag, size |-> 1, value |-> s]

Decoded_Unsigned(f, width) == f.value % Pow(width)

\* A value whose first bit is set is negative, whatever it was when it was encoded.
Decoded(f, width) ==
  IF f.value >= Pow(f.size) \div 2 THEN (Pow(width) + f.value - Pow(f.size)) % Pow(width)
  ELSE f.value

DecodeInt(f) == Decoded(f, IntBytes)
DecodeLong(f) == Decoded(f, LongBytes)

\* The bytes of a length field (short below half a byte's values), and of all fields.
LengthSize(n) ==
  IF n < Byte \div 2 THEN 1
  ELSE 1 + CHOOSE b \in 1 .. 3 : n < Pow(b) /\ (b = 1 \/ n >= Pow(b - 1))

FieldSize(f) == 1 + LengthSize(f.size) + f.size

TotalSize(fields) ==
  LET sum[i \in 0 .. Len(fields)] == IF i = 0 THEN 0 ELSE sum[i - 1] + FieldSize(fields[i])
  IN sum[Len(fields)]

Section(tag, fields) == [tag |-> tag, length |-> TotalSize(fields), fields |-> fields]

-----------------------------------------------------------------------------
(* Requests.  A value that is "" or 0 is not encoded.                      *)

NumberTags == {"STARTTIME", "ENDTIME", "SRCIPPORT", "DESTIPPORT", "MPLS_BURSTLIMIT"}
CommonTags == <<"GRI", "STARTTIME", "ENDTIME", "BANDWIDTH", "SOURCE", "DESTINATION",
                "PATHSETUPMODEL", "PATHTYPE", "LAYER">>
VlanTags == <<"SRCVLAN", "DESTVLAN">>
IpTags == <<"SRCIPPORT", "DESTIPPORT", "L3_PROTOCOL", "L3_DSCP", "MPLS_BURSTLIMIT",
            "MPLS_LSPCLASS">>
UserTags == ToSet(CommonTags \o VlanTags \o IpTags)

AllNumbers == NumberTags \cup {"BANDWIDTH"}

Default(tag) == IF tag \in AllNumbers THEN 0 ELSE ""

\* Apireqmsg_encoder::test_encode_msg; u is a function on UserTags.
UserFields(u) ==
  LET tags == CommonTags \o CASE u["LAYER"] = "2" -> VlanTags [] u["LAYER"] = "3" -> IpTags
      given == SelectSeq(tags, LAMBDA t : u[t] # Default(t))
  IN [i \in DOMAIN given |->
        IF given[i] \in AllNumbers THEN Integer(given[i], u[given[i]])
        ELSE Text(given[i], u[given[i]])]

\* A request for a path has the section of the hops as well.  A hop has a link and VLANs.
HopFields(hop) ==
  <<Text("LINK_ID", hop.link)>>
    \o (IF hop.vlans = "" THEN <<>> ELSE <<Text("VLANRANGEAVAI", hop.vlans)>>)
    \o (IF hop.capacity = 0 THEN <<>> ELSE <<Long("CAPACITY", hop.capacity)>>)
    \o <<Integer("HOP_END_TAG", 0)>>

PathFields(path) ==
  <<Text("PATH_ID", path.id)>>
    \o (IF path.lifetimes = <<>> THEN <<>>
        ELSE <<Integer("LIFETIME_NUM", Len(path.lifetimes))>>
               \o FlattenSeq([i \in DOMAIN path.lifetimes |->
                    <<Integer("LIFETIME_START", path.lifetimes[i][1]),
                      Integer("LIFETIME_END", path.lifetimes[i][2]),
                      Integer("LIFETIME_DUR", path.lifetimes[i][3])>>]))
    \o (IF path.maximum = 0 THEN <<>> ELSE <<Long("MAXRESVCAPACITY", path.maximum)>>)
    \o <<Integer("PATH_LENGTH", Len(path.hops))>>
    \o FlattenSeq([i \in DOMAIN path.hops |-> HopFields(path.hops[i])])

\* A reserved path is its id and its hops, a co-scheduling request a field for each tag.
CoscheduleNumbers == {"COSCHREQ_STARTTIME", "COSCHREQ_ENDTIME", "COSCHREQ_MAXNUMOFALTPATHS",
                      "COSCHREQ_MAXDURATION", "COSCHREQ_DATASIZEBYTES"}
CoscheduleLongs == {"COSCHREQ_MINBANDWIDTH", "COSCHREQ_MAXBANDWIDTH"}
CoscheduleTags == CoscheduleNumbers \cup CoscheduleLongs

ReservedFields(path) ==
  <<Text("PATH_ID", path.id), Integer("PATH_LENGTH", Len(path.hops))>>
    \o FlattenSeq([i \in DOMAIN path.hops |-> HopFields(path.hops[i])])

CoscheduleFields(c) ==
  LET tags == SetToSeq(CoscheduleTags)
  IN [i \in DOMAIN tags |-> IF tags[i] \in CoscheduleLongs THEN Long(tags[i], c[tags[i]])
                            ELSE Integer(tags[i], c[tags[i]])]

\* The sections of a request; path, reserved and cosched have one element or none.
Encode(r) ==
  <<Section("USERCONSTRAINT", UserFields(r.user))>>
    \o [i \in DOMAIN r.reserved |-> Section("RESERVEDCONSTRAINT", ReservedFields(r.reserved[i]))]
    \o [i \in DOMAIN r.cosched |-> Section("COSCHEDULEREQ", CoscheduleFields(r.cosched[i]))]
    \o [i \in DOMAIN r.path |-> Section("MULTIPLE_PATH", PathFields(r.path[i]))]

-----------------------------------------------------------------------------
(* Apireqmsg_decoder.  cons is the Apimsg_user_constraint.                 *)

Values(fields, tag) == SelectSeq(fields, LAMBDA f : f.tag = tag)

\* decode_usercons: of a field that comes twice the last is kept.  Only those of the layer
\* are set.
DecodeUserCons(fields) ==
  LET Value(t) ==
        LET found == Values(fields, t)
        IN IF found = <<>> THEN Default(t)
           ELSE CASE t = "BANDWIDTH"   -> DecodeLong(Last(found))
                  [] t \in NumberTags  -> DecodeInt(Last(found))
                  [] OTHER             -> Last(found).value
      set == ToSet(CommonTags) \cup (CASE Value("LAYER") = "2" -> ToSet(VlanTags)
                                       [] Value("LAYER") = "3" -> ToSet(IpTags)
                                       [] OTHER -> {})
  IN [t \in UserTags |-> IF t \in set THEN Value(t) ELSE Default(t)]

\* The fields of each hop, up to the tag that ends it.
Hops(fields) ==
  LET ends == {i \in DOMAIN fields : fields[i].tag = "HOP_END_TAG"}
      Nth(n) == CHOOSE i \in ends : Cardinality({j \in ends : j <= i}) = n
  IN [n \in 1 .. Cardinality(ends) |->
        SubSeq(fields, IF n = 1 THEN 1 ELSE Nth(n - 1) + 1, Nth(n) - 1)]

\* What hop i of n says of the request: the first its source, the last its destination.
OfEnd(user, i, n, first, last, found) ==
  IF found = <<>> THEN user
  ELSE CASE i = 1 -> [user EXCEPT ![first] = Last(found).value]
         [] i # 1 /\ i = n -> [user EXCEPT ![last] = Last(found).value]
         [] OTHER -> user

DecodeHop(user, i, n, fields) ==
  LET linked == OfEnd(user, i, n, "SOURCE", "DESTINATION", Values(fields, "LINK_ID"))
      tagged == OfEnd(linked, i, n, "SRCVLAN", "DESTVLAN", Values(fields, "VLANRANGEAVAI"))
      found == Values(fields, "CAPACITY")
  IN IF found = <<>> THEN tagged
     ELSE [tagged EXCEPT !["BANDWIDTH"] = DecodeLong(Last(found))]

\* The path of a section: its id, its length, and the link of each hop.
HopsOf(fields) ==
  Hops(SubSeq(fields, 1 + SelectInSeq(fields, LAMBDA f : f.tag = "PATH_LENGTH"), Len(fields)))

PathOf(fields) ==
  LET hops == HopsOf(fields)
  IN <<Head(fields).value, [i \in DOMAIN hops |-> Last(Values(hops[i], "LINK_ID")).value]>>

\* decode_opitcons_coschedreq
DecodeCoschedule(fields) ==
  [t \in CoscheduleTags |->
     LET f == Last(Values(fields, t))
     IN IF t \in CoscheduleLongs THEN DecodeLong(f) ELSE DecodeInt(f)]

\* decode_multiple_path: the path's own fields, then hop by hop.
DecodeMultiplePath(old, fields) ==
  LET hops == HopsOf(fields)
      found == Values(fields, "LIFETIME_START")
      maximum == Values(fields, "MAXRESVCAPACITY")
  IN [old EXCEPT
        !.user = FoldLeftDomain(LAMBDA u, i : DecodeHop(u, i, Len(hops), hops[i]), @, hops),
        !.path = PathOf(fields),
        !.maximum = IF maximum = <<>> THEN 0 ELSE DecodeLong(maximum[1]),
        !.schedules = [i \in DOMAIN found |->
                       <<DecodeInt(found[i]), DecodeInt(Values(fields, "LIFETIME_END")[i]),
                         DecodeInt(Values(fields, "LIFETIME_DUR")[i])>>]]

-----------------------------------------------------------------------------
(* Apireplymsg_encoder.                                                    *)

\* The tag sets of a link that are not empty.
TagTexts(iscd, tags) ==
  LET given == SelectSeq(tags, LAMBDA t : t \in iscd.given)
  IN [i \in DOMAIN given |-> Text(given[i], "tags")]

L2scFields(iscd) ==
  <<Text("SWITCHINGCAPTYPE", "l2sc"), Integer("MTU", 0), Integer("VLANTRANSLATION", 0)>>
    \o TagTexts(iscd, <<"VLANRANGEAVAI", "VLANRANGESUGG", "VLANRANGEASSI">>)

TdmFields(iscd) ==
  <<Text("SWITCHINGCAPTYPE", "tdm"), Text("CONCATENATIONTYPE", "sts1")>>
    \o TagTexts(iscd, <<"TIMESLOTAVAI", "TIMESLOTASSI", "TIMESLOTSUGG">>)
    \o <<Integer("TSIENABLED", 0), Integer("VCATENABLED", 0)>>

LscFields(iscd) ==
  <<Text("SWITCHINGCAPTYPE", "lsc"), Text("CHANNELREPRESENTATION", "grid")>>
    \o TagTexts(iscd, <<"WAVELENAVAI", "WAVELENASSI", "WAVELENSUGG">>)
    \o <<Integer("WAVELENGTHCONVERSION", 0)>>

IscdFields(iscd) ==
  (CASE iscd.type = "l2sc" -> L2scFields(iscd)
     [] iscd.type = "tdm"  -> TdmFields(iscd)
     [] iscd.type = "lsc"  -> LscFields(iscd)
     [] OTHER -> <<>>)
    \o <<Text("SWITCHINGENCTYPE", "ethernet"), Long("CAPACITY", 1)>>

IacdFields ==
  <<Text("IACD_START", "IACD_START"), Text("LOWERLAYERSWITCHINGTYPE", "lsc"),
    Text("LOWERLAYERENCODINGTYPE", "lambda"), Text("UPPERLAYERSWITCHINGTYPE", "l2sc"),
    Text("UPPERLAYERENCODINGTYPE", "ethernet"), Long("MAXADAPTBANDWIDTH", 1)>>

LinkFields(link) ==
  <<Text("LINK_ID", link.name)>>
    \o (IF link.remote THEN <<Text("REMOTE_LINK", "urn")>> ELSE <<>>)
    \o <<Long("MAXRESVCAPACITY", 1), Long("MINRESVCAPACITY", 1), Long("GRANULARITY", 1),
         Integer("TE_METRIC", 1)>>
    \o FlattenSeq([i \in DOMAIN link.iscds |-> IscdFields(link.iscds[i])])
    \o (IF link.adapts THEN IacdFields ELSE <<>>)

\* A bandwidth availability graph of n points in time has n - 1 segments.
BagFields_AllPoints(type, id, n) ==
  <<Integer("BAG_SEG_NUM", n), Text("BAG_TYPE", type), Text("BAG_ID", id)>>
    \o FlattenSeq([i \in 1 .. n |->
         (IF i > 1 THEN <<Integer("BAG_ENDTIME", i)>> ELSE <<>>)
           \o (IF i < n THEN <<Long("BAG_BANDWIDTH", 1), Integer("BAG_STARTTIME", i)>>
               ELSE <<>>)])

BagFields(type, id, n) ==
  <<Integer("BAG_SEG_NUM", n - 1), Text("BAG_TYPE", type), Text("BAG_ID", id)>>
    \o FlattenSeq([i \in 1 .. n |->
         (IF i > 1 THEN <<Integer("BAG_ENDTIME", i)>> ELSE <<>>)
           \o (IF i < n THEN <<Long("BAG_BANDWIDTH", 1), Integer("BAG_STARTTIME", i)>>
               ELSE <<>>)])

\* encode_path; a link or path without a graph has bag = 0.
EncodePath(p, id, alternate) ==
  LET bagged == SelectSeq(p.links, LAMBDA l : l.bag > 0)
      bags == IF ~alternate THEN <<>>
              ELSE (IF p.bag > 0 THEN <<BagFields("path", id, p.bag)>> ELSE <<>>)
                     \o [i \in DOMAIN bagged |-> BagFields("hop", bagged[i].name, bagged[i].bag)]
  IN <<Text("PATH_ID", id), Integer("LIFETIME_NUM", p.schedules)>>
       \o FlattenSeq([i \in 1 .. p.schedules |->
            <<Integer("LIFETIME_START", i), Integer("LIFETIME_END", i),
              Integer("LIFETIME_DUR", 1)>>])
       \o <<Integer("PATH_LENGTH", Len(p.links))>>
       \o FlattenSeq([i \in DOMAIN p.links |-> LinkFields(p.links[i])])
       \o <<Integer("BAG_INFO_NUM", Len(bags))>>
       \o FlattenSeq(bags)

\* Paths are numbered from 1, the alternates (the path itself is the first) on their own.
PathId(alternate, n) == IF alternate THEN <<"-alt", n>> ELSE <<"-", n>>

\* test_encode_msg: an error, or the path, the alternates and the flexible alternates.
EncodeReply(res) ==
  IF res.error THEN <<Text("GRI", "g"), Text("COMPUTE_ERROR", "e")>>
  ELSE LET own == Len(res.path)
           Alternates(paths) ==
             FlattenSeq([i \in DOMAIN paths |-> EncodePath(paths[i], PathId(TRUE, own + i), TRUE)])
           Flexible(paths) ==
             FlattenSeq([i \in DOMAIN paths |-> EncodePath(paths[i], PathId(FALSE, own + i), FALSE)])
       IN <<Text("GRI", "g")>>
            \o (IF own = 0 THEN <<>> ELSE EncodePath(res.path[1], PathId(FALSE, 1), FALSE))
            \o (IF own = 0 THEN <<>> ELSE EncodePath(res.path[1], PathId(TRUE, 1), TRUE))
            \o <<Integer("ALT_PATH_NUM", Len(res.alternates))>>
            \o Alternates(res.alternates)
            \o <<Integer("FLEX_ALT_PATH_NUM", Len(res.flexible))>>
            \o Flexible(res.flexible)

-----------------------------------------------------------------------------
VARIABLES request,   \* the request on the wire
          result,    \* the core's result
          message,   \* its sections that are not decoded yet
          offset,    \* length_decoded
          cons,      \* the constraint decoded so far
          reply      \* the reply to it

vars == <<request, result, message, offset, cons, reply>>

Nothing == [user |-> [t \in UserTags |-> Default(t)], schedules |-> <<>>, maximum |-> 0,
            path |-> <<>>, cosched |-> <<>>]

SectionSize(s) == 1 + LengthSize(s.length) + s.length

MessageLength(sections) ==
  LET sum[i \in 0 .. Len(sections)] ==
        IF i = 0 THEN 0 ELSE sum[i - 1] + SectionSize(sections[i])
  IN sum[Len(sections)]

Init ==
  /\ \E exchange \in Exchanges : request = exchange[1] /\ result = exchange[2]
  /\ message = Encode(request)
  /\ offset = 0
  /\ cons = Nothing
  /\ reply = <<>>

Decode(tag) ==
  /\ message # <<>>
  /\ Head(message).tag = tag
  /\ message' = Tail(message)
  /\ offset' = offset + SectionSize(Head(message))
  /\ UNCHANGED <<request, result, reply>>

UserCons ==
  /\ Decode("USERCONSTRAINT")
  /\ cons' = [cons EXCEPT !.user = DecodeUserCons(Head(message).fields)]

MultiplePath ==
  /\ Decode("MULTIPLE_PATH")
  /\ cons' = DecodeMultiplePath(cons, Head(message).fields)

ResvCons ==
  /\ Decode("RESERVEDCONSTRAINT")
  /\ cons' = [cons EXCEPT !.path = PathOf(Head(message).fields)]

Coschedule ==
  /\ Decode("COSCHEDULEREQ")
  /\ cons' = [cons EXCEPT !.cosched = <<DecodeCoschedule(Head(message).fields)>>]

\* HandleAPIMessage: a request with times of its own and no flexible schedules has one.
Schedules(c) ==
  IF c.schedules = <<>> /\ c.user["STARTTIME"] > 0 /\ c.user["ENDTIME"] > c.user["STARTTIME"]
  THEN <<<<c.user["STARTTIME"], c.user["ENDTIME"],
           c.user["ENDTIME"] - c.user["STARTTIME"]>>>>
  ELSE c.schedules

\* The whole message is decoded; the core's answer is encoded.
Answer ==
  /\ reply = <<>>
  /\ offset = MessageLength(Encode(request))
  /\ reply' = EncodeReply(result)
  /\ cons' = [cons EXCEPT !.schedules = Schedules(cons)]
  /\ UNCHANGED <<request, result, message, offset>>

Next == UserCons \/ ResvCons \/ Coschedule \/ MultiplePath \/ Answer

Spec == Init /\ [][Next]_vars

-----------------------------------------------------------------------------
\* The server reads the bandwidth the client asked for, as far as an int holds it.
Small(v) == v < Pow(IntBytes) \div 2

\* What the encoder writes of a request.
Meant(u) ==
  ToSet(CommonTags \o CASE u["LAYER"] = "2" -> VlanTags [] u["LAYER"] = "3" -> IpTags)

\* A request the encoder writes is read as it was meant: every field, whatever its layer
\* has and the size of its numbers, except a bandwidth that is not Small.
UserRoundTrip ==
  message = <<>> /\ request.path = <<>> =>
    /\ \A t \in Meant(request.user) :
         (t = "BANDWIDTH" => Small(request.user[t])) => cons.user[t] = request.user[t]
    /\ cons.cosched = request.cosched

\* The request goes from the first to the last hop of its path, with their VLANs, whatever
\* its first section says.
EndToEnd ==
  message = <<>> /\ request.path # <<>> /\ Len(request.path[1].hops) > 1 =>
    LET hops == request.path[1].hops
    IN /\ cons.user["SOURCE"] = hops[1].link
       /\ cons.user["DESTINATION"] = Last(hops).link
       /\ hops[1].vlans # "" => cons.user["SRCVLAN"] = hops[1].vlans
       /\ Last(hops).vlans # "" => cons.user["DESTVLAN"] = Last(hops).vlans

\* Decoding undoes encoding, for requests with and without a path.
RoundTrip == UserRoundTrip /\ EndToEnd

\* Every field tagged num says how many fields tagged item follow it, up to one of until.
Announces(fields, num, item, until) ==
  \A i \in DOMAIN fields : fields[i].tag = num =>
    LET rest == SubSeq(fields, i + 1, Len(fields))
        end == SelectInSeq(rest, LAMBDA f : f.tag \in until)
        part == IF end = 0 THEN rest ELSE SubSeq(rest, 1, end - 1)
    IN DecodeInt(fields[i]) = Len(Values(part, item))

\* A client that trusts the numbers in a reply, as they are "for decode side convenience",
\* finds the paths, links, schedules and segments they announce, and no two paths of one id.
Announced ==
  /\ Announces(reply, "PATH_LENGTH", "LINK_ID", {"BAG_INFO_NUM"})
  /\ Announces(reply, "LIFETIME_NUM", "LIFETIME_DUR", {"PATH_LENGTH"})
  /\ Announces(reply, "BAG_INFO_NUM", "BAG_SEG_NUM",
               {"PATH_ID", "ALT_PATH_NUM", "FLEX_ALT_PATH_NUM"})
  /\ \A item \in {"BAG_BANDWIDTH", "BAG_STARTTIME", "BAG_ENDTIME"} :
       Announces(reply, "BAG_SEG_NUM", item,
                 {"BAG_SEG_NUM", "PATH_ID", "ALT_PATH_NUM", "FLEX_ALT_PATH_NUM"})
  /\ Announces(reply, "ALT_PATH_NUM", "PATH_ID", {"FLEX_ALT_PATH_NUM"})
  /\ Announces(reply, "FLEX_ALT_PATH_NUM", "PATH_ID", {})
  /\ LET ids == Values(reply, "PATH_ID")
     IN \A i, j \in DOMAIN ids : ids[i].value = ids[j].value => i = j
=============================================================================
