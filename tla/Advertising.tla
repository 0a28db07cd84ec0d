----------------------------- MODULE Advertising ------------------------------
(***************************************************************************)
(* What a device says of itself before it is connected: ble_advdata.c puts *)
(* advertising data together, field by field, in a buffer on the stack,    *)
(* and host_main.c looks a field up in what it hears.                      *)
(*                                                                         *)
(* Data is a sequence of bytes, a field its length, its type and its       *)
(* content.  A value wider than a byte is a repeated symbol of its size.   *)
(***************************************************************************)
EXTENDS Integers, Sequences, SequencesExt, FiniteSets

CONSTANT MaxSize  \* BLE_GAP_ADV_MAX_SIZE (31)

\* BLE_GAP_AD_TYPE_...
TFlags == 1
TMore == [short |-> 2, long |-> 6]
TAll == [short |-> 3, long |-> 7]
TSolicited == [short |-> 20, long |-> 21]
TShortName == 8
TFullName == 9
TPower == 10
TInterval == 18
TService == 22
TAppearance == 25
TManufacturer == 255

(***************************************************************************)
(* ad: the ble_advdata_t.                                                  *)
(*   name      "none", "short" or "full", with shortLen                    *)
(*   flags, appearance, power  whether they are included                   *)
(*   more, all, solicited      lists of UUIDs, each a sequence of 2 or 16  *)
(*   interval  <<min, max>>, or <<>> when there is none                    *)
(*   maker     the content of the manufacturer's field, or <<>>            *)
(*   services  a sequence of contents                                      *)
(***************************************************************************)
NoAd == [name |-> "none", shortLen |-> 0, flags |-> FALSE, appearance |-> FALSE,
         power |-> FALSE, more |-> <<>>, all |-> <<>>, solicited |-> <<>>,
         interval |-> <<>>, maker |-> <<>>, services |-> <<>>]

Field(type, content) == <<Len(content) + 1, type>> \o content

(* p_encoded_data up to p_len, and whether the encoders still succeed. *)
Start == [ok |-> TRUE, data |-> <<>>]
Fails(e) == [e EXCEPT !.ok = FALSE]

(* A field written without looking at the room that is left, and with. *)
Write(e, field) == IF e.ok THEN [e EXCEPT !.data = @ \o field] ELSE e
Fit(e, field) ==
    IF Len(e.data) + Len(field) > MaxSize THEN Fails(e) ELSE Write(e, field)

(* name_encode; the SoftDevice gives the length of the whole name. *)
WithName(e, ad, name) ==
    LET room == MaxSize - Len(e.data) - 2
    IN  IF Len(e.data) + 2 > MaxSize \/ ad.shortLen + 2 > MaxSize THEN Fails(e)
        ELSE IF ad.name = "full" /\ Len(name) <= room
             THEN Write(e, Field(TFullName, name))
        ELSE IF ad.shortLen # 0 /\ ad.shortLen <= room
             THEN Write(e, Field(TShortName, [i \in 1 .. ad.shortLen |->
                             IF i <= Len(name) THEN name[i] ELSE 0]))
        ELSE Write(e, Field(TShortName, name))

WithAppearance(e) == Fit(e, Field(TAppearance, <<0, 0>>))
WithPower(e) == Fit(e, Field(TPower, <<0>>))

(* Mutant of WithSized: it does not look at the room that is left. *)
WithSizedUnchecked(e, list, type, size) ==
    LET some == SelectSeq(list, LAMBDA u : Len(u) = size)
    IN  IF some = <<>> THEN e ELSE Write(e, Field(type, FlattenSeq(some)))

(* uuid_list_sized_encode *)
WithSized(e, list, type, size) ==
    LET some == SelectSeq(list, LAMBDA u : Len(u) = size)
    IN  IF some = <<>> THEN e ELSE Fit(e, Field(type, FlattenSeq(some)))

(* uuid_list_encode: first the short ones, then the long ones. *)
WithUuids(e, list, types) ==
    WithSized(WithSized(e, list, types.short, 2), list, types.long, 16)

(* conn_int_check; 65535 is no preference. *)
IntervalOK(interval) ==
    /\ \A i \in 1 .. 2 : interval[i] \in 6 .. 3200 \cup {65535}
    /\ 65535 \in {interval[1], interval[2]} \/ interval[1] <= interval[2]

WithInterval(e, interval) ==
    IF Len(e.data) + 6 > MaxSize \/ ~IntervalOK(interval) THEN Fails(e)
    ELSE Write(e, Field(TInterval, <<interval[1], 0, interval[2], 0>>))

(* manuf_specific_data_encode, the company's two bytes first. *)
WithMaker(e, maker) == Fit(e, Field(TManufacturer, <<0, 0>> \o maker))

(* service_data_encode does not look at the room that is left. *)
WithServices(e, services) ==
    FoldLeft(LAMBDA f, s : Write(f, Field(TService, <<0, 0>> \o s)), e, services)

(* adv_data_encode, the parts in its order; the flags are not measured. *)
Encode(ad, name) ==
    LET n == IF ad.name = "none" THEN Start ELSE WithName(Start, ad, name)
        a == IF ad.appearance THEN WithAppearance(n) ELSE n
        f == IF ad.flags THEN Write(a, Field(TFlags, <<4>>)) ELSE a
        p == IF ad.power THEN WithPower(f) ELSE f
        u == WithUuids(WithUuids(WithUuids(p, ad.more, TMore),
                                 ad.all, TAll), ad.solicited, TSolicited)
        i == IF u.ok /\ ad.interval # <<>> THEN WithInterval(u, ad.interval) ELSE u
        m == IF ad.maker = <<>> THEN i ELSE WithMaker(i, ad.maker)
    IN  WithServices(m, ad.services)

(* ble_advdata_set: advertising data must have the flags, a scan response   *)
(* must not; nothing reaches the SoftDevice unless both could be encoded.   *)
Encoded(ad, name) == IF ad.flags THEN Encode(ad, name) ELSE Fails(Start)
Response(sr, name) == IF sr.flags THEN Fails(Start) ELSE Encode(sr, name)

(* adv_report_parse: the content of the first field of a type, as a         *)
(* one-element sequence.                                                    *)
Find(type, data) ==
    LET at[i \in Nat] ==
          IF i > Len(data) THEN <<>>
          ELSE IF data[i + 1] = type THEN <<SubSeq(data, i + 2, i + data[i])>>
          ELSE at[i + data[i] + 1]
    IN  at[1]

(* What a scanner must find of an ad that was accepted. *)
Shows(ad, name, data) ==
    /\ ad.name = "full" /\ Find(TFullName, data) # <<>> =>
         Find(TFullName, data) = <<name>>
    /\ ad.name # "none" => Find(TFullName, data) \o Find(TShortName, data) # <<>>
    /\ ad.flags => Find(TFlags, data) = <<<<4>>>>
    /\ \A u \in ToSet(ad.all) : Len(u) = 2 =>
         \E list \in ToSet(Find(TAll.short, data)) :
           \E k \in 0 .. Len(list) \div 2 - 1 : SubSeq(list, 2 * k + 1, 2 * k + 2) = u
    /\ \A u \in ToSet(ad.all) : Len(u) = 16 => Find(TAll.long, data) # <<>>
    /\ ad.maker # <<>> => Find(TManufacturer, data) = <<<<0, 0>> \o ad.maker>>
    /\ ad.services # <<>> =>
         Find(TService, data) = <<<<0, 0>> \o ad.services[1]>>
=============================================================================
