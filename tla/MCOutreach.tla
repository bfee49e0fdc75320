------------------------------ MODULE MCOutreach ------------------------------
(* Small instances of Outreach for TLC. *)
EXTENDS Outreach, TLC

\* "812" and "813" are Indonesian mobiles.
Typed(mark, digits) == [mark |-> mark, digits |-> digits]
Entries == {Typed("", <<"0", "812">>), Typed("+", <<"62", "812">>), Typed("", <<"62", "813">>),
            Typed("", <<"0", "0", "62", "812">>), Typed("", <<"813">>), Typed("+", <<"81", "812">>),
            Typed("", <<"0">>), Typed("(", <<"0", "813">>)}
Lists == UNION {[1..n -> Entries] : n \in 1..2}
Manual == [source : {"manual"}, picked : Lists]
Contacts == [source : {"contacts"}, picked : {{}, {1}, {2, 3, 4}}]
Rooms(numbers) == {<<d, <<"group">>>> : d \in numbers}
Groups == [source : {"groups"}, picked : SUBSET Rooms({1, 2, 3})]
Saved(id, device, subscriber, lid) ==
    [id |-> id, device |-> device, chat |-> <<"62", subscriber>>, lid |-> lid]
World(r, g) ==
    [request |-> r, groups |-> g,
     contacts |-> <<Saved(1, 1, "812", FALSE), Saved(2, 2, "812", FALSE), Saved(3, 1, "813", FALSE),
                    Saved(4, 1, "814", TRUE), Saved(5, 3, "815", FALSE)>>,
     threads |-> {<<1, <<"62", "812">>>>, <<2, <<"62", "813">>>>}]
Still == [g \in Rooms({1, 2, 3}) |-> "open"]
Anything == {World(r, Still) : r \in Manual \cup Contacts} \cup
            {World(r, g) : r \in Groups, g \in [Rooms({1, 2, 3}) -> {"open", "admins", "left"}]}

\* January 2028 to May 2028; the first of January 2028 is a Saturday.
Calendar == <<0, 31, 60, 91, 121>>
Rules ==
    [frequency : {"daily", "weekly", "monthly"}, minute : {0, 540, 1439},
     weekday : {0, 6}, day : {1, 29, 31}, until : {40 * 1440, 200 * 1440}]
=============================================================================
