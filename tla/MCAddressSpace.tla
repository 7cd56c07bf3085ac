--------------------------- MODULE MCAddressSpace ---------------------------
(***************************************************************************)
(* Two devices with a pack each.  "p" has positions by letter with two     *)
(* forms of one name, and a jog speed by string with a flagged axis; "q"   *)
(* has a text, a number that may not fit into its type, and the error code *)
(* of a tag, whose map only the record of a scan has.                      *)
(* Device 1 has a list of tags of its own beside its pack.                 *)
(***************************************************************************)
EXTENDS AddressSpace

MCPackName == <<"p", "q">>
MCOwnTags == <<<<"run">>, <<>>>>

MCTagPacks ==
    [p |-> (<<"machine_positions", "x">> :> "int64" @@ <<"jog_speed", "z">> :> "float64"),
     q |-> (<<"name">> :> "string" @@ <<"run">> :> "int32" @@
            <<"errors", "run">> :> "int64")]

MCIdentity == [d \in Devices |-> "name" :> <<"string", IF d = 1 THEN "a" ELSE "b">>]

MCAnswers == [run |-> {<<"number", 5>>, <<"number", 20>>}]

Element(name, data, dec, flag) == [name |-> name, data |-> data, dec |-> dec, flag |-> flag]
X == <<"X", Nul, Nul>>
LowerX == <<"x", Nul, Nul>>
Z == <<"Z", Nul, Nul>>

MCBuffers ==
    [machine_positions |-> {<<Element(X, -7, 1, 0), Element(LowerX, 3, 0, 0), Unused>>,
                            <<Element(Z, 5, 1, 0), Unused, Element(X, 15, 1, 0)>>},
     jog_speed |-> {<<Element(X, 4, 0, 0), Element(Z, 25, 1, 0)>>, <<Element(Z, 6, 1, 2), Unused>>}]

MCForms == [x |-> {<<"x">>, <<"X">>}, z |-> {<<"z">>, <<"Z">>}, run |-> {<<"run">>}]

\* EW_HANDLE
MCErrorCodes == {-8}

MCLimit == [int16 |-> 1, int32 |-> 0]

\* The pack of plugin.conf for a machine with the spindles S6 and S11.
SpindlePackName == <<"default">>
SpindleOwnTags == <<<<>>>>
SpindleTagPacks ==
    [default |-> (<<"spindle_load", "s6">> :> "int64" @@ <<"spindle_load", "s11">> :> "int64")]
SpindleBuffers ==
    [spindle_load |-> {<<Element(<<"S", "6", Nul>>, 3, 0, 0), Element(<<"S", "1", "1">>, 5, 0, 0)>>}]
SpindleForms == [s6  |-> {<<"s", "6">>, <<"S", "6">>},
                 s11 |-> {<<"s", "1", "1">>, <<"S", "1", "1">>}]
NoAnswers == [t \in {} |-> {}]
=============================================================================
