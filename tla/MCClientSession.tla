--------------------------- MODULE MCClientSession ---------------------------
(* An instance of ClientSession for TLC.  Characters of keys and values are  *)
(* 9 and 10; one value and one key hold a quote, one key is too long for the *)
(* server and one request too long for its reader; one value holds a tag.    *)
EXTENDS ClientSession

Op(type, key, value, limit) == [type |-> type, key |-> key, value |-> value, limit |-> limit]

SomeOperations ==
    {Op(GET, <<9>>, << >>, 0), Op(GET, <<9, 9>>, << >>, 0), Op(DELETE, <<9>>, << >>, 0),
     Op(PUT, <<9>>, <<10>>, 0), Op(PUT, <<9>>, [i \in 1 .. MAX_VALUE_SIZE |-> 9], 0),
     Op(SCAN, <<9>>, <<10>>, 0), Op(SCAN, <<9>>, <<10>>, 1), Op(SCAN, <<9>>, <<10>>, 2), Op(PING, << >>, << >>, 0)}

SomeValues == {<<9>>, <<9, Quote, 10>>}

SomePairs ==
    {<< >>, <<<<<<9>>, <<10, Quote, 9>>>>>>, <<<<<<9>>, <<10, KeyTag, 9>>>>>>,
     <<<<<<9>>, <<9>>>>, <<<<10>>, <<10>>>>>>,
     <<<<<<9>>, <<9>>>>, <<<<Quote>>, <<10, 9, 10>>>>>>,
     <<<<<<9>>, <<9, 9, 9>>>>, <<<<10>>, <<10, 9, 10>>>>>>}
=============================================================================
