------------------------------ MODULE MCLogFile ------------------------------
(* An instance of LogFile for TLC: PUT (1) and COMMIT (3) records with keys  *)
(* and values of up to one and two bytes, the longest above the limit.       *)
EXTENDS LogFile

SomeRecords ==
    [type : {1}, txn : {1}, key : {<<2>>}, value : {<< >>, <<0>>, <<1, 2>>}]
        \cup [type : {3}, txn : {2}, key : {<< >>}, value : {<< >>}]
        \cup [type : {1}, txn : {4}, key : {<< >>}, value : {<<0>>, <<3, 0, 2, 1>>}]
=============================================================================
