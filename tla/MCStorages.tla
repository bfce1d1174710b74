----------------------------- MODULE MCStorages ------------------------------
(***************************************************************************)
(* Two messages, of one date or of two, and two workers; two deliveries, of *)
(* one message or of two.  Each library is on a database that assigns the  *)
(* one way or the other, and once, with one message, on one whose claims   *)
(* are not locked.                                                         *)
(***************************************************************************)
EXTENDS Storages

MCSites == {<<"knex", "mysql">>, <<"typeorm", "postgres">>, <<"prisma", "mysql">>,
            <<"mikro", "postgres">>, <<"mikro", "mariadb">>, <<"memory", "map">>}

MCMsgs       == {"m1", "m2", "m3"}
MCCreatedAt  == [m \in MCMsgs |-> IF m = "m3" THEN 2 ELSE 1]
MCDeliveries == {"d1", "d2", "d3"}
MCKeyOf      == [d \in MCDeliveries |-> IF d = "d3" THEN "k2" ELSE "k1"]
MCLoads      == [s \in MCSites |->
                    IF s = <<"mikro", "mariadb">> THEN {{"m1"}}
                    ELSE {{"m1", "m2"}, {"m1", "m3"}, {"d1", "d2"}, {"d1", "d3"}}]
==============================================================================
