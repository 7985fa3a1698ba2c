---------------------------- MODULE MCBasePlugin ------------------------------
(* BasePlugin with small sets of chunks, a square of five by five chunks shown, and a
   column of twelve blocks. *)
EXTENDS BasePlugin

ThePrimes == <<5, 11, 23>>
TheSpawns == {<<3, 9>>, <<-40, 20>>}
ThePlaces == {<<0, 0>>, <<-1, -1>>, <<-41, 5>>, <<40, -35>>, <<-70, 66>>}
TheFragile == {<<-2, 0>>}
TheRates == {[day |-> d, sunset |-> s, night |-> n, sunrise |-> s] : d \in {1, 9, -3}, s \in {2, 0}, n \in {5, 60}}

\* The order of the distribution's configuration, and others.
TheLoads == {<<"classic", "nbt", "classic">>, <<"nbt", "trivial", "classic">>, <<"nbt">>,
             <<"other", "nbt", "classic">>, <<"classic", "other", "nbt">>,
             <<"nbt", "classic", "trivial">>}
==============================================================================
