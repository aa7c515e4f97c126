---------------------------- MODULE MCBatchArrivals ----------------------------
(* Small inputs for model checking BatchArrivals: a day of three hours of two  *)
(* minutes, and windows of a day, past midnight, given as hours from the       *)
(* day before, over the weekend only, of a whole day, and not given.           *)
EXTENDS BatchArrivals

CONSTANTS s1, s2, x, v, w

MCBatches == {<<<<s1, v>>, <<s2, v>>, <<s1, v>>>>, <<<<s2, w>>, <<s1, v>>>>,
              <<<<x, v>>, <<s1, w>>>>}

MCBoards == {[s \in {v} |-> <<NoBus, NoBus>>], [s \in {v} |-> <<NoBus, 4>>],
             [s \in {v, w} |-> IF s = v THEN <<0 - 1, 6>> ELSE <<NoBus, NoBus>>]}

Row(wd, sat, sun) == [wd |-> wd, sat |-> sat, sun |-> sun]
Daytime == <<<<0, 1>>, <<1, 0>>>>
Night == <<<<1, 1>>, <<0, 0>>>>
Late == <<<<1, 1>>, <<3, 1>>>>
Unknown == <<NoTime, <<1, 0>>>>
Odd == <<<<0, 0>>, <<0, 3>>>>
AllDay == <<<<0, 0>>, <<3, 0>>>>

\* What the stops hold for a service: every kind of window at one of them.
AtNight == [key \in Stop \X Service |->
    CASE key = <<s1, v>> -> {Row(Late, Late, Late)}
      [] key = <<s1, w>> -> {Row(Late, Late, Daytime)}
      [] key = <<s2, v>> -> {Row(Daytime, Night, Night)}
      [] key = <<s2, w>> -> {Row(Daytime, Daytime, Daytime), Row(Night, Night, Night)}
      [] OTHER -> {}]
ByDay == [key \in Stop \X Service |->
    CASE key = <<s1, v>> -> {Row(Daytime, Daytime, Daytime)}
      [] key = <<s1, w>> -> {Row(Daytime, Unknown, Odd)}
      [] key = <<s2, v>> -> {Row(AllDay, AllDay, AllDay)}
      [] OTHER -> {}]
MCTables == {AtNight, ByDay}

\* Shortly before and after the midnights that begin a Saturday, a Sunday and
\* a Monday.
MCStarts == {DayTicks * day + t : day \in 5..7, t \in {0 - 2, 2}}
=============================================================================
