------------------------------ MODULE MCDisplay ------------------------------
EXTENDS DisplayInvariant

Above(i, f) == [sign |-> "POSITIVE", integer |-> i, fraction |-> f]
Below(i, f) == [sign |-> "NEGATIVE", integer |-> i, fraction |-> f]

\* The stack may hold anything; the longest text there is.
Garbage == Below(255, 255)

\* Both lengths a temperature and a pressure of a room have, and the lowest and
\* the highest temperature that leave the labels alone.
TestTemperatures == {-999, 999, 1000, 99999}
TestPressures == {99999, 100000}

\* One, two and three digits: the last is the code for a failed reading.
TestHumidities == {0, 10, 254}

\* One digit and two, both signs, and a fraction that needs a leading zero.
TestOutdoors == {Above(0, 6), Above(31, 50), Below(9, 50), Below(10, 0)}
=============================================================================
