--------------------------- MODULE MCStandardHash ---------------------------
(***************************************************************************)
(* The 37 keys whose hashes the tests pin, and keys of every length up to  *)
(* 70, over two blocks of 32 and a half, half of their bytes above 127.    *)
(***************************************************************************)
EXTENDS StandardHash

Alphabet == [i \in 1..36 |-> IF i <= 10 THEN 47 + i ELSE 86 + i]
Pinned == {SubSeq(Alphabet, 1, n) : n \in 0..36}

Scattered == [i \in 1..70 |-> (i * 151 + 40) % 256]
Long70 == {SubSeq(Scattered, 1, n) : n \in 1..70}

TheKeys == Pinned \cup Long70
AllPorts == {"core", "go", "java", "csharp", "rust"}

\* The hashes of the first 0..36 characters of "0123456789abcdefghijklmnopqrstuvwxyz",
\* low word first, as the tests list them.
Expected ==
    <<<<<<2329, 27637, 1788, 8999>>, <<20935, 46312, 61029, 35698>>>>,
     <<<<50814, 54606, 38535, 20512>>, <<53101, 36337, 34064, 25342>>>>,
     <<<<64335, 26867, 32131, 64486>>, <<23130, 28781, 23177, 46410>>>>,
     <<<<52474, 22598, 53530, 10370>>, <<37410, 28688, 45288, 27425>>>>,
     <<<<53248, 9686, 54627, 62944>>, <<30181, 63916, 969, 44935>>>>,
     <<<<42413, 31463, 63099, 22944>>, <<47176, 49235, 44715, 34007>>>>,
     <<<<11297, 26852, 25250, 61461>>, <<15998, 8839, 38059, 57321>>>>,
     <<<<9693, 25095, 12548, 5651>>, <<11882, 42776, 13999, 42442>>>>,
     <<<<38009, 57177, 30940, 31379>>, <<52695, 42830, 42345, 12533>>>>,
     <<<<2680, 30402, 31708, 55792>>, <<34954, 18423, 25112, 13552>>>>,
     <<<<33754, 2015, 20479, 13098>>, <<27506, 49386, 21884, 64064>>>>,
     <<<<23004, 53526, 61167, 38763>>, <<57, 42797, 34742, 35377>>>>,
     <<<<33578, 58566, 49465, 50172>>, <<12078, 57374, 61430, 56031>>>>,
     <<<<27247, 51060, 1427, 34323>>, <<58269, 36943, 64276, 35529>>>>,
     <<<<57984, 23773, 3518, 28757>>, <<1728, 10279, 22359, 56761>>>>,
     <<<<4653, 63161, 8122, 26401>>, <<219, 48071, 59635, 26868>>>>,
     <<<<32941, 38475, 26694, 58064>>, <<19488, 51036, 1674, 24581>>>>,
     <<<<52883, 600, 15361, 54619>>, <<39248, 26013, 35587, 38940>>>>,
     <<<<64019, 41010, 2010, 23077>>, <<27895, 64524, 39067, 3356>>>>,
     <<<<52565, 35557, 6247, 44934>>, <<61180, 54311, 23802, 57527>>>>,
     <<<<14808, 59553, 28743, 44378>>, <<30014, 39050, 8655, 6198>>>>,
     <<<<52574, 10019, 4121, 36801>>, <<47172, 1892, 10744, 8241>>>>,
     <<<<44825, 34263, 2884, 20503>>, <<32053, 17883, 31185, 32556>>>>,
     <<<<11251, 21025, 17478, 31794>>, <<10962, 5486, 20921, 10237>>>>,
     <<<<29536, 23758, 28962, 37093>>, <<13352, 63299, 47350, 63299>>>>,
     <<<<16865, 6877, 21372, 39193>>, <<25074, 1458, 5519, 32752>>>>,
     <<<<671, 2179, 43015, 14960>>, <<53770, 6165, 47761, 50652>>>>,
     <<<<10361, 10510, 46104, 52274>>, <<24059, 55195, 17878, 47993>>>>,
     <<<<31467, 17927, 15942, 56905>>, <<38714, 9824, 11941, 18012>>>>,
     <<<<63856, 21270, 55733, 19770>>, <<34747, 2685, 58116, 37175>>>>,
     <<<<18676, 61416, 56949, 5447>>, <<2732, 46387, 16136, 8622>>>>,
     <<<<27391, 27307, 53452, 58090>>, <<28839, 63358, 3020, 10658>>>>,
     <<<<20916, 59828, 62633, 15810>>, <<24786, 56955, 12397, 10206>>>>,
     <<<<40785, 42206, 30292, 52772>>, <<36198, 24212, 38884, 1024>>>>,
     <<<<21763, 41520, 36651, 48145>>, <<34111, 59954, 1488, 33039>>>>,
     <<<<41240, 51906, 55485, 46428>>, <<23850, 25712, 46673, 20115>>>>,
     <<<<12088, 1987, 32184, 47049>>, <<63037, 2782, 8995, 20743>>>>>>

\* What the tests of Java (HashTest.java:18-56), Rust and .NET pin, here for every
\* port.
KnownHashes ==
    done /\ key \in Pinned => <<h[1], h[2]>> = Expected[Len(key) + 1]
=============================================================================
