\* The smallest cache: two keys, two values, room for one key or for both.
SPECIFICATION CacheSpec
CONSTANTS
    k1 = k1
    k2 = k2
    v1 = v1
    v2 = v2
    Key = {k1, k2}
    Value = {v1, v2}
    Miss = Miss
    Capacities = {1, 2}
PROPERTY UpdatesOnPut
