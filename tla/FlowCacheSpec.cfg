\* The capacity of the program (0, none); times in any order.
CONSTANTS
    Keys = {k1, k2, k3, k4}
    Capacity = 0
    MaxExpire = 3
SPECIFICATION CacheSpec
INVARIANT Consistent
PROPERTY NeverOvertaken
