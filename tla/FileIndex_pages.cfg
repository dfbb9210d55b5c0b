SPECIFICATION Spec
CONSTANTS
  p1 = p1
  p2 = p2
  images = images
  texts = texts
  Paths = {p1, p2}
  Categories = {images, texts}
  Category <- TwoCategories
  MaxTime = 3
  MaxQueue = 2
  Limit = 1
  Requests = {{images, texts}}
  NoKey = NoKey
INVARIANT PagesResume
